SPECIFICATION Spec
CONSTANTS
  Students = {s1}
  Sessions = {a}
  Requests = {r1, r2}
  Scores = {30, 90}
  MaxTime = 4
  Midnight = 2
  MaxTracks = 2
  MaxFaults = 0
SYMMETRY Symmetry
INVARIANTS AttendanceNeedsVote MarkingFollowsVerdict NoOrphanRows BoundedDeliberation
PROPERTIES VerdictFinal
