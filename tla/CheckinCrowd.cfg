SPECIFICATION FairSpec
CONSTANTS
  Students = {s1, s2}
  Sessions = {a}
  Requests = {r1}
  Scores = {90}
  MaxTime = 1
  Midnight = 3
  MaxTracks = 2
  MaxFaults = 1
INVARIANTS CommittedIsRecorded
PROPERTIES ImplementsContract VerifiedEventuallyRecorded
