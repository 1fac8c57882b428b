SPECIFICATION Spec
CONSTANTS
  ann = ann
  ben = ben
  left = left
  right = right
  Nobody = Nobody
  Persons = {ann, ben}
  Students = {ann, ben}
  Likeness <- Themselves
  Places = {left, right}
  Association <- Near
  Within <- Spaced
  Frames <- Images
  Loads = {2}
  Requests = {r1}
  MaxTracks = 2

INVARIANT VoteIsForWhoIsSeen
