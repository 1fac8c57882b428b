SPECIFICATION Spec
CONSTANTS
  ann = ann
  ben = ben
  left = left
  right = right
  Nobody = Nobody
  Persons = {ann, ben}
  Students = {ann, ben}
  Likeness <- Siblings
  Places = {left, right}
  Association <- Near
  Within <- Crowded
  Frames <- Images
  Loads = {1}
  Requests = {r1, r2}
  MaxTracks = 2
SYMMETRY Symmetry
INVARIANTS IdentityFromOwnFaces VotesFromOwnTrack OneFacePerStudent
PROPERTIES ExpiredForGood
