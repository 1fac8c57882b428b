SPECIFICATION Spec
CONSTANTS
  a1 = a1  a2 = a2  b1 = b1
  Students = {s1, s2}
  Features = {a1, a2, b1}
  Similarity <- TwoPersons
  Photos = {p1, p2}
  Imports = {i1}
  Requests = {r1, r2}
  Overlap <- CommitTwice
  MaxCopies = 2
  None = None
SYMMETRY Symmetry
INVARIANTS ImportedOnce CacheIsTable OneFaceOneStudent
PROPERTY ImplementsContract
