SPECIFICATION Spec
CONSTANTS
  Processes = {p1, p2}
  Pairs = {k1, k2, k3, k4}
  NoPair = NoPair
  Hosts = {h1, h2}
  Dirs = 2
  Models = 2
  Writable = {2}
  NoHost = NoHost
SYMMETRY Symmetry
INVARIANTS TypeOK RootNeverReplaced ServedUnderRoot Prepared VerifiedModels
PROPERTY GoodCopiesStay
