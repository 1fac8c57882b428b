SPECIFICATION Spec
CONSTANTS
  Managers = {m1}
  Scripts = {s1}
  NoManager = NoManager
INVARIANTS TypeOK StartupKept StopHolds
PROPERTY BusyEnds
