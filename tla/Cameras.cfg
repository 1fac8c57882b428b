SPECIFICATION Spec
CONSTANTS
  Settings = {s1, s2}
  Requests = {r1, r2}
  Entries = {e1, e2}
  MaxCameras = 2
  NoSettings = NoSettings
  NoEntry = NoEntry
INVARIANTS DefaultKept OneRecognition FreshSnapshot
SYMMETRY Symmetry
