SPECIFICATION Spec
CONSTANTS
  Cameras = {c1}
  Requests = {r1, r2}
  Viewers = {r1, r2}
  Editors = {r1, r2}
  Streams = {s1, s2}
  Configs = {net, new}
  HostConfigs = {}
  Uses = {"recognition"}
  NoStream = NoStream
SYMMETRY Symmetry
INVARIANTS NoLeak NotIdleUnderWaiter
PROPERTIES ImplementsContract
