SPECIFICATION FairSpec
CONSTANTS
  Cameras = {c1}
  Requests = {r1, r2}
  Viewers = {r1}
  Editors = {r2}
  Streams = {s1, s2}
  Configs = {net, usb}
  HostConfigs = {usb}
  Uses = {"preview"}
  NoStream = NoStream
PROPERTIES LeftPoolEnds PreviewEnds
INVARIANTS NoDeadStream NoLostWakeup
