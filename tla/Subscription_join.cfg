SPECIFICATION FairSpec
CONSTANTS
  Iface <- Ports
  PtimeDef = 1000
  N = 2
  Nodes <- MCNodes
  Outs <- MCOuts
  Outputs = {1}
  FPS = 5000
  MaxOps = 3
INVARIANTS
  ReadIsSent
  AnnouncedIsSent
PROPERTIES
  Settles
