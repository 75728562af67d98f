SPECIFICATION FairSpec
CONSTANTS
  N = 3
  B = 2
  Settings <- MCSettings
INVARIANTS
  OneDoor
  HoldComplete
  NoneForgotten
PROPERTIES
  IsSender
  NeverBackInTime
  NeverMute
  WorkerPublishes
  ReadyLeaves
