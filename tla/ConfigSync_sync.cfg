SPECIFICATION FairSpec
CONSTANTS
  S = 3
  Source = {"a", "b"}
  Always = {0}
  Cap = 2
  Floor = 1
  Headroom = 0
  KeepClock = FALSE
  MaxChanges = 2
  MaxCrashes = 1
PROPERTIES
  WantedStays
  RelaunchesStop
  Catches
  QueuesSuffice
