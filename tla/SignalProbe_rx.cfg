SPECIFICATION FairProbe
CONSTANTS
  Every = 2
  Hold = 1
  ClipHold = 1
  Stale = 1
  Ring = 1
  Pictures = {"black", "moving"}
  MaxGen = 2
  MaxFailed = 1
PROPERTIES
  ClipIsSaid
  Reconnects
  BlackIsSaid
