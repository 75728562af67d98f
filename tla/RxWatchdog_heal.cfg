SPECIFICATION FairSpec
CONSTANTS
  Group = {"a"}
  Slot = {1, 2}
  Stall = 2
  Bounce = 1
  MaxDelay = 3
  Grace = 1
  ColdMax = 1
  MaxTries = 2
  MaxFaults = 1
PROPERTIES
  Spaced
  Heals
