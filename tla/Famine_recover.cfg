SPECIFICATION FairSpec
CONSTANTS
  Video = {"v1", "v2"}
  Audio = {"a1", "a2"}
  Leg = {1, 2}
  Hw = {"q1", "q2", "q3"}
  Thresh = 1
  Guard = 1
  Failures = {"txq", "video", "audio"}
  MaxLoss = 2
  MaxFail = 2
  MaxCommit = 1
  MaxHold = 1
INVARIANTS
  QueuesOwned
  NoSelfWait
  LastLegServed
PROPERTIES
  Revives
