SPECIFICATION FairSpec
CONSTANTS
  TxPoller = {t1, t2}
  RxPoller = {r1}
  K = 2
  Thresh = 3
  MaxCommits = 2
  MaxTries = 2
  SlowBurst = FALSE
  StartFails = TRUE
  Starved = FALSE
INVARIANTS
  Guarded
  NoBurstOnStopped
  Conserved
  NoFalseHang
PROPERTIES
  Resumes
  CommitEnds
