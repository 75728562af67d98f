SPECIFICATION FairSpec
CONSTANTS
  N = 3
  Stale = 0
  Fallback = 1
  Setups <- MCSetups
INVARIANTS
  SlateIsSlate
PROPERTIES
  SlateComes
  GoneShowsWitness
  Reconnects
