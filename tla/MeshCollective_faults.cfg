SPECIFICATION FairSpec
CONSTANTS
  NPeers = 2
  MaxRound = 3
  Ops <- TwoRankOps
  AllToAll = {}
  Faults = TRUE
INVARIANTS CollectiveInv ResultExact CompletionBarrier TokensOutliveReaders ShutdownRendezvous OneRoundRetained
PROPERTIES ImplementsContract CallsReturn
CHECK_DEADLOCK FALSE
