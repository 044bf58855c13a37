SPECIFICATION FairTaggedSpec
CONSTANTS
  NPeers = 3
  MaxRound = 2
  Ops <- AllOps
  AllToAll = {1}
  Faults = FALSE
  Tag <- ZeroId
  MaxUse = 2
  Programs <- OneId
  TagTimeouts <- FirstOfRankZero
INVARIANTS TaggedInv TaggedExact TaggedBarrier TaggedTokensOutliveReaders
PROPERTY AllShutDown
CHECK_DEADLOCK FALSE
