SPECIFICATION Spec
CONSTANTS
  NPeers = 2
  MaxRound = 2
  Ops <- TwoRankOps
  AllToAll = {}
  Faults = TRUE
INVARIANT RetentionBounded
CHECK_DEADLOCK FALSE
