SPECIFICATION Spec
CONSTANTS
  NParams = 1
  Modes = {TRUE}
  Optimizer = "adam"
  Updates = {1}
  Steps = {2}
  Epochs = {0}
  MaxInner = 2
  MaxRounds = 2
  MaxContexts = 1
INVARIANTS MomentsKept
CHECK_DEADLOCK FALSE
