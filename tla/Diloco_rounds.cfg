SPECIFICATION Spec
CONSTANTS
  NParams = 2
  Modes = {TRUE, FALSE}
  Optimizer = "nesterov"
  Updates = {1}
  Steps <- EitherWay
  Epochs = {0}
  MaxInner = 2
  MaxRounds = 2
  MaxContexts = 1
INVARIANTS DilocoInv LocalWorkKept MomentsKept
CHECK_DEADLOCK FALSE
