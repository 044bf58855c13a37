SPECIFICATION FairSpec
CONSTANTS
  NParams = 1
  Modes = {TRUE}
  Optimizer = "nesterov"
  Updates = {1}
  Steps = {2}
  Epochs = {0, 1}
  MaxInner = 1
  MaxRounds = 1
  MaxContexts = 2
INVARIANTS ResultIsCurrent IdleMeansJoined FinalizedQuiet OwnCheckpointAccepted
PROPERTY OperationsReturn
CHECK_DEADLOCK FALSE
