SPECIFICATION FairSpec
CONSTANTS
  NRanks = 3
  OptIns <- Together
  Faults = TRUE
PROPERTY SetupReturns
CHECK_DEADLOCK FALSE
