SPECIFICATION FairSpec
CONSTANTS
  NRanks = 4
  OptIns <- Anybody
  Faults = TRUE
INVARIANTS RingInv RouteAgreed RingWhole InStep StreamsClean
PROPERTY SetupReturnsIfAlive
CHECK_DEADLOCK FALSE
