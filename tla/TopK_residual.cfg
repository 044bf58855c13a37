SPECIFICATION Spec
CONSTANTS
  N = 4
  KeepNum = 1
  KeepDen = 2
  Values <- Mixed
  MaxSig = 3
  Spacings = {2, 4}
  Transports = {"dense", "sparse"}
  MaxRounds = 2
INVARIANTS TopKInv ConservedDense ConservedToRounding PayloadFits LargestDelivered
CHECK_DEADLOCK FALSE
