SPECIFICATION Spec
CONSTANTS
  N = 4
  KeepNum = 1
  KeepDen = 2
  Values <- Even
  MaxSig = 3
  Spacings = {2, 4}
  Transports = {"sparse"}
  MaxRounds = 2
INVARIANTS Conserved
CHECK_DEADLOCK FALSE
