SPECIFICATION Spec
CONSTANTS
  Inputs <- MCInputs
  IouNum = 1
  IouDen = 2
  MaxDet = 3
INVARIANTS
  OverlapValidated
CHECK_DEADLOCK FALSE
