SPECIFICATION Spec
CONSTANTS
  Inputs <- MCInputs
  IouNum = 1
  IouDen = 2
  MaxDet = 3
INVARIANTS
  SlicingSound
  SuppressionSound
CHECK_DEADLOCK FALSE
