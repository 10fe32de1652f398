SPECIFICATION Spec
CONSTANTS
  NumMessages = 1
  MaxYields = 1
  MaxRetries = 1
  Kinds = {"process"}
  Faults = {"write"}
INVARIANT EveryFailureRecorded
CHECK_DEADLOCK FALSE
