SPECIFICATION Spec
CONSTANTS
  NumMessages = 1
  MaxYields = 1
  MaxRetries = 1
  Kinds = {"process"}
  Faults = {"send"}
INVARIANT PolicyCoversOnlyProcess
CHECK_DEADLOCK FALSE
