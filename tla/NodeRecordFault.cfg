SPECIFICATION Spec
CONSTANTS
  NumMessages = 1
  MaxYields = 1
  MaxRetries = 1
  Kinds = {"thread"}
  Faults = {"record"}
INVARIANT RecordSparesNode
CHECK_DEADLOCK FALSE
