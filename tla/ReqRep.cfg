SPECIFICATION QueueSpec
CONSTANTS
  DequeLen = 2
  MaxItems = 4
  MaxStale = 2
INVARIANTS
  AtLeastOnce
PROPERTY PutReturns
CHECK_DEADLOCK FALSE
