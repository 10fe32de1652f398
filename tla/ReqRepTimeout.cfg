SPECIFICATION QueueSpec
CONSTANTS
  DequeLen = 2
  MaxItems = 4
  MaxStale = 2
PROPERTY PutGivesUp
CHECK_DEADLOCK FALSE
