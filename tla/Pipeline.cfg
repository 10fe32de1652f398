SPECIFICATION Spec
CONSTANTS
  Length = 3
  Capacity = 1
  Kinds = {"thread", "process"}
  Drivers = {"main", "service", "voice", "smoke"}
  Faults = {"start", "crash"}
INVARIANTS
  NoSendBeforeListening
PROPERTIES
  FailureReachesAll
  ShutdownCompletes
  ToldProcessesEnd
CHECK_DEADLOCK FALSE
