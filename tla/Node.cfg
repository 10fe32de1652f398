SPECIFICATION Spec
CONSTANTS
  NumMessages = 2
  MaxYields = 2
  MaxRetries = 1
  Kinds = {"thread", "process"}
  Faults = {"send", "record", "write"}
INVARIANTS
  TypeOK
  StatsAddUp
  OutputSound
PROPERTIES
  StopQuiet
  LoopEnds
  MessageSettles
CHECK_DEADLOCK FALSE
