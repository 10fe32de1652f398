SPECIFICATION Spec
CONSTANTS
  Producers = {"p1", "p2"}
  Turns = {"t1"}
  MessageQueueSize = 2
  Homes = {"thread", "parent"}
  HighWaterMark = 2
  MaxSends = 2
INVARIANTS
  TypeOK
  PerProducerOrder
PROPERTIES
  NothingLostSilently
  ThreadsExit
  CancelNotBlocked
  EveryMessageDelivered
  ImplementsEdge
CHECK_DEADLOCK FALSE
