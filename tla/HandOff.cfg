SPECIFICATION HandOffSpec
CONSTANTS
  Producers = {"p1"}
  Turns = {}
  MessageQueueSize = 2
  Homes = {"parent"}
  HighWaterMark = 2
  MaxSends = 2
INVARIANTS
  OneConsumer
CHECK_DEADLOCK FALSE
