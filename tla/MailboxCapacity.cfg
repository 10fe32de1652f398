SPECIFICATION Spec
CONSTANTS
  Producers = {p1}
  Turns = {t1}
  MessageQueueSize = 1
  Homes = {"parent"}
  HighWaterMark = 2
  MaxSends = 2
INVARIANT ConfiguredCapacity
CHECK_DEADLOCK FALSE
