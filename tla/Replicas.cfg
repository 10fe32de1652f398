SPECIFICATION Spec
CONSTANTS
  Ports = {p1, p2, p3}
  OtherPort = other
  Loops = {1, 2}
  MinReplicas = 1
  MaxReplicas = 2
  QueueDepthHigh = 1
  QueueDepthLow = 0
  MessageQueueSize = 1
  HighWaterMark = 1
  MaxBuffers = 2
  MaxMessages = 2
INVARIANTS
  SegmentsOwned
  PoolWithinBounds
PROPERTY StoppedLoopsEnd
CHECK_DEADLOCK FALSE
