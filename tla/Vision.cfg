SPECIFICATION Spec
CONSTANTS
  Folders = {"a", "b"}
  NumImages <- MCNumImages
  MaxFrames = 3
  BatchSize = 2
  BatchQueueSize = 1
  NumExtremes = 0
  NumToSelect = 1
  Scenarios <- MCScenarios
INVARIANTS
  DatasetSound
PROPERTIES
  SelectionHappens
  CollectorsExit
CHECK_DEADLOCK FALSE
