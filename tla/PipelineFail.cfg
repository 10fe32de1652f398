SPECIFICATION Spec
CONSTANTS
  Length = 2
  Capacity = 1
  Kinds = {"process"}
  Drivers = {"main"}
  Faults = {}
PROPERTY FailBringsPipelineDown
CHECK_DEADLOCK FALSE
