SPECIFICATION RoutingSpec
CONSTANTS
  Configs <- MCConfigs
  Importable = {"HashNode", "VadNode", "ProcessDetBatchInference"}
  Drivers = {"main"}
INVARIANTS
  IdsAreDistinct
CHECK_DEADLOCK FALSE
