SPECIFICATION RoutingSpec
CONSTANTS
  Configs <- MCConfigs
  Importable = {"HashNode", "VadNode", "ProcessDetBatchInference"}
  Drivers = {"main"}
INVARIANTS
  ControlEdgesAreTaken
CHECK_DEADLOCK FALSE
