SPECIFICATION RoutingSpec
CONSTANTS
  Configs <- MCConfigs
  Importable = {"HashNode", "VadNode", "ProcessDetBatchInference"}
  Drivers = {"main"}
INVARIANTS
  RecordsDoNotCollide
CHECK_DEADLOCK FALSE
