SPECIFICATION RoutingSpec
CONSTANTS
  Configs <- MCConfigs
  Importable = {"HashNode", "VadNode", "ProcessDetBatchInference"}
  Drivers = {"main"}
INVARIANTS
  AcceptedIsWired
CHECK_DEADLOCK FALSE
