SPECIFICATION RoutingSpec
CONSTANTS
  Configs <- MCConfigs
  Importable = {"HashNode", "VadNode", "ProcessDetBatchInference"}
  Drivers = {"main", "service", "voice"}
INVARIANTS
  WiringFollowsConfig
  EveryMailboxServed
CHECK_DEADLOCK FALSE
