SPECIFICATION Spec
CONSTANTS
  Names = {n1, n2}
  Requests = {r1, r2}
  MaxProcesses = 2
  Clients = {"serial", "concurrent", "multipipe"}
INVARIANTS
  RegistryAgrees
  OneStopper
PROPERTIES
  StopKills
CHECK_DEADLOCK FALSE
