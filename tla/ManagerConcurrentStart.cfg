SPECIFICATION Spec
CONSTANTS
  Names = {n1}
  Requests = {r1, r2}
  MaxProcesses = 2
  Clients = {"concurrent"}
INVARIANT UniqueName
CHECK_DEADLOCK FALSE
