SPECIFICATION Spec
CONSTANTS
  Names = {n1, n2}
  Requests = {r1, r2}
  MaxProcesses = 2
  Clients = {"multipipe"}
INVARIANT AllPipelinesStopped
CHECK_DEADLOCK FALSE
