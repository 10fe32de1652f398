SPECIFICATION ReviewSpec
CONSTANTS
  Frames = {f1, f2}
  Requests = {r1, r2}
  Ops = {"put"}
  Clients = {"concurrent"}
  MaxStarts = 1
  MaxCrashes = 0
INVARIANT MarksKept
CHECK_DEADLOCK FALSE
