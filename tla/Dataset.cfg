SPECIFICATION ReviewSpec
CONSTANTS
  Frames = {f1, f2}
  Requests = {r1, r2, r3}
  Ops = {"put", "get", "list"}
  Clients = {"serial", "concurrent"}
  MaxStarts = 2
  MaxCrashes = 1
INVARIANTS
  ReviewedWasCorrected
  SerialMarksKept
CHECK_DEADLOCK FALSE
