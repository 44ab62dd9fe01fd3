SPECIFICATION Spec
CONSTANTS
  a1 = a1
  a2 = a2
  b1 = b1
  a = a
  b = b
  w = w
  None = None
  Error = Error
  Requests <- MCRequests
  Procs <- MCProcs
  ProcOf <- MCProcOf
  MaxCommits = 1
  MaxFaults = 1
  FaultKinds = {"redis", "fill", "cancel", "crash"}
  RedisOn = TRUE
SYMMETRY Twins
CHECK_DEADLOCK FALSE
INVARIANTS TypeOK OneFiller
PROPERTIES InvalidationRemoves
