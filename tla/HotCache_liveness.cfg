SPECIFICATION FairSpec
CONSTANTS
  a1 = a1
  a2 = a2
  b1 = b1
  a = a
  b = b
  w = w
  None = None
  Error = Error
  Requests <- MCRequests
  Procs <- MCServers
  ProcOf <- MCProcOf
  MaxCommits = 0
  MaxFaults = 1
  FaultKinds = {"redis", "fill", "cancel", "timeout", "stall", "crash"}
  RedisOn = TRUE

CHECK_DEADLOCK FALSE
PROPERTIES EveryCallReturns
