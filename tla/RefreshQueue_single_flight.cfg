SPECIFICATION Spec
CONSTANTS
  e1 = e1  e2 = e2  w1 = w1  w2 = w2  aapl = aapl  msft = msft
  manual = manual  stale = stale
  NoWorker = NoWorker
  RecoveryBatch = 1
  Tickers = {aapl}
  InitialCompanies = {aapl}
  Reasons = {manual, stale}
  Enqueuers = {e1, e2}
  Workers = {w1, w2}
  MaxJobs = 2
  MaxEvents = 2
  MaxFaults = 1
  FaultKinds = {"db", "crash", "stall"}
  RedisOn = TRUE
  DedupeOn = FALSE
  LockOutlivesJobs = TRUE
SYMMETRY Symmetric
CHECK_DEADLOCK FALSE
INVARIANTS OneActivePerCompany
