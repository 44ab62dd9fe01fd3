SPECIFICATION Spec
CONSTANTS
  e1 = e1  e2 = e2  w1 = w1  w2 = w2  aapl = aapl  msft = msft
  manual = manual  stale = stale
  NoWorker = NoWorker
  RecoveryBatch = 1
  Tickers = {aapl}
  InitialCompanies = {aapl}
  Reasons = {manual}
  Enqueuers = {e1}
  Workers = {w1}
  MaxJobs = 2
  MaxEvents = 2
  MaxFaults = 0
  FaultKinds = {"db", "crash", "stall"}
  RedisOn = TRUE
  DedupeOn = TRUE
  LockOutlivesJobs = TRUE
SYMMETRY Symmetric
CHECK_DEADLOCK FALSE
INVARIANTS LockNamesJob
