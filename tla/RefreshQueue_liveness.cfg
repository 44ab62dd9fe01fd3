SPECIFICATION FairSpec
CONSTANTS
  e1 = e1  e2 = e2  w1 = w1  w2 = w2  aapl = aapl  msft = msft
  manual = manual  stale = stale
  NoWorker = NoWorker
  RecoveryBatch = 1
  Tickers = {aapl}
  InitialCompanies = {aapl}
  Reasons = {manual}
  Enqueuers = {e1}
  Workers = {w1, w2}
  MaxJobs = 2
  MaxEvents = 2
  MaxFaults = 1
  FaultKinds = {"db", "redis", "crash", "stall"}
  RedisOn = TRUE
  DedupeOn = FALSE
  LockOutlivesJobs = FALSE
CHECK_DEADLOCK FALSE
PROPERTY EveryJobFinishes
