SPECIFICATION FairSpec
CONSTANTS
  Requests = {r1, r2}
  EmptyIds = {}
  Workers = {w1, w2}
  NoJob = NoJob
  MaxAttempts = 1
  SlowWorkers = FALSE
  FaultKinds = {"claim_db", "decide", "mcp", "crash", "channel", "sweep"}
  MaxFaults = 2
  MaxSubmits = 1
  MaxInFlight = 1
INVARIANTS OneWorkerPerRequest
PROPERTIES ServiceSpec ClaimsConclude
CHECK_DEADLOCK FALSE
