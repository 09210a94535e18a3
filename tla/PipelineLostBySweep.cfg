SPECIFICATION Spec
CONSTANTS
  Requests = {r1}
  EmptyIds = {}
  Workers = {w1, w2}
  NoJob = NoJob
  MaxAttempts = 2
  SlowWorkers = FALSE
  FaultKinds = {"crash"}
  MaxFaults = 1
  MaxSubmits = 1
  MaxInFlight = 2
INVARIANTS AcceptedClaimNotLost
CHECK_DEADLOCK FALSE
