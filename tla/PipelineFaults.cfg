SPECIFICATION Spec
CONSTANTS
  Requests = {r1, e1}
  EmptyIds = {e1}
  Workers = {w1, w2}
  NoJob = NoJob
  MaxAttempts = 2
  SlowWorkers = TRUE
  FaultKinds = {"publish", "claim_db", "decide", "mcp", "final_db", "crash", "channel", "sweep"}
  MaxFaults = 2
  MaxSubmits = 1
  MaxInFlight = 2
SYMMETRY Symmetry
INVARIANTS TypeOK CompletedHasRefund LossOnlyWhereKnown
PROPERTIES ServiceSpec
CHECK_DEADLOCK FALSE
