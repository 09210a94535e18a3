SPECIFICATION Spec
CONSTANTS
  Workers = {w1, w2}
  Limit = 8
  Window = 1
  Timeout = 1
  SdkTimeout = 2
  MaxRetries = 2
  BackoffBase = 1
  RefusalHeard = FALSE
  MaxLate = 1
INVARIANTS TypeOK HeldBounded NoLockout
PROPERTY CallsConclude
