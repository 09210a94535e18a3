SPECIFICATION Spec
CONSTANTS
  Requests = {r1, r2, r3}
  Claims <- AllClaims
  Order <- MCOrder
  OldLedgers <- SomeLedgers
  Rate <- MCRate
  Threshold = 100
  HistoryLimit = 2
  MaxActive = 2
  MaxRedeliveries = 1
SYMMETRY Symmetry
INVARIANTS TypeOK RefundsFollowRules RefundsFitTheirCheck RecheckAgrees OverRefundBounded
CHECK_DEADLOCK FALSE
