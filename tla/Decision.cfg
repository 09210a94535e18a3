SPECIFICATION Spec
INVARIANTS TypeOK NoVoteOnFailedEvidence NoTransactionWhileWaiting QuestionIffClarification TrailAccounts
PROPERTIES RefundOnlyWhenEarned ServiceSpec
CHECK_DEADLOCK FALSE
