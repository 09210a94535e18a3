------------------------ MODULE ClaimPipelineProofs ------------------------
(***************************************************************************)
(* Theorems about ClaimPipeline, for every set of requests and workers and *)
(* every bound.                                                            *)
(***************************************************************************)
EXTENDS ClaimPipeline, TLAPS

USE ClaimPipelineAssumption

----------------------------------------------------------------------------
(* Type correctness.                                                       *)

LEMMA InitType == Init => TypeOK
BY DEF Init, TypeOK, RowStatus, WorkerState, Working, Final, NotExecuted

\* Every step keeps the types.
LEMMA NextType == TypeOK /\ [Next]_vars => TypeOK'
<1> SUFFICES ASSUME TypeOK, [Next]_vars
             PROVE  TypeOK'
  OBVIOUS
<1> USE DEF TypeOK, RowStatus, WorkerState, Working, Final, NotExecuted,
            Release, Drop, Goto, Decided, Enqueue, Fault, SendCall, TakeCall, RecordRefund,
            Unclaimed, AttemptsLeft, AllPublished, workerVars, mcpVars, sweeperVars, clientVars
<1>1. ASSUME NEW r \in Requests, Submit(r)             PROVE TypeOK'
  BY <1>1 DEF Submit
<1>2. ASSUME NEW r \in Requests, SubmitUnconfirmed(r)  PROVE TypeOK'
  BY <1>2 DEF SubmitUnconfirmed
<1>3. ASSUME NEW r \in Requests, Age(r)                PROVE TypeOK'
  BY <1>3 DEF Age
<1>4. ASSUME NEW w \in Workers, NEW r \in Requests, Deliver(w, r) PROVE TypeOK'
  BY <1>4 DEF Deliver
<1>5. ASSUME NEW w \in Workers, DiscardWithoutId(w)    PROVE TypeOK'
  BY <1>5 DEF DiscardWithoutId
<1>6. ASSUME NEW w \in Workers, ClaimRow(w)            PROVE TypeOK'
  BY <1>6 DEF ClaimRow
<1>7. ASSUME NEW w \in Workers, ClaimDuplicate(w)      PROVE TypeOK'
  BY <1>7 DEF ClaimDuplicate
<1>8. ASSUME NEW w \in Workers, DecideAgainst(w)       PROVE TypeOK'
  BY <1>8 DEF DecideAgainst
<1>9. ASSUME NEW w \in Workers, Approve(w)             PROVE TypeOK'
  BY <1>9 DEF Approve
<1>10. ASSUME NEW w \in Workers, ReceiveResult(w)      PROVE TypeOK'
  BY <1>10 DEF ReceiveResult
<1>11. ASSUME NEW w \in Workers, RetryCall(w)          PROVE TypeOK'
  BY <1>11 DEF RetryCall
<1>12. ASSUME NEW w \in Workers, ExhaustCalls(w)       PROVE TypeOK'
  BY <1>12 DEF ExhaustCalls
<1>13. ASSUME NEW w \in Workers, CallRejected(w)       PROVE TypeOK'
  BY <1>13 DEF CallRejected
<1>14. ASSUME NEW w \in Workers, WriteFinal(w)         PROVE TypeOK'
  BY <1>14 DEF WriteFinal, Free
<1>15. ASSUME NEW w \in Workers, WriteMissing(w)       PROVE TypeOK'
  BY <1>15 DEF WriteMissing
<1>16. ASSUME NEW w \in Workers, Settle(w)             PROVE TypeOK'
  BY <1>16 DEF Settle
<1>17. ASSUME NEW w \in Workers, ClaimFails(w)         PROVE TypeOK'
  BY <1>17 DEF ClaimFails
<1>18. ASSUME NEW w \in Workers, DecideFails(w)        PROVE TypeOK'
  BY <1>18 DEF DecideFails
<1>19. ASSUME NEW w \in Workers, WriteFails(w)         PROVE TypeOK'
  BY <1>19 DEF WriteFails
<1>20. ASSUME NEW w \in Workers, WorkerCrash(w)        PROVE TypeOK'
  BY <1>20 DEF WorkerCrash
<1>21. ASSUME NEW w \in Workers, ChannelLost(w)        PROVE TypeOK'
  BY <1>21 DEF ChannelLost
<1>22. ASSUME NEW w \in Workers, ToolAnswers(w)        PROVE TypeOK'
  BY <1>22 DEF ToolAnswers
<1>23. ASSUME NEW r \in Requests, ToolUnheard(r)       PROVE TypeOK'
  BY <1>23 DEF ToolUnheard
<1>24. ASSUME NEW r \in Requests, CallLost(r)          PROVE TypeOK'
  BY <1>24 DEF CallLost
<1>25. ASSUME SweepSelect                              PROVE TypeOK'
  BY <1>25 DEF SweepSelect, Zombies
<1>26. ASSUME NEW r \in Requests, SweepPublish(r)      PROVE TypeOK'
  BY <1>26 DEF SweepPublish
<1>27. ASSUME SweepCommit                              PROVE TypeOK'
  BY <1>27 DEF SweepCommit
<1>28. ASSUME SweepAborts                              PROVE TypeOK'
  BY <1>28 DEF SweepAborts
<1>29. ASSUME UNCHANGED vars                           PROVE TypeOK'
  BY <1>29 DEF vars
<1> QED
  BY <1>1, <1>2, <1>3, <1>4, <1>5, <1>6, <1>7, <1>8, <1>9, <1>10, <1>11, <1>12,
     <1>13, <1>14, <1>15, <1>16, <1>17, <1>18, <1>19, <1>20, <1>21, <1>22, <1>23,
     <1>24, <1>25, <1>26, <1>27, <1>28, <1>29
  DEF Next, GatewayStep, WorkerStep, WorkerFault, ServerStep, SweeperStep

\* The variables keep their types: in particular no worker makes more than
\* MaxAttempts attempts, and a worker that writes has a final status to write.
THEOREM TypeCorrect == Spec => []TypeOK
BY InitType, NextType, PTL DEF Spec

----------------------------------------------------------------------------
(* Every COMPLETED transaction has its refund.                             *)

\* A worker that has heard from the tool, or is about to write COMPLETED, finds
\* the refund of its request on the ledger, and the ledger never loses a row.
RefundInv ==
  /\ \A r \in Requests : refunds[r] \in {0, 1}
  /\ CompletedHasRefund
  /\ \A w \in Workers :
       (pc[w] = "answered" \/ (pc[w] = "writing" /\ outcome[w] = "COMPLETED"))
         => refunds[job[w]] = 1

LEMMA InitRefund == Init => RefundInv
BY DEF Init, RefundInv, CompletedHasRefund

\* Every step keeps RefundInv.
LEMMA NextRefund == TypeOK /\ RefundInv /\ [Next]_vars => RefundInv'
<1> SUFFICES ASSUME TypeOK, RefundInv, [Next]_vars
             PROVE  RefundInv'
  OBVIOUS
<1> USE DEF TypeOK, RefundInv, CompletedHasRefund, NotExecuted, Final,
            Release, Drop, Goto, Decided, Enqueue, Fault, SendCall, TakeCall, RecordRefund,
            Unclaimed, AttemptsLeft, AllPublished, workerVars, mcpVars, sweeperVars, clientVars
<1>1. ASSUME NEW r \in Requests, Submit(r) PROVE RefundInv'
  BY <1>1 DEF Submit
<1>2. ASSUME NEW r \in Requests, SubmitUnconfirmed(r) PROVE RefundInv'
  BY <1>2 DEF SubmitUnconfirmed
<1>3. ASSUME NEW r \in Requests, Age(r) PROVE RefundInv'
  BY <1>3 DEF Age
<1>4. ASSUME NEW w \in Workers, NEW r \in Requests, Deliver(w, r) PROVE RefundInv'
  BY <1>4 DEF Deliver
<1>5. ASSUME NEW w \in Workers, DiscardWithoutId(w) PROVE RefundInv'
  BY <1>5 DEF DiscardWithoutId
<1>6. ASSUME NEW w \in Workers, ClaimRow(w) PROVE RefundInv'
  BY <1>6 DEF ClaimRow
<1>7. ASSUME NEW w \in Workers, ClaimDuplicate(w) PROVE RefundInv'
  BY <1>7 DEF ClaimDuplicate
<1>8. ASSUME NEW w \in Workers, DecideAgainst(w) PROVE RefundInv'
  BY <1>8 DEF DecideAgainst
<1>9. ASSUME NEW w \in Workers, Approve(w) PROVE RefundInv'
  BY <1>9 DEF Approve
<1>10. ASSUME NEW w \in Workers, ReceiveResult(w) PROVE RefundInv'
  BY <1>10 DEF ReceiveResult
<1>11. ASSUME NEW w \in Workers, RetryCall(w) PROVE RefundInv'
  BY <1>11 DEF RetryCall
<1>12. ASSUME NEW w \in Workers, ExhaustCalls(w) PROVE RefundInv'
  BY <1>12 DEF ExhaustCalls
<1>13. ASSUME NEW w \in Workers, CallRejected(w) PROVE RefundInv'
  BY <1>13 DEF CallRejected
<1>14. ASSUME NEW w \in Workers, WriteFinal(w) PROVE RefundInv'
  BY <1>14 DEF WriteFinal, Free
<1>15. ASSUME NEW w \in Workers, WriteMissing(w) PROVE RefundInv'
  BY <1>15 DEF WriteMissing
<1>16. ASSUME NEW w \in Workers, Settle(w) PROVE RefundInv'
  BY <1>16 DEF Settle
<1>17. ASSUME NEW w \in Workers, ClaimFails(w) PROVE RefundInv'
  BY <1>17 DEF ClaimFails
<1>18. ASSUME NEW w \in Workers, DecideFails(w) PROVE RefundInv'
  BY <1>18 DEF DecideFails
<1>19. ASSUME NEW w \in Workers, WriteFails(w) PROVE RefundInv'
  BY <1>19 DEF WriteFails
<1>20. ASSUME NEW w \in Workers, WorkerCrash(w) PROVE RefundInv'
  BY <1>20 DEF WorkerCrash
<1>21. ASSUME NEW w \in Workers, ChannelLost(w) PROVE RefundInv'
  BY <1>21 DEF ChannelLost
<1>22. ASSUME NEW w \in Workers, ToolAnswers(w) PROVE RefundInv'
  BY <1>22 DEF ToolAnswers
<1>23. ASSUME NEW r \in Requests, ToolUnheard(r) PROVE RefundInv'
  BY <1>23 DEF ToolUnheard
<1>24. ASSUME NEW r \in Requests, CallLost(r) PROVE RefundInv'
  BY <1>24 DEF CallLost
<1>25. ASSUME SweepSelect PROVE RefundInv'
  BY <1>25 DEF SweepSelect, Zombies
<1>26. ASSUME NEW r \in Requests, SweepPublish(r) PROVE RefundInv'
  BY <1>26 DEF SweepPublish
<1>27. ASSUME SweepCommit PROVE RefundInv'
  BY <1>27 DEF SweepCommit
<1>28. ASSUME SweepAborts PROVE RefundInv'
  BY <1>28 DEF SweepAborts
<1>29. ASSUME UNCHANGED vars PROVE RefundInv'
  BY <1>29 DEF vars
<1> QED
  BY <1>1, <1>2, <1>3, <1>4, <1>5, <1>6, <1>7, <1>8, <1>9, <1>10, <1>11, <1>12,
     <1>13, <1>14, <1>15, <1>16, <1>17, <1>18, <1>19, <1>20, <1>21, <1>22, <1>23,
     <1>24, <1>25, <1>26, <1>27, <1>28, <1>29
  DEF Next, GatewayStep, WorkerStep, WorkerFault, ServerStep, SweeperStep

\* CompletedHasRefund holds with slow workers and any number of faults.
THEOREM CompletedRefunded == Spec => []CompletedHasRefund
<1>1. Init => TypeOK /\ RefundInv
  BY InitType, InitRefund
<1>2. TypeOK /\ RefundInv /\ [Next]_vars => (TypeOK /\ RefundInv)'
  BY NextType, NextRefund
<1>3. RefundInv => CompletedHasRefund
  BY DEF RefundInv
<1> QED
  BY <1>1, <1>2, <1>3, PTL DEF Spec

----------------------------------------------------------------------------
(* An accepted claim leaves the record only at the known places.           *)

\* A message of r that no worker has acted on.
HasMessage(r) ==
  \/ queue[r] > 0
  \/ \E w \in Workers : pc[w] = "received" /\ linked[w] /\ job[w] = r

\* What the sweeper is about to delete still stands, and once it has published
\* a row's payload the message outlives the row, unless a worker meets the row.
LossInv ==
  /\ LossOnlyWhereKnown
  /\ \A r \in locked : txn[r] = "PROCESSING"
  /\ \A r \in (accepted \ dropped) \cap (locked \ unpublished) : HasMessage(r)

LEMMA InitLoss == Init => LossInv
BY DEF Init, LossInv, LossOnlyWhereKnown

\* Every step keeps LossInv.
LEMMA NextLoss == TypeOK /\ LossInv /\ [Next]_vars => LossInv'
<1> SUFFICES ASSUME TypeOK, LossInv, [Next]_vars
             PROVE  LossInv'
  OBVIOUS
<1> USE DEF TypeOK, LossInv, LossOnlyWhereKnown, OnRecord, HasMessage, NotExecuted, Final,
            Release, Drop, Goto, Decided, Enqueue, Fault, SendCall, TakeCall, RecordRefund,
            Unclaimed, AttemptsLeft, AllPublished, workerVars, mcpVars, sweeperVars, clientVars
<1>1. ASSUME NEW r \in Requests, Submit(r) PROVE LossInv'
  BY <1>1 DEF Submit
<1>2. ASSUME NEW r \in Requests, SubmitUnconfirmed(r) PROVE LossInv'
  BY <1>2 DEF SubmitUnconfirmed
<1>3. ASSUME NEW r \in Requests, Age(r) PROVE LossInv'
  BY <1>3 DEF Age, RowStatus
<1>4. ASSUME NEW w \in Workers, NEW r \in Requests, Deliver(w, r) PROVE LossInv'
  BY <1>4 DEF Deliver
<1>5. ASSUME NEW w \in Workers, DiscardWithoutId(w) PROVE LossInv'
  BY <1>5 DEF DiscardWithoutId
<1>6. ASSUME NEW w \in Workers, ClaimRow(w) PROVE LossInv'
  BY <1>6 DEF ClaimRow
<1>7. ASSUME NEW w \in Workers, ClaimDuplicate(w) PROVE LossInv'
  BY <1>7 DEF ClaimDuplicate
<1>8. ASSUME NEW w \in Workers, DecideAgainst(w) PROVE LossInv'
  BY <1>8 DEF DecideAgainst
<1>9. ASSUME NEW w \in Workers, Approve(w) PROVE LossInv'
  BY <1>9 DEF Approve
<1>10. ASSUME NEW w \in Workers, ReceiveResult(w) PROVE LossInv'
  BY <1>10 DEF ReceiveResult
<1>11. ASSUME NEW w \in Workers, RetryCall(w) PROVE LossInv'
  BY <1>11 DEF RetryCall
<1>12. ASSUME NEW w \in Workers, ExhaustCalls(w) PROVE LossInv'
  BY <1>12 DEF ExhaustCalls
<1>13. ASSUME NEW w \in Workers, CallRejected(w) PROVE LossInv'
  BY <1>13 DEF CallRejected
<1>14. ASSUME NEW w \in Workers, WriteFinal(w) PROVE LossInv'
  BY <1>14 DEF WriteFinal, Free
<1>15. ASSUME NEW w \in Workers, WriteMissing(w) PROVE LossInv'
  BY <1>15 DEF WriteMissing
<1>16. ASSUME NEW w \in Workers, Settle(w) PROVE LossInv'
  BY <1>16 DEF Settle
<1>17. ASSUME NEW w \in Workers, ClaimFails(w) PROVE LossInv'
  BY <1>17 DEF ClaimFails
<1>18. ASSUME NEW w \in Workers, DecideFails(w) PROVE LossInv'
  BY <1>18 DEF DecideFails
<1>19. ASSUME NEW w \in Workers, WriteFails(w) PROVE LossInv'
  BY <1>19 DEF WriteFails
<1>20. ASSUME NEW w \in Workers, WorkerCrash(w) PROVE LossInv'
  BY <1>20 DEF WorkerCrash
<1>21. ASSUME NEW w \in Workers, ChannelLost(w) PROVE LossInv'
  BY <1>21 DEF ChannelLost
<1>22. ASSUME NEW w \in Workers, ToolAnswers(w) PROVE LossInv'
  BY <1>22 DEF ToolAnswers
<1>23. ASSUME NEW r \in Requests, ToolUnheard(r) PROVE LossInv'
  BY <1>23 DEF ToolUnheard
<1>24. ASSUME NEW r \in Requests, CallLost(r) PROVE LossInv'
  BY <1>24 DEF CallLost
<1>25. ASSUME SweepSelect PROVE LossInv'
  BY <1>25 DEF SweepSelect, Zombies
<1>26. ASSUME NEW r \in Requests, SweepPublish(r) PROVE LossInv'
  BY <1>26 DEF SweepPublish
<1>27. ASSUME SweepCommit PROVE LossInv'
  BY <1>27 DEF SweepCommit
<1>28. ASSUME SweepAborts PROVE LossInv'
  BY <1>28 DEF SweepAborts
<1>29. ASSUME UNCHANGED vars PROVE LossInv'
  BY <1>29 DEF vars
<1> QED
  BY <1>1, <1>2, <1>3, <1>4, <1>5, <1>6, <1>7, <1>8, <1>9, <1>10, <1>11, <1>12,
     <1>13, <1>14, <1>15, <1>16, <1>17, <1>18, <1>19, <1>20, <1>21, <1>22, <1>23,
     <1>24, <1>25, <1>26, <1>27, <1>28, <1>29
  DEF Next, GatewayStep, WorkerStep, WorkerFault, ServerStep, SweeperStep

\* LossOnlyWhereKnown holds with slow workers and any number of faults.
THEOREM LossKnown == Spec => []LossOnlyWhereKnown
<1>1. Init => TypeOK /\ LossInv
  BY InitType, InitLoss
<1>2. TypeOK /\ LossInv /\ [Next]_vars => (TypeOK /\ LossInv)'
  BY NextType, NextLoss
<1>3. LossInv => LossOnlyWhereKnown
  BY DEF LossInv
<1> QED
  BY <1>1, <1>2, <1>3, PTL DEF Spec

----------------------------------------------------------------------------
(* When every claim is processed within the sweeper's threshold, a request *)
(* has one worker at a time.                                               *)

\* The row of a request that is being processed is PROCESSING and fresh, and
\* what the sweeper holds is stale: it never holds a live worker's row.
PunctualInv ==
  /\ OneWorkerPerRequest
  /\ \A w \in Workers : pc[w] \in Working =>
       txn[job[w]] = "PROCESSING" /\ job[w] \notin stale
  /\ \A r \in locked : r \in stale /\ txn[r] = "PROCESSING"

LEMMA InitPunctual == Init => PunctualInv
BY DEF Init, PunctualInv, OneWorkerPerRequest, Working

\* Every step keeps PunctualInv if processing is never slower than the threshold.
LEMMA NextPunctual ==
  ~SlowWorkers /\ TypeOK /\ PunctualInv /\ [Next]_vars => PunctualInv'
<1> SUFFICES ASSUME ~SlowWorkers, TypeOK, PunctualInv, [Next]_vars
             PROVE  PunctualInv'
  OBVIOUS
<1> USE DEF TypeOK, PunctualInv, OneWorkerPerRequest, BeingProcessed, Working,
            Release, Drop, Goto, Decided, Enqueue, Fault, SendCall, TakeCall, RecordRefund,
            Unclaimed, AttemptsLeft, AllPublished, workerVars, mcpVars, sweeperVars, clientVars
<1>1. ASSUME NEW r \in Requests, Submit(r) PROVE PunctualInv'
  BY <1>1 DEF Submit
<1>2. ASSUME NEW r \in Requests, SubmitUnconfirmed(r) PROVE PunctualInv'
  BY <1>2 DEF SubmitUnconfirmed
<1>3. ASSUME NEW r \in Requests, Age(r) PROVE PunctualInv'
  BY <1>3 DEF Age
<1>4. ASSUME NEW w \in Workers, NEW r \in Requests, Deliver(w, r) PROVE PunctualInv'
  BY <1>4 DEF Deliver
<1>5. ASSUME NEW w \in Workers, DiscardWithoutId(w) PROVE PunctualInv'
  BY <1>5 DEF DiscardWithoutId
<1>6. ASSUME NEW w \in Workers, ClaimRow(w) PROVE PunctualInv'
  BY <1>6 DEF ClaimRow
<1>7. ASSUME NEW w \in Workers, ClaimDuplicate(w) PROVE PunctualInv'
  BY <1>7 DEF ClaimDuplicate
<1>8. ASSUME NEW w \in Workers, DecideAgainst(w) PROVE PunctualInv'
  BY <1>8 DEF DecideAgainst
<1>9. ASSUME NEW w \in Workers, Approve(w) PROVE PunctualInv'
  BY <1>9 DEF Approve
<1>10. ASSUME NEW w \in Workers, ReceiveResult(w) PROVE PunctualInv'
  BY <1>10 DEF ReceiveResult
<1>11. ASSUME NEW w \in Workers, RetryCall(w) PROVE PunctualInv'
  BY <1>11 DEF RetryCall
<1>12. ASSUME NEW w \in Workers, ExhaustCalls(w) PROVE PunctualInv'
  BY <1>12 DEF ExhaustCalls
<1>13. ASSUME NEW w \in Workers, CallRejected(w) PROVE PunctualInv'
  BY <1>13 DEF CallRejected
<1>14. ASSUME NEW w \in Workers, WriteFinal(w) PROVE PunctualInv'
  BY <1>14 DEF WriteFinal, Free
<1>15. ASSUME NEW w \in Workers, WriteMissing(w) PROVE PunctualInv'
  BY <1>15 DEF WriteMissing
<1>16. ASSUME NEW w \in Workers, Settle(w) PROVE PunctualInv'
  BY <1>16 DEF Settle
<1>17. ASSUME NEW w \in Workers, ClaimFails(w) PROVE PunctualInv'
  BY <1>17 DEF ClaimFails
<1>18. ASSUME NEW w \in Workers, DecideFails(w) PROVE PunctualInv'
  BY <1>18 DEF DecideFails
<1>19. ASSUME NEW w \in Workers, WriteFails(w) PROVE PunctualInv'
  BY <1>19 DEF WriteFails
<1>20. ASSUME NEW w \in Workers, WorkerCrash(w) PROVE PunctualInv'
  BY <1>20 DEF WorkerCrash
<1>21. ASSUME NEW w \in Workers, ChannelLost(w) PROVE PunctualInv'
  BY <1>21 DEF ChannelLost
<1>22. ASSUME NEW w \in Workers, ToolAnswers(w) PROVE PunctualInv'
  BY <1>22 DEF ToolAnswers
<1>23. ASSUME NEW r \in Requests, ToolUnheard(r) PROVE PunctualInv'
  BY <1>23 DEF ToolUnheard
<1>24. ASSUME NEW r \in Requests, CallLost(r) PROVE PunctualInv'
  BY <1>24 DEF CallLost
<1>25. ASSUME SweepSelect PROVE PunctualInv'
  BY <1>25 DEF SweepSelect, Zombies
<1>26. ASSUME NEW r \in Requests, SweepPublish(r) PROVE PunctualInv'
  BY <1>26 DEF SweepPublish
<1>27. ASSUME SweepCommit PROVE PunctualInv'
  BY <1>27 DEF SweepCommit
<1>28. ASSUME SweepAborts PROVE PunctualInv'
  BY <1>28 DEF SweepAborts
<1>29. ASSUME UNCHANGED vars PROVE PunctualInv'
  BY <1>29 DEF vars
<1> QED
  BY <1>1, <1>2, <1>3, <1>4, <1>5, <1>6, <1>7, <1>8, <1>9, <1>10, <1>11, <1>12,
     <1>13, <1>14, <1>15, <1>16, <1>17, <1>18, <1>19, <1>20, <1>21, <1>22, <1>23,
     <1>24, <1>25, <1>26, <1>27, <1>28, <1>29
  DEF Next, GatewayStep, WorkerStep, WorkerFault, ServerStep, SweeperStep

\* OneWorkerPerRequest under the assumption that no claim is slow.
THEOREM OneWorker ==
  ASSUME ~SlowWorkers
  PROVE  Spec => []OneWorkerPerRequest
<1>1. Init => TypeOK /\ PunctualInv
  BY InitType, InitPunctual
<1>2. TypeOK /\ PunctualInv /\ [Next]_vars => (TypeOK /\ PunctualInv)'
  BY NextType, NextPunctual
<1>3. PunctualInv => OneWorkerPerRequest
  BY DEF PunctualInv
<1> QED
  BY <1>1, <1>2, <1>3, PTL DEF Spec

----------------------------------------------------------------------------
(* Refinement of ClaimService.  A conclusion stands because the row that   *)
(* WriteFinal meets is PROCESSING when no claim is slow; that it is never  *)
(* deleted rests on the row locks, however slow a worker is.               *)

\* The verdict ClaimService sees.
Verdict(r) == IF txn[r] \in Final THEN txn[r] ELSE "open"

LEMMA InitService == Init => Service!Init
<1> SUFFICES ASSUME Init PROVE Service!Init
  OBVIOUS
<1>1. [r \in Requests |-> Verdict(r)] = [r \in Requests |-> "open"]
  BY DEF Init, Verdict, Final, NotExecuted
<1> QED
  BY <1>1 DEF Init, Service!Init, Verdict

\* Only five actions touch the rows or the ledger.
LEMMA Invisible ==
  ASSUME [Next]_vars
  PROVE  \/ UNCHANGED <<txn, refunds>>
         \/ \E w \in Workers : ClaimRow(w) \/ WriteFinal(w) \/ ToolAnswers(w)
         \/ \E r \in Requests : ToolUnheard(r)
         \/ SweepCommit
<1> USE DEF workerVars, mcpVars, sweeperVars, clientVars
<1>1. ASSUME NEW r \in Requests, GatewayStep(r) \/ Age(r)
      PROVE  UNCHANGED <<txn, refunds>>
  BY <1>1 DEF GatewayStep, Submit, SubmitUnconfirmed, Age
<1>2. ASSUME NEW w \in Workers, WorkerFault(w)
      PROVE  UNCHANGED <<txn, refunds>>
  BY <1>2 DEF WorkerFault, ClaimFails, DecideFails, WriteFails, WorkerCrash, ChannelLost
<1>3. ASSUME NEW w \in Workers, WorkerStep(w), ~ClaimRow(w), ~WriteFinal(w)
      PROVE  UNCHANGED <<txn, refunds>>
  BY <1>3 DEF WorkerStep, Deliver, DiscardWithoutId, ClaimDuplicate, DecideAgainst, Approve,
              ReceiveResult, RetryCall, ExhaustCalls, CallRejected, WriteMissing, Settle
<1>4. ASSUME NEW r \in Requests, CallLost(r) \/ SweepPublish(r)
      PROVE  UNCHANGED <<txn, refunds>>
  BY <1>4 DEF CallLost, SweepPublish
<1>5. ASSUME SweepSelect \/ SweepAborts \/ UNCHANGED vars
      PROVE  UNCHANGED <<txn, refunds>>
  BY <1>5 DEF SweepSelect, SweepAborts, vars
<1> QED
  BY <1>1, <1>2, <1>3, <1>4, <1>5 DEF Next, ServerStep, SweeperStep

\* A step records one first refund, or concludes one open claim, or changes
\* nothing ClaimService can see.
LEMMA StepService ==
  TypeOK /\ RefundInv /\ LossInv /\ (SlowWorkers \/ PunctualInv) /\ [Next]_vars
    => [Service!Next]_(Service!svcVars)
<1> SUFFICES ASSUME TypeOK, RefundInv, LossInv, SlowWorkers \/ PunctualInv, [Next]_vars
             PROVE  [Service!Next]_(Service!svcVars)
  OBVIOUS
<1>same. ASSUME \A r \in Requests : Verdict(r)' = Verdict(r), UNCHANGED refunds
         PROVE  [Service!Next]_(Service!svcVars)
  BY <1>same DEF Service!svcVars, Verdict
<1>ledger. ASSUME NEW r \in Requests, UNCHANGED txn, RecordRefund(r)
           PROVE  [Service!Next]_(Service!svcVars)
  <2>1. CASE refunds[r] = 0
    <3>1. refunds' = [refunds EXCEPT ![r] = 1]
      BY <1>ledger, <2>1 DEF RecordRefund
    <3>2. Service!Refund(r)
      BY <1>ledger, <2>1, <3>1 DEF Service!Refund
    <3> QED
      BY <3>2 DEF Service!Next
  <2>2. CASE refunds[r] = 1
    <3>1. refunds' = refunds
      BY <1>ledger, <2>2 DEF RecordRefund, TypeOK
    <3> QED
      BY <1>ledger, <1>same, <3>1 DEF Verdict
  <2> QED
    BY <2>1, <2>2 DEF RefundInv
<1>1. CASE UNCHANGED <<txn, refunds>>
  BY <1>1, <1>same DEF Verdict
<1>2. ASSUME NEW w \in Workers, ClaimRow(w)
      PROVE  [Service!Next]_(Service!svcVars)
  <2>1. \A r \in Requests : Verdict(r)' = Verdict(r)
    BY <1>2 DEF ClaimRow, Unclaimed, Verdict, TypeOK, Final, NotExecuted
  <2> QED
    BY <1>2, <2>1, <1>same DEF ClaimRow, mcpVars
<1>3. ASSUME NEW w \in Workers, WriteFinal(w)
      PROVE  [Service!Next]_(Service!svcVars)
  <2>0. /\ job[w] \in Requests /\ outcome[w] \in Final
        /\ SlowWorkers \/ txn[job[w]] = "PROCESSING"
        /\ txn' = [txn EXCEPT ![job[w]] = outcome[w]]
        /\ outcome[w] = "COMPLETED" => refunds[job[w]] = 1
    BY <1>3 DEF WriteFinal, TypeOK, PunctualInv, RefundInv, Working
  <2>1. PICK r \in Requests, s \in Final :
               /\ SlowWorkers \/ txn[r] = "PROCESSING"
               /\ txn' = [txn EXCEPT ![r] = s]
               /\ s = "COMPLETED" => refunds[r] = 1
    BY <2>0
  <2>2. Verdict(r) = "open" \/ SlowWorkers
    BY <2>1 DEF Verdict, Final, NotExecuted
  <2>3. [q \in Requests |-> Verdict(q)]' = [[q \in Requests |-> Verdict(q)] EXCEPT ![r] = s]
    BY <2>1 DEF Verdict, TypeOK
  <2>4. UNCHANGED refunds
    BY <1>3 DEF WriteFinal, mcpVars
  <2>5. Service!Conclude(r, s)
    BY <2>1, <2>2, <2>3, <2>4 DEF Service!Conclude, Verdict
  <2> QED
    BY <2>5 DEF Service!Next
<1>4. ASSUME NEW w \in Workers, ToolAnswers(w)
      PROVE  [Service!Next]_(Service!svcVars)
  <2>1. job[w] \in Requests
    BY <1>4 DEF ToolAnswers, TypeOK
  <2> QED
    BY <1>4, <2>1, <1>ledger DEF ToolAnswers
<1>5. ASSUME NEW r \in Requests, ToolUnheard(r)
      PROVE  [Service!Next]_(Service!svcVars)
  BY <1>5, <1>ledger DEF ToolUnheard
<1>6. CASE SweepCommit
  <2>1. \A r \in Requests : Verdict(r)' = Verdict(r)
    BY <1>6 DEF SweepCommit, Verdict, LossInv, Final, NotExecuted
  <2> QED
    BY <1>6, <2>1, <1>same DEF SweepCommit, mcpVars
<1> QED
  BY <1>1, <1>2, <1>3, <1>4, <1>5, <1>6, Invisible

\* ServiceSpec: the pipeline implements ClaimService, with conclusions that
\* stand when no claim is slow, and otherwise may be replaced but are never
\* deleted or reopened (worker.py's final transaction, recovery_sweeper.py).
THEOREM ImplementsService == Spec => ServiceSpec
<1>1. Init => TypeOK /\ RefundInv /\ LossInv /\ PunctualInv
  BY InitType, InitRefund, InitLoss, InitPunctual
<1>2. TypeOK /\ RefundInv /\ LossInv /\ (SlowWorkers \/ PunctualInv) /\ [Next]_vars
      => (TypeOK /\ RefundInv /\ LossInv)' /\ (SlowWorkers \/ PunctualInv')
  BY NextType, NextRefund, NextLoss, NextPunctual
<1>3. CASE SlowWorkers
  <2>1. TypeOK /\ RefundInv /\ LossInv /\ [Next]_vars
        => (TypeOK /\ RefundInv /\ LossInv)' /\ [Service!Next]_(Service!svcVars)
    BY <1>2, <1>3, StepService
  <2> QED
    BY <1>1, <2>1, InitService, PTL DEF Spec, ServiceSpec, Service!Spec
<1>4. CASE ~SlowWorkers
  <2>1. TypeOK /\ RefundInv /\ LossInv /\ PunctualInv /\ [Next]_vars
        => /\ (TypeOK /\ RefundInv /\ LossInv /\ PunctualInv)'
           /\ [Service!Next]_(Service!svcVars)
    BY <1>2, <1>4, StepService
  <2> QED
    BY <1>1, <2>1, InitService, PTL DEF Spec, ServiceSpec, Service!Spec
<1> QED
  BY <1>3, <1>4
=============================================================================
