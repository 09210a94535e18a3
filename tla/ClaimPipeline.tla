--------------------------- MODULE ClaimPipeline ---------------------------
(***************************************************************************)
(* The life of a claim from the gateway's 202 to its final row.            *)
(*                                                                         *)
(* The gateway publishes a claim to the durable queue agent_tasks_queue.   *)
(* Workers take deliveries one at a time: a worker claims the request by   *)
(* INSERTing its row with status PROCESSING, decides (the ClaimDecision    *)
(* module opens that step up), executes an approved refund through the MCP *)
(* server, writes the final status under SELECT FOR UPDATE and settles the *)
(* message.  The recovery sweeper deletes PROCESSING rows that are older   *)
(* than a threshold and publishes their payload again.  Any process can    *)
(* fail at any step; MCP calls may be lost, answered late or executed      *)
(* after their caller has given up.                                        *)
(*                                                                         *)
(* The queue and the calls in flight are bags (a count per request), so    *)
(* every order of delivery and of execution is covered.                    *)
(***************************************************************************)
EXTENDS Naturals, FiniteSets

CONSTANTS
  Requests,      \* request ids a client may send
  EmptyIds,      \* those of them that are the empty string
  Workers,       \* worker processes
  NoJob,         \* a worker that holds no message
  MaxAttempts,   \* MCP_TOOL_MAX_RETRIES
  SlowWorkers,   \* may a claim take longer than SWEEPER_STALE_THRESHOLD_SECONDS?
  FaultKinds,    \* the kinds of fault that may happen
  MaxFaults,     \* bound: faults in one behaviour
  MaxSubmits,    \* bound: submissions of one request id
  MaxInFlight    \* bound: MCP calls in flight for one request id

AllFaults ==
  {"publish", "claim_db", "decide", "mcp", "final_db", "crash", "channel", "sweep"}

ASSUME ClaimPipelineAssumption ==
  /\ EmptyIds \subseteq Requests
  /\ NoJob \notin Requests
  /\ MaxAttempts \in Nat \ {0}
  /\ SlowWorkers \in BOOLEAN
  /\ FaultKinds \subseteq AllFaults
  /\ MaxFaults \in Nat
  /\ MaxSubmits \in Nat
  /\ MaxInFlight \in Nat \ {0}

VARIABLES
  queue,         \* messages ready in agent_tasks_queue, per request
  txn,           \* status of the request's row in `transactions`, or "NONE"
  stale,         \* requests whose row has updated_at below the sweeper's threshold
  pc,            \* what each worker is doing
  job,           \* the request whose message each worker holds
  outcome,       \* the final_status each worker has decided on
  attempt,       \* the MCP attempt each worker is making
  linked,        \* the worker's delivery can still be settled (its channel lives)
  calls,         \* execute_refund calls in flight or not yet executed, per request
  refunds,       \* rows of the `refunds` ledger, per request
  locked,        \* rows the sweeper's open transaction holds FOR UPDATE
  unpublished,   \* those of them whose payload it has not published yet
  submits,       \* history: submissions made, per request
  accepted,      \* history: requests the gateway has answered 202
  dropped,       \* history: requests whose message the code consumed with nothing to show
  faults         \* history: faults so far

workerVars  == <<pc, job, outcome, attempt, linked>>
mcpVars     == <<calls, refunds>>
sweeperVars == <<locked, unpublished>>
clientVars  == <<submits, accepted>>
vars == <<queue, txn, stale, workerVars, mcpVars, sweeperVars, clientVars, dropped, faults>>

----------------------------------------------------------------------------
(* Statuses and worker states.                                             *)

\* Final statuses a worker writes without having called execute_refund.
NotExecuted == {"BLOCKED_MALICIOUS_PROMPT", "PENDING_HUMAN_REVIEW", "NEEDS_CLARIFICATION"}
Final       == NotExecuted \cup {"COMPLETED", "EXECUTION_FAILED"}
RowStatus   == Final \cup {"NONE", "PROCESSING"}

\* A worker in one of these owns, or believes it owns, its job's row.
Working     == {"deciding", "calling", "answered", "writing"}
WorkerState == Working \cup {"idle", "received", "settling"}

TypeOK ==
  /\ queue \in [Requests -> Nat]
  /\ txn \in [Requests -> RowStatus]
  /\ stale \subseteq Requests
  /\ pc \in [Workers -> WorkerState]
  /\ job \in [Workers -> Requests \cup {NoJob}]
  /\ outcome \in [Workers -> Final \cup {"none"}]
  /\ attempt \in [Workers -> 0 .. MaxAttempts]
  /\ linked \in [Workers -> BOOLEAN]
  /\ calls \in [Requests -> 0 .. MaxInFlight]
  /\ refunds \in [Requests -> Nat]
  /\ locked \subseteq Requests
  /\ unpublished \subseteq locked
  /\ submits \in [Requests -> 0 .. MaxSubmits]
  /\ accepted \subseteq Requests
  /\ dropped \subseteq Requests
  /\ faults \in 0 .. MaxFaults
  /\ \A w \in Workers :
       /\ (pc[w] = "idle") <=> (job[w] = NoJob)
       /\ linked[w] => pc[w] # "idle"
       /\ pc[w] \in {"writing", "settling"} => outcome[w] \in Final

Init ==
  /\ queue = [r \in Requests |-> 0]
  /\ txn = [r \in Requests |-> "NONE"]
  /\ stale = {}
  /\ pc = [w \in Workers |-> "idle"]
  /\ job = [w \in Workers |-> NoJob]
  /\ outcome = [w \in Workers |-> "none"]
  /\ attempt = [w \in Workers |-> 0]
  /\ linked = [w \in Workers |-> FALSE]
  /\ calls = [r \in Requests |-> 0]
  /\ refunds = [r \in Requests |-> 0]
  /\ locked = {}
  /\ unpublished = {}
  /\ submits = [r \in Requests |-> 0]
  /\ accepted = {}
  /\ dropped = {}
  /\ faults = 0

\* One of the bounded number of faults, of a kind the model enables.
Fault(kind) ==
  /\ kind \in FaultKinds
  /\ faults < MaxFaults
  /\ faults' = faults + 1

\* The broker puts one message of r back, or a publisher adds one.
Enqueue(r) == queue' = [queue EXCEPT ![r] = @ + 1]

\* A call leaves for the MCP server.  Calls of one request id are
\* interchangeable, and above the bound one more makes no difference.
SendCall(r) ==
  calls' = [calls EXCEPT ![r] = IF @ < MaxInFlight THEN @ + 1 ELSE @]

TakeCall(r) ==
  /\ calls[r] > 0
  /\ calls' = [calls EXCEPT ![r] = @ - 1]

\* The worker is done with its delivery.  An ack and a nack(requeue=False)
\* remove the message for good; if the channel is gone neither is sent, and
\* ChannelLost has put the message back already.
Release(w) ==
  /\ pc' = [pc EXCEPT ![w] = "idle"]
  /\ job' = [job EXCEPT ![w] = NoJob]
  /\ outcome' = [outcome EXCEPT ![w] = "none"]
  /\ attempt' = [attempt EXCEPT ![w] = 0]
  /\ linked' = [linked EXCEPT ![w] = FALSE]

\* The message is consumed with nothing to show, unless it was put back before.
Drop(w) == dropped' = IF linked[w] THEN dropped \cup {job[w]} ELSE dropped

Goto(w, state) == pc' = [pc EXCEPT ![w] = state]
Decided(w, status) == outcome' = [outcome EXCEPT ![w] = status]

----------------------------------------------------------------------------
(* The gateway, src/api/main.py create_claim.                              *)

\* The broker confirms the publish and the client gets its 202.  A request id
\* may be sent more than once: it is the client's.
Submit(r) ==
  /\ submits[r] < MaxSubmits
  /\ submits' = [submits EXCEPT ![r] = @ + 1]
  /\ accepted' = accepted \cup {r}
  /\ Enqueue(r)
  /\ UNCHANGED <<txn, stale, workerVars, mcpVars, sweeperVars, dropped, faults>>

\* The publish reaches the queue, its confirm does not reach the gateway: the
\* handler raises and nothing was promised to the client.
SubmitUnconfirmed(r) ==
  /\ Fault("publish")
  /\ submits[r] < MaxSubmits
  /\ submits' = [submits EXCEPT ![r] = @ + 1]
  /\ Enqueue(r)
  /\ UNCHANGED <<txn, stale, workerVars, mcpVars, sweeperVars, accepted, dropped>>

----------------------------------------------------------------------------
(* A worker, src/worker/worker.py.                                         *)

\* Mutant: only a final row makes a message a duplicate.
UnclaimedUnlessFinal(r) == txn[r] \notin Final

\* The INSERT of r's row would not raise IntegrityError.
Unclaimed(r) == txn[r] = "NONE"

\* Mutant: one attempt too many.
AttemptsLeftOffByOne(w) == attempt[w] <= MaxAttempts

\* `for attempt in range(policy.max_retries)` has attempts left.
AttemptsLeft(w) == attempt[w] < MaxAttempts

\* prefetch_count=1 and one loop: a worker takes a message when it holds none.
Deliver(w, r) ==
  /\ pc[w] = "idle"
  /\ queue[r] > 0
  /\ queue' = [queue EXCEPT ![r] = @ - 1]
  /\ Goto(w, "received")
  /\ job' = [job EXCEPT ![w] = r]
  /\ linked' = [linked EXCEPT ![w] = TRUE]
  /\ UNCHANGED <<txn, stale, outcome, attempt, mcpVars, sweeperVars, clientVars,
                 dropped, faults>>

\* `if not request_id`: acked with a warning.
DiscardWithoutId(w) ==
  /\ pc[w] = "received"
  /\ job[w] \in EmptyIds
  /\ Drop(w)
  /\ Release(w)
  /\ UNCHANGED <<queue, txn, stale, mcpVars, sweeperVars, clientVars, faults>>

\* INSERT and commit of the PROCESSING row.  If the sweeper has already sent
\* its DELETE of the old row the INSERT waits for that commit, so SweepCommit
\* is one step here.
ClaimRow(w) ==
  LET r == job[w] IN
  /\ pc[w] = "received"
  /\ r \notin EmptyIds
  /\ Unclaimed(r)
  /\ txn' = [txn EXCEPT ![r] = "PROCESSING"]
  /\ stale' = stale \ {r}
  /\ Goto(w, "deciding")
  /\ UNCHANGED <<queue, job, outcome, attempt, linked, mcpVars, sweeperVars,
                 clientVars, dropped, faults>>

\* IntegrityError: any row with this request_id, final or not, makes the
\* message a duplicate.  A row the sweeper has locked and will delete counts
\* too: its DELETE is not sent before the commit, and a row lock does not make
\* an INSERT of the same key wait.
ClaimDuplicate(w) ==
  LET r == job[w] IN
  /\ pc[w] = "received"
  /\ r \notin EmptyIds
  /\ ~Unclaimed(r)
  /\ IF r \in locked THEN Drop(w) ELSE UNCHANGED dropped
  /\ Release(w)
  /\ UNCHANGED <<queue, txn, stale, mcpVars, sweeperVars, clientVars, faults>>

\* Any other database error while claiming (the database is down, say) ends in
\* the outer except: nack(requeue=False), and no row was written.
ClaimFails(w) ==
  /\ Fault("claim_db")
  /\ pc[w] = "received"
  /\ job[w] \notin EmptyIds
  /\ Drop(w)
  /\ Release(w)
  /\ UNCHANGED <<queue, txn, stale, mcpVars, sweeperVars, clientVars>>

\* The shield, the Front-Desk, the evidence check or the judges decide that
\* nothing is executed.
DecideAgainst(w) ==
  /\ pc[w] = "deciding"
  /\ \E status \in NotExecuted : Decided(w, status)
  /\ Goto(w, "writing")
  /\ UNCHANGED <<queue, txn, stale, job, attempt, linked, mcpVars, sweeperVars,
                 clientVars, dropped, faults>>

\* The judges approve a claim with order_id and amount: the first attempt of
\* execute_refund leaves.
Approve(w) ==
  /\ pc[w] = "deciding"
  /\ Goto(w, "calling")
  /\ attempt' = [attempt EXCEPT ![w] = 1]
  /\ SendCall(job[w])
  /\ UNCHANGED <<queue, txn, stale, job, outcome, linked, refunds, sweeperVars,
                 clientVars, dropped, faults>>

\* An exception on the way (no LLM credentials, database gone) ends in the
\* outer except.  The message is dropped, the row stays PROCESSING.
DecideFails(w) ==
  /\ Fault("decide")
  /\ pc[w] = "deciding"
  /\ Release(w)
  /\ UNCHANGED <<queue, txn, stale, mcpVars, sweeperVars, clientVars, dropped>>

\* The answer of execute_refund: "executed" and "already_executed" both count.
ReceiveResult(w) ==
  /\ pc[w] = "answered"
  /\ Decided(w, "COMPLETED")
  /\ Goto(w, "writing")
  /\ UNCHANGED <<queue, txn, stale, job, attempt, linked, mcpVars, sweeperVars,
                 clientVars, dropped, faults>>

\* An attempt fails (timeout, transport error, 429 or 503 of the boundary) with
\* attempts left: the same call is made again in a fresh session.  The old one
\* may still be executed, its answer goes nowhere.
RetryCall(w) ==
  /\ "mcp" \in FaultKinds
  /\ pc[w] \in {"calling", "answered"}
  /\ AttemptsLeft(w)
  /\ attempt' = [attempt EXCEPT ![w] = @ + 1]
  /\ Goto(w, "calling")
  /\ SendCall(job[w])
  /\ UNCHANGED <<queue, txn, stale, job, outcome, linked, refunds, sweeperVars,
                 clientVars, dropped, faults>>

\* The last attempt fails: RefundExecutionError.
ExhaustCalls(w) ==
  /\ "mcp" \in FaultKinds
  /\ pc[w] \in {"calling", "answered"}
  /\ ~AttemptsLeft(w)
  /\ Decided(w, "EXECUTION_FAILED")
  /\ Goto(w, "writing")
  /\ UNCHANGED <<queue, txn, stale, job, attempt, linked, mcpVars, sweeperVars,
                 clientVars, dropped, faults>>

\* The boundary rejects the call with a 4xx other than 408 and 429: the tool
\* never runs and the worker does not try again.
CallRejected(w) ==
  /\ "mcp" \in FaultKinds
  /\ pc[w] = "calling"
  /\ TakeCall(job[w])
  /\ Decided(w, "EXECUTION_FAILED")
  /\ Goto(w, "writing")
  /\ UNCHANGED <<queue, txn, stale, job, attempt, linked, refunds, sweeperVars,
                 clientVars, dropped, faults>>

\* Mutant: the row is read without FOR UPDATE and written while the sweeper has it.
FreeAlways(r) == TRUE

\* SELECT FOR UPDATE waits while the sweeper holds the row.
Free(r) == r \notin locked

\* SELECT FOR UPDATE, the trail and the status, commit.  The row is whatever
\* row now has this request_id, in whatever status.
WriteFinal(w) ==
  LET r == job[w] IN
  /\ pc[w] = "writing"
  /\ Free(r)
  /\ txn[r] # "NONE"
  /\ txn' = [txn EXCEPT ![r] = outcome[w]]
  /\ stale' = stale \ {r}
  /\ Goto(w, "settling")
  /\ UNCHANGED <<queue, job, outcome, attempt, linked, mcpVars, sweeperVars,
                 clientVars, dropped, faults>>

\* scalar_one() finds no row: the sweeper has deleted it.
WriteMissing(w) ==
  /\ pc[w] = "writing"
  /\ txn[job[w]] = "NONE"
  /\ Release(w)
  /\ UNCHANGED <<queue, txn, stale, mcpVars, sweeperVars, clientVars, dropped, faults>>

\* The final transaction fails: outer except, the row stays as it was.  A commit
\* that raised but reached the database is WriteFinal and Settle.
WriteFails(w) ==
  /\ Fault("final_db")
  /\ pc[w] = "writing"
  /\ Release(w)
  /\ UNCHANGED <<queue, txn, stale, mcpVars, sweeperVars, clientVars, dropped>>

\* Ack, or nack(requeue=False) after EXECUTION_FAILED.
Settle(w) ==
  /\ pc[w] = "settling"
  /\ Release(w)
  /\ UNCHANGED <<queue, txn, stale, mcpVars, sweeperVars, clientVars, dropped, faults>>

\* The process dies and is started again; the broker requeues what it held.
WorkerCrash(w) ==
  /\ Fault("crash")
  /\ pc[w] # "idle"
  /\ IF linked[w] THEN Enqueue(job[w]) ELSE UNCHANGED queue
  /\ Release(w)
  /\ UNCHANGED <<txn, stale, mcpVars, sweeperVars, clientVars, dropped>>

\* The channel closes under a delivery (RabbitMQ restarts, say): the broker
\* requeues the message, the worker goes on and cannot settle it any more.
ChannelLost(w) ==
  /\ Fault("channel")
  /\ linked[w]
  /\ linked' = [linked EXCEPT ![w] = FALSE]
  /\ Enqueue(job[w])
  /\ UNCHANGED <<txn, stale, pc, job, outcome, attempt, mcpVars, sweeperVars,
                 clientVars, dropped>>

----------------------------------------------------------------------------
(* The MCP server, execute_refund and record_refund.                       *)

\* Mutant: the session closes without a commit.
RecordRefundUncommitted(r) == UNCHANGED refunds

\* Mutant: a plain INSERT into a table without the UNIQUE constraint.
RecordRefundBlindly(r) == refunds' = [refunds EXCEPT ![r] = @ + 1]

\* INSERT ... ON CONFLICT (request_id) DO NOTHING.
RecordRefund(r) ==
  refunds' = [refunds EXCEPT ![r] = IF @ = 0 THEN 1 ELSE @]

\* The tool runs and its answer reaches a worker that waits for this request.
ToolAnswers(w) ==
  /\ pc[w] = "calling"
  /\ TakeCall(job[w])
  /\ RecordRefund(job[w])
  /\ Goto(w, "answered")
  /\ UNCHANGED <<queue, txn, stale, job, outcome, attempt, linked, sweeperVars,
                 clientVars, dropped, faults>>

\* The tool runs and nobody hears of it: the answer is lost, or the session it
\* belonged to is closed (the worker timed out, crashed or moved on).
ToolUnheard(r) ==
  /\ "mcp" \in FaultKinds \/ \A w \in Workers : ~(pc[w] = "calling" /\ job[w] = r)
  /\ TakeCall(r)
  /\ RecordRefund(r)
  /\ UNCHANGED <<queue, txn, stale, workerVars, sweeperVars, clientVars, dropped, faults>>

\* The call never runs: lost on the way, or refused by the boundary with a
\* status the worker retries.
CallLost(r) ==
  /\ "mcp" \in FaultKinds
  /\ TakeCall(r)
  /\ UNCHANGED <<queue, txn, stale, workerVars, refunds, sweeperVars, clientVars,
                 dropped, faults>>

----------------------------------------------------------------------------
(* The recovery sweeper, src/worker/recovery_sweeper.py.                   *)

\* A worker is somewhere between its claim of r and its final write.
BeingProcessed(r) == \E w \in Workers : pc[w] \in Working /\ job[w] = r

\* updated_at falls behind the threshold.  Nothing in the code keeps a live
\* worker below it; SlowWorkers = FALSE assumes that every one is.
Age(r) ==
  /\ txn[r] = "PROCESSING"
  /\ r \notin stale
  /\ SlowWorkers \/ ~BeingProcessed(r)
  /\ stale' = stale \cup {r}
  /\ UNCHANGED <<queue, txn, workerVars, mcpVars, sweeperVars, clientVars, dropped, faults>>

\* Mutant: the threshold is compared the wrong way round.
ZombiesInverted == {r \in Requests \ stale : txn[r] = "PROCESSING"}

\* status = PROCESSING and updated_at < threshold.
Zombies == {r \in stale : txn[r] = "PROCESSING"}

\* SELECT ... FOR UPDATE SKIP LOCKED.  A worker holds no lock on its row until
\* its final write, which is one step, so nothing is ever skipped.
SweepSelect ==
  /\ locked = {}
  /\ Zombies # {}
  /\ locked' = Zombies
  /\ unpublished' = Zombies
  /\ UNCHANGED <<queue, txn, stale, workerVars, mcpVars, clientVars, dropped, faults>>

\* session.delete(txn), which sends nothing yet, then the publish.
SweepPublish(r) ==
  /\ r \in unpublished
  /\ unpublished' = unpublished \ {r}
  /\ Enqueue(r)
  /\ UNCHANGED <<txn, stale, workerVars, mcpVars, locked, clientVars, dropped, faults>>

\* Mutant: each row is committed away before its payload is published.
CommitEarly == TRUE

AllPublished == unpublished = {}

\* commit() sends the DELETEs and commits them.
SweepCommit ==
  /\ locked # {}
  /\ AllPublished
  /\ txn' = [r \in Requests |-> IF r \in locked THEN "NONE" ELSE txn[r]]
  /\ stale' = stale \ locked
  /\ locked' = {}
  /\ UNCHANGED <<queue, workerVars, mcpVars, unpublished, clientVars, dropped, faults>>

\* The sweep raises or the sweeper dies: the transaction rolls back, what it
\* has published stays published.
SweepAborts ==
  /\ Fault("sweep")
  /\ locked # {}
  /\ locked' = {}
  /\ unpublished' = {}
  /\ UNCHANGED <<queue, txn, stale, workerVars, mcpVars, clientVars, dropped>>

----------------------------------------------------------------------------

GatewayStep(r) == Submit(r) \/ SubmitUnconfirmed(r)

WorkerStep(w) ==
  \/ \E r \in Requests : Deliver(w, r)
  \/ DiscardWithoutId(w) \/ ClaimRow(w) \/ ClaimDuplicate(w)
  \/ DecideAgainst(w) \/ Approve(w)
  \/ ReceiveResult(w) \/ RetryCall(w) \/ ExhaustCalls(w) \/ CallRejected(w)
  \/ WriteFinal(w) \/ WriteMissing(w) \/ Settle(w)

WorkerFault(w) ==
  \/ ClaimFails(w) \/ DecideFails(w) \/ WriteFails(w) \/ WorkerCrash(w) \/ ChannelLost(w)

ServerStep ==
  \/ \E w \in Workers : ToolAnswers(w)
  \/ \E r \in Requests : ToolUnheard(r) \/ CallLost(r)

SweeperStep ==
  SweepSelect \/ SweepCommit \/ \E r \in Requests : SweepPublish(r)

Next ==
  \/ \E r \in Requests : GatewayStep(r) \/ Age(r)
  \/ \E w \in Workers : WorkerStep(w) \/ WorkerFault(w)
  \/ ServerStep
  \/ SweeperStep \/ SweepAborts

Spec == Init /\ [][Next]_vars

\* Workers run and are restarted, every MCP attempt ends in a timeout (the
\* SDK's own while it connects), the sweeper's loop survives every exception,
\* and the clock runs.
\* Nothing is assumed of clients, and the MCP server need never answer.
Fairness ==
  /\ \A w \in Workers : WF_vars(WorkerStep(w))
  /\ \A r \in Requests : WF_vars(Age(r))
  /\ WF_vars(SweeperStep)

FairSpec == Spec /\ Fairness

----------------------------------------------------------------------------
(* Properties.                                                             *)

\* Every COMPLETED transaction has its refund, whatever crashed, was swept,
\* delivered twice or overwritten: half of what chaos_idempotency.py asserts.
CompletedHasRefund == \A r \in Requests : txn[r] = "COMPLETED" => refunds[r] = 1

\* A claim is on record while it has a row, a message in the queue, or an
\* unsettled delivery that no worker has acted on yet.
OnRecord(r) ==
  \/ txn[r] # "NONE"
  \/ queue[r] > 0
  \/ \E w \in Workers : pc[w] = "received" /\ linked[w] /\ job[w] = r

\* The three places where the code consumes a message and keeps nothing (an
\* empty request_id, a database error at the claim, a republished message that
\* meets the row the sweeper is about to delete) are the only ones: whatever
\* else fails, an accepted claim stays on record.
LossOnlyWhereKnown == \A r \in accepted \ dropped : OnRecord(r)

\* No two workers process one request at once ("prevent two workers from
\* processing the same transaction").
OneWorkerPerRequest ==
  \A v, w \in Workers :
    pc[v] \in Working /\ pc[w] \in Working /\ job[v] = job[w] => v = w

\* Nothing is under way.
Quiet ==
  /\ \A r \in Requests : queue[r] = 0 /\ calls[r] = 0 /\ txn[r] # "PROCESSING"
  /\ \A w \in Workers : pc[w] = "idle"
  /\ locked = {}

\* "no accepted claim was lost (every request_id reached a final state)":
\* once nothing is under way, every claim answered 202 has its row.
AcceptedClaimNotLost == Quiet => \A r \in accepted : txn[r] \in Final

\* "every refund its COMPLETED transaction", once nothing is under way.
RefundHasCompleted == Quiet => \A r \in Requests : refunds[r] > 0 => txn[r] = "COMPLETED"

\* Every accepted claim reaches a final status unless its message is dropped
\* at one of the known places.
ClaimsConclude ==
  \A r \in Requests : r \in accepted ~> txn[r] \in Final \/ r \in dropped

\* The promise of ClaimService, a missing or a PROCESSING row being "open": a
\* final row is never deleted or reopened, whatever is swept under its worker,
\* COMPLETED is written only with the refund on the ledger, and there is at most
\* one refund.  A slow worker whose claim was swept and taken by another may
\* replace the other's final status; without slow claims nothing is revised.
Service == INSTANCE ClaimService WITH
  Conclusions <- Final,
  Revisable   <- SlowWorkers,
  verdict     <- [r \in Requests |-> IF txn[r] \in Final THEN txn[r] ELSE "open"],
  refunded    <- refunds

ServiceSpec == Service!Spec
=============================================================================
