# Verification of the transactional refund engine

This directory holds TLA+ models of the engine under `src/`, the TLC
configurations that check them on small instances, and TLAPS proofs of the
properties that matter most. Line numbers refer to the repository at the commit
these files sit beside; paths are relative to its root unless they start with
`src/src/`.

## 1. The system

A customer's refund claim enters through a FastAPI gateway, waits in a RabbitMQ
queue, is decided by a worker with the help of several language models, and is
paid through an MCP server with its own ledger. A recovery sweeper takes care of
workers that die. PostgreSQL holds all state that must survive.

| Component | State it keeps | Operations | What is hard |
| --- | --- | --- | --- |
| Gateway `api/main.py`, `api/schemas.py` | none (a channel) | validate, publish, answer 202 | a 202 is a promise; request ids are the client's own, may repeat, may be empty |
| Queue (RabbitMQ) | `agent_tasks_queue`, durable, persistent messages | deliver, ack, nack, redeliver | at-least-once delivery, any order after a redelivery |
| Worker `worker/worker.py`, `worker/amqp.py` | one delivery, one session, the locals of `process_message` | claim the row, decide, execute, write, settle | crash anywhere, channel loss, every exception ends in `nack(requeue=False)` |
| Prompt Guard, Front-Desk, judges `agents/` | none | scan, propose, vote, override | fail open or fail closed per component, concurrent judges, second reading after a rejection |
| Knowledge base `core/services/retrieval_service.py`, `scripts/ingest_knowledge_base.py` | `knowledge_base` | ingest, embed, find | concurrent and failing ingestions, lookups in the middle of one; a failed query aborts the transaction the worker goes on with |
| Evidence check `worker/evidence.py`, `core/services/evidence_check.py` | none | read order and history, apply the rules | check-then-act over two services, rounding, cut histories |
| MCP client `worker/mcp_client.py`, `worker/refund_executor.py` | attempt number, backoff | call with timeout, retry, give up | an answer that comes late or never; the call may still run; retries spend the quota they wait for |
| MCP server `mcp_server/mcp_server.py`, `core/repositories/` | `refunds`, `orders` | `execute_refund`, `get_order`, `get_refund_history` | idempotency under concurrent calls, two-statement reads |
| MCP boundary `mcp_server/security/` | `mcp_audit_logs`, the client registry | authenticate, authorize, rate-limit, validate, audit, forward | fail closed, a count without a lock, replicas |
| Recovery sweeper `worker/recovery_sweeper.py` | one transaction | select, publish, delete, commit | publishes before it commits; cannot tell a slow worker from a dead one |
| Chunking `core/services/chunking.py` | none | `chunk_markdown` | headings, overlaps and size limits at the boundaries |
| Tracing `core/tracing.py` | the Langfuse client, the current observation of each task | observe, trace a claim | the SDK may fail anywhere, judges run in tasks of their own, interrupts; it must never change the outcome |
| Dashboard, read-only API, configuration | none of the above | read and format | – |

**Interactions.** Gateway → queue → worker (messages); worker ↔ PostgreSQL
(`transactions`, `knowledge_base`); worker → MCP server over SSE (three tools,
each call through the boundary); MCP server ↔ PostgreSQL (`refunds`, `orders`,
`mcp_audit_logs`); sweeper ↔ PostgreSQL and → queue. The worker's table and the
ledger have no foreign key and no common transaction: a refund and its claim are
tied by the `request_id` alone.

**What makes it correct.** A claim accepted with 202 reaches one final status; it
is refunded at most once; a COMPLETED claim has been refunded; no model error
counts as an approval; a refund fits in its order; no tool runs without
authentication, authorization and an audit row; a stored policy is whole and is
found; the trail and the trace say what happened.
`PROJECT.json` lists the hazards behind each of these at their lines.

## 2. Modules

| Module | Models | About |
| --- | --- | --- |
| `ClaimService` | the promise | Abstract specification: each claim concluded and never reopened, refunded at most once, COMPLETED only after its refund; a constant says whether one conclusion may replace another |
| `ClaimPipeline` | gateway, queue, workers, MCP call, ledger, sweeper | The life of a claim with all its faults; refines `ClaimService` |
| `ClaimPipelineProofs` | – | Theorems about it |
| `ClaimDecision`, `ClaimDecisionProofs` | `process_message` steps 2 to 5, guard, Front-Desk, judges, retrieval | What `ClaimPipeline` abstracts to `DecideAgainst` and `Approve`; refines `ClaimService` for its claim |
| `OrderRefunds`, `OrderRefundsProofs` | evidence check, history reads, ledger | Several claims on the same orders |
| `McpBoundary`, `McpBoundaryProofs` | the security middleware and its audit table | Concurrent POSTs |
| `McpRetry`, `McpRetryProofs` | `call_tool_with_retry` and the window of `is_rate_limited`, on a clock | Composes the MCP client with the boundary |
| `KnowledgeBase`, `KnowledgeBaseProofs` | ingestion, `delete_by_source`, the lookup | Transactions under READ COMMITTED |
| `Tracing`, `TracingProofs` | `observe`, `claim_trace` and the blocks they enclose | The trace against the program it records |
| `Chunking`, `ChunkingProofs` | `chunk_markdown` | One step per paragraph |
| `MC*` | – | Instances for TLC |

How they fit together: `ClaimPipeline` is the composition of gateway, queue,
workers, MCP call, ledger and sweeper. The others open up one of its parts each:
`ClaimDecision` the decision of one worker, `OrderRefunds` what the ledger holds for
an order, `McpBoundary` and `McpRetry` the call between worker and server,
`KnowledgeBase` what a decision looks up, `Tracing` what it leaves behind.
`ClaimService` is refined twice, by the pipeline and by the decision.

### ClaimPipeline

State: `queue` (messages per request id, a bag, so every order is covered),
`txn` (the status in `transactions`), `stale` (rows whose `updated_at` is below the
sweeper's threshold), per worker `pc`, `job`, `outcome`, `attempt` and `linked`
(can the delivery still be settled), `calls` (MCP calls on their way), `refunds`
(ledger rows per request), `locked` and `unpublished` (the sweeper's open
transaction). `submits`, `accepted`, `dropped` and `faults` are history or bounds.

One action per step that another process can observe:

- `Submit`, `SubmitUnconfirmed`: `create_claim`. The publish is confirmed, or it
  reaches the queue although the handler raises.
- `Deliver`, `DiscardWithoutId`, `ClaimRow`, `ClaimDuplicate`, `ClaimFails`:
  `process_message` up to its claim. `IntegrityError` discards, any other error
  drops the message.
- `DecideAgainst`, `Approve`, `DecideFails`: the decision.
- `RetryCall`, `ExhaustCalls`, `CallRejected`, `ReceiveResult`:
  `call_tool_with_retry` as `execute_refund_via_mcp` uses it.
- `ToolAnswers`, `ToolUnheard`, `CallLost`: the other end of the call.
- `WriteFinal`, `WriteMissing`, `WriteFails`, `Settle`: step 5 and the ack or nack.
- `WorkerCrash`, `ChannelLost`: process death and `handle_delivery`'s closed channel.
- `Age`, `SweepSelect`, `SweepPublish`, `SweepCommit`, `SweepAborts`: the sweeper.

The row lock of the final write is not a variable: select, update and commit of
step 5 are one action that waits while the sweeper holds the row. The sweeper's
`session.delete` sends nothing before `commit()`, therefore an INSERT between
publish and commit meets the old row; once the DELETE is sent the INSERT waits
for the commit, which is why `SweepCommit` is one step. Calls of one request are
interchangeable, and above `MaxInFlight` one more changes nothing, since the ledger
ignores repetitions. A commit that raises and took effect all the same is the
composition of two actions of the model (noted there).

`SlowWorkers = FALSE` is the assumption that a claim takes less time than
`SWEEPER_STALE_THRESHOLD_SECONDS`. Nothing in the code enforces it (it is 300 s
by default; neither MCP calls, see `McpRetry`, nor model calls are bounded by the program), so
every property that needs it says so. `PipelineFaults` does without: there the pipeline
refines the service whose conclusions may be revised. `OneWorkerPerRequest` fails at once when the
cfg of `PipelinePunctual` sets `SlowWorkers = TRUE`.

### ClaimDecision

`d` is the record of `process_message`'s locals with the step it is at; `db` is the
worker's session (closed, in a transaction, aborted); `paid` is whether the refund
tool has run; `row` is what the table says. Models answer anything: a guard score,
"nan" or "inf", text or an exception (`scan` remembers which); a proposal of any intent with any fields; a verdict,
an unusable reply or an exception from each judge, in either order; no Supreme
Court at all. `ShowsQuestion` is the dashboard's reading of the trail. One claim,
one worker: other processes cannot reach its locals, and what they do to the row
(a sweep) is `WriteFails` here and modelled in `ClaimPipeline`. `Storable` is the JSONB
column of the trail, which takes no NaN and no Infinity.

### OrderRefunds

Claims are records of user, order, amount and currency; amounts are in tenths of a
cent when a client sends them and in cents when they are compared (`Money`,
half up, as `_money`) or stored (`Stored`, as NUMERIC(12, 2) does). A history is the
positions of its refunds in the ledger, and what it adds up to a sum over them; `Listed`
is what `get_refund_history` returns of it, at most `HistoryLimit`. `CountHistory` and
`ListAndCheck` are the two statements of `get_refund_history`; `readAt` and `old` are
history variables the properties compare with; `peak` is the largest number of
requests whose refund was outstanding at once, and `outrun` the requests whose
history was cut and had grown between the two statements. The ledger's order is the order of
commits. A call a worker has given up (`GiveUp`) stays in `calls` and may run at any
later time. The judges are `Approve` and `Reject`; outages are in `ClaimDecision`.

### McpBoundary

A POST is its token's client, whether it is a `tools/call`, the tool, and whether
its arguments pass the schema. `audit` and `window` are the audit table and the
part of it that is less than a minute old (`Expire` is the clock). Rate check,
audit row and forward are separate steps because each is its own transaction;
each access to the table may fail, and a failed audit write may have been
committed all the same. Replicas need no variable: they share only the table.
GET requests carry no tool call and are left out.

### McpRetry

`step`, `attempt` and `timer` are where a worker's call is; `rows` counts the audit
rows of the window by age and decision; `late` POSTs belong to no worker any more.
`Tick` moves the clock, and waits for whatever is due. An attempt has three waits: the
connection and endpoint event of `sse_client` (`Connects`), `initialize`
(`SessionOpens`) and `call_tool`. `read_timeout_seconds` bounds each of the last two,
not the attempt; for the first one the program passes no timeout (`mcp_client.py:61`),
and `SdkTimeout` stands for whatever the SDK allows itself. A failure may end any of
them early (`SessionFails`). A late POST meets the boundary like any other
(`HandleLate`): it is refused with or without its row, forwarded, or answered 503.
`RefusalHeard` says whether the worker hears of a 4xx: with the MCP SDK the code is
written for it does not (`config.py`: "hangs in call_tool when the security boundary
rejects a request with a 4xx"), and that is what the run assumes. An answer may fail
to come at any point; the boundary's own steps are one here.

`NoLockout` asks for a limit above what the attempts of the workers can fill by
themselves. A refused POST keeps its worker until its read timeout, so a worker posts
at most 2 + Window ÷ Timeout times within a window, and `NoLockoutWhenWide` (section 5)
shows that Workers · (2 + Window ÷ Timeout) + late POSTs below the limit is enough.
With the defaults (30 calls a minute, `config.py:65`; 10 s, `config.py:74`; 60 s,
`rate_limiter.py:19`) that is 8 rows a worker: three workers, with up to five late POSTs,
are safe. The condition is sufficient and not always needed: with the times of
`McpRetry.cfg` a limit of 6 does as well.

### KnowledgeBase

An ingestion embeds, begins its DELETE (which will look at the rows committed by
then), finishes it once the rows it wants are not locked by another one, inserts
chunk by chunk and commits; `zip(..., strict=True)` raises when the provider returned
too few or too many vectors. `removing` is the rows its DELETE has found, `before`
what was committed at that moment. A failure anywhere rolls back. A lookup embeds
its text and reads one committed row. Rows are told apart by the ingestion that
wrote them and their number; texts, distances and the near-duplicate vectors of
other providers are not modelled.

### Tracing

`block` is what the application does in each `with observe(...)` block (a claim, its
steps, the embedding inside the retrieval, the judges and the Supreme Court inside
the evaluation); `span`, `parent` and `current` are what the SDK keeps: the
observation of a block, what it is nested in, and the current observation of each
asyncio task. `holds` are the blocks that got an observation and not `_NOOP`. Judges
start with a copy of the worker's context (`Gather`) and end in any order; an
interrupt cancels the worker at an await and reaches the judges through the gather.
Leaving an observation is assumed not to raise: the code does not guard against it,
so `worker.py:67` "Tracing never changes the outcome" rests on the SDK there.

### Chunking

The characters do not matter, only lengths and which paragraphs are headings. A
chunk is a sequence of pieces: the tail of the chunk before, a carried heading,
paragraphs. A paragraph knows its place in the document (`no`), by which
`ChunksAreTheDocument` says that nothing is lost, repeated or reordered.

## 3. Runs

Expected to pass (`PROJECT.json` has the properties of each):

| Run | Bounds | Shows |
| --- | --- | --- |
| `PipelineFaults` | 2 workers, a proper and an empty id, 2 attempts, 2 faults of all eight kinds, slow workers | `CompletedHasRefund`: no COMPLETED row without its refund. `LossOnlyWhereKnown`: claims vanish at three places and nowhere else. `ServiceSpec`: the refinement of the service with revisable conclusions: a final row is never deleted or reopened, however slow its worker, and refunds are made once |
| `PipelinePunctual` | 2 workers, 2 requests, 1 attempt, 2 faults of six kinds, no slow workers, fair | `OneWorkerPerRequest`, the refinement `ServiceSpec` of the service that revises nothing, and `ClaimsConclude`: each accepted claim ends, unless dropped at a known place |
| `Decision` | every claim, every reply (finite as it stands) | `RefundOnlyWhenEarned`, `NoVoteOnFailedEvidence`, `NoTransactionWhileWaiting`, `QuestionIffClarification`, `TrailAccounts`, and the refinement `ServiceSpec` |
| `Orders` | 3 claims out of nine, 4 initial ledgers, 2 workers, 1 redelivery, history limit 2 | `RefundsFollowRules`, `RefundsFitTheirCheck`, `RecheckAgrees`, `OverRefundBounded`, all with late calls |
| `Boundary` | 3 POSTs of every kind, 2 at once, limit 1 | `ToolOnlyWhenAuthorized`, `OvershootBounded` |
| `McpRetry` | 2 workers, limit 8, window 1, timeout 1, connection 2, 2 attempts, backoff 1, 1 late POST, fair | `HeldBounded`: a call keeps its worker no longer than retries · (connection + 2 · timeout) and the backoffs. `CallsConclude`. `NoLockout`: a window that refuses holds a call it let through |
| `KnowledgeBase` | 3 ingestions of up to 2 chunks of 2 documents, 1 lookup | `WholeVersions`, `ReplacedIsGone`, `DocumentStays`, `LookupFindsPolicy` |
| `Tracing` | one claim after the other, 2 failures of the SDK in each | `ShapedAsTheProgram`, `NothingLeft`, `ErrorIffFailed`, `SameAsUntraced` |
| `Chunking` | documents of up to 5 paragraphs of length 1, 3 or 9; size 10, overlap 2 | `ChunksAreTheDocument` (overlaps included), `ChunksBounded`, `HeadingMovesOn` |

Why the bounds are enough. Interference between claims happens per request id, so
one or two ids show it; two workers are needed for every race and a third adds
only copies of the second. Two faults give a fault during the recovery from a
fault (a crash, then a failing sweep). The two attempts of `PipelineFaults` give a
late answer and a retry; with the one attempt of `PipelinePunctual` the late
answer remains, and a repeated call comes from a redelivered message instead.
In `Boundary` two POSTs at once exceed a limit of 1 by exactly the overshoot the
property allows. The nine claims of `Orders` pass or break each rule of the check,
with an amount that rounds across the order's value, and ledgers that are empty,
partly used, over-refunded long ago or in another currency; with a history limit of
2 the list is complete, exactly full, or cut. In `McpRetry` eight rows
are more than two workers and a late POST can fill in one window,
the relation `NoLockout` needs; the bound of `HeldBounded` is tight (one tick less
is violated). Three ingestions let a third one meet what two have left behind. In
`Tracing` two failures reach any pair of blocks, a parent and its child among them. Lengths
1, 3 and 9 against a chunk of 10 with separators of 2 give paragraphs that fit
together, do not, and nearly fill a chunk. The proofs of section 5 need no bounds.

`McpRetry` is checked for deadlock. The other cfgs set `CHECK_DEADLOCK FALSE` because
their instances end: with all claims settled, all documents ingested or the worker
interrupted nothing remains to do.

### Disagreements between the code and what is said of it

Each of these runs checks one statement and TLC finds it violated.

| Run | What happens | What is said |
| --- | --- | --- |
| `PipelineLostBySweep` | `recovery_sweeper.py:80` publishes, a worker discards the message as a duplicate of the row that the commit at line 85 then deletes | README.md:1080 "Nothing is lost, but that claim is delayed" |
| `PipelineRefundUnrecorded` | EXECUTION_FAILED with the refund in the ledger | `tests/performance/chaos_idempotency.py:11` "every refund its COMPLETED transaction" |
| `KnowledgeBaseOverlap` | two ingestions of one document overlap and both versions stay | `retrieval_service.py:31` "Re-ingesting a document replaces its chunks instead of duplicating them." |

A statement that fails and its true, weaker neighbour are both kept:
`AcceptedClaimNotLost` fails, `LossOnlyWhereKnown` holds; `RefundHasCompleted` fails,
`CompletedHasRefund` holds; `OneVersion` fails, `WholeVersions` and `ReplacedIsGone` hold.

Noted while modelling and without a run of their own, because a model above shows
them already:

- No lock is held while a claim is processed, so a slow one is swept and taken by a
  second worker; README.md:252 and RUNBOOK.md:96 speak of row locks that prevent it.
  `OneWorkerPerRequest` is violated when `PipelinePunctual.cfg` has
  `SlowWorkers = TRUE`.
- Even one worker over-refunds an order when a call it has given up runs after its
  next check: `OverRefundBounded` counts requests outstanding, not workers.
  `evidence_check.py:9` and README.md:1069 mention concurrent workers only.
- The history is counted (`mcp_server.py:106`) and listed in two statements that may
  see different ledgers; the check compares the two for a cut list
  (`evidence.py:21-22`). A refund recorded between them can push an old one off the
  end of the list and leave as many as were counted: the check then misses it.
  `outrun` remembers those requests, and `RefundsFitTheirCheck` and
  `OverRefundBounded` fail without their exemption for them.
- A claim whose own refund is the one too many for `REFUND_HISTORY_LIMIT` fails its check
  when it is delivered again: `evidence_check.py:93-100` compares the count with the cut
  list before line 106 has left the claim's own refund out. The claim was refunded and
  ends PENDING_HUMAN_REVIEW, although lines 104-105 say "A redelivered claim whose refund
  already executed must not count against itself". `RecheckAgrees` says that this is the
  only case: replace its right side by TRUE and `Orders` finds it.
- The guard's answer "nan" is a float below every threshold, so the text counts as
  "clear" in the worker, in the logs and in the trace (`prompt_guard.py:100-116`), where
  the docstring (lines 22-25) has an input that was not scored "skipped". A trail with
  that score, or with the Infinity of a blocked one, is no JSON a JSONB column accepts: the
  final write raises, the message is dropped, and the row stays PROCESSING to be swept
  and decided again for as long as the guard answers so. What such a trail would say is
  therefore never stored, which is how `TrailAccounts` holds, but the claim may be
  refunded unscanned and without ever being COMPLETED.
- An MCP attempt has three waits, where `config.py:71-72` says "The read timeout bounds
  each attempt": the connection of `sse_client`, which gets no timeout from the program,
  and two requests with the read timeout each. With the defaults a call holds its worker
  for up to 63 s plus three connections of the SDK, and a claim makes three calls: 189 s
  of the sweeper's 300 s plus nine connections, before any model has been waited for.
  The SDK's defaults alone bound a connection, and neither `MCP_TOOL_TIMEOUT_SECONDS` nor
  the sweeper's threshold takes account of them.
- `NoLockout` rests on refusals hanging until the read timeout. With
  `RefusalHeard = TRUE`, what `mcp_client.py:98` hopes for ("408 and 429 are
  transient"), a window filled by refused retries alone can refuse everybody.
- `request_id` alone decides what a duplicate is (`worker.py:57`): a second claim with
  a used id and another payload is discarded like one.
- When the observation of a claim does not start, each of its steps becomes a trace
  of its own, where `tracing.py:3` says "One trace per claim".
- The dashboard waits 15 s to outlast the gateway's health check of 10 s
  (`ui/api_client.py:12-14`), but those 10 s bound each phase of an HTTP request, and
  the database is asked before it.
- A database error at the claim drops the message (`worker.py:373`), and a claim
  with `request_id: ""` passes `schemas.py:24` and is forgotten at
  `worker.py:42-45`, although "the 202 promises the claim will be processed"
  (`api/main.py:48`). `AcceptedClaimNotLost` fails for them too: give the cfg of
  `PipelineLostBySweep` `FaultKinds = {"claim_db"}`, or `EmptyIds = {r1}`.
- After a crash between refund and final write a redelivered claim is decided
  afresh and may be rejected, with its refund executed; README.md:284 says "No
  tool is executed on a reject".
- `worker.py:128` ends the transaction the retrieval began, so that none is open
  while models answer (`NoTransactionWhileWaiting`); README.md:1083 and
  `models.py:48-50` describe one that is held.
- The Supreme Court may approve over a rejection (`judge.py:231`);
  `docs/phases/phase_1_core_engine.md:27` has every rejection escalated.
- A heading can stay behind when two follow each other or one stands alone in its
  chunk (`chunking.py:49`), and a chunk can exceed `chunk_size` because tail,
  heading and paragraph are not measured together (`chunking.py:55`), against the
  docstring's lines 15 and 23. `HeadingMovesOn` and `ChunksBounded` are what holds.

## 4. Fairness

Two specifications assume fairness. `FairSpec` of `ClaimPipeline`, in
`PipelinePunctual`, assumes:

- `WF(WorkerStep(w))` for each worker: its loop takes the next message, every MCP
  attempt ends in a read timeout, or in the SDK's own while it connects (so a worker in a
  call can always go on, answered or not), and `docker-compose.yml` restarts workers and sweeper
  (`restart: unless-stopped`). That model calls return is assumed of the providers'
  clients.
- `WF(Age(r))`: the clock runs.
- `WF(SweeperStep)`: the sweeper's loop survives every exception of an iteration
  (`recovery_sweeper.py:112-114`).

`Spec` of `McpRetry` assumes `WF(Tick)` (time passes), `WF(Retry(w))` and
`WF(TimesOut(w))`: the event loop resumes a coroutine whose sleep or read timeout
(`anyio.fail_after` in the SDK) is over. For the connection there is no read timeout:
that it ends, one way or the other, within `SdkTimeout` is the SDK's promise and not the
program's. No answer is assumed ever to come, so `CallsConclude` rests on the timeouts
alone.

Nothing is assumed of clients, of the MCP server (it may never answer) or of
faults (which are bounded in number, so that recovery gets its turn). Which of
its enabled steps a worker takes is not constrained: one that could see an
answer may time out instead.

## 5. Proofs

TLAPS proves, for all values of the constants that satisfy the modules'
assumptions:

`ClaimPipelineProofs`

- `TypeCorrect`: `Spec => []TypeOK`. `TypeOK` is inductive.
- `CompletedRefunded`: `CompletedHasRefund` from `RefundInv`, which adds what makes it
  inductive: a worker that has its answer, or is about to write COMPLETED, finds the
  row on the ledger, and a ledger row is never lost or doubled.
- `LossKnown`: `LossOnlyWhereKnown` from `LossInv`: what the sweeper holds is still
  PROCESSING, and a payload it has published is still in the queue or with a worker
  that has not acted on it, or was dropped against the row itself.
- `OneWorker`: from `PunctualInv`, under `~SlowWorkers`: the row of a
  request in process is PROCESSING and fresh, and the sweeper holds only stale ones.
  Freshness is what ties the three processes together, as no lock does.
- `ImplementsService`: `Spec => ServiceSpec`, with slow workers and without: initial states
  map to initial states, and each step is a `Refund`, a `Conclude` or a stutter, one
  proof step per action that touches `txn` or `refunds`. That no commit of the sweeper
  deletes a final row is `LossInv` (what it holds is PROCESSING, since a final write waits
  for its lock); that a final row is not written over needs `PunctualInv`, and is
  claimed only without slow workers.

`McpBoundaryProofs`

- `TypeCorrect`; `FailsClosed`: `ToolOnlyWhenAuthorized` from what each stage has already
  checked (`AuthInv`).
- `RateLimitHolds`: `OvershootBounded` from `QuotaInv`: per client and tool, the allowed
  rows of the window and the calls that have passed the count but have no row yet
  are together at most `Limit + MaxConcurrent - 1`. Without the second term the bound
  is not inductive: it is exactly what a concurrent count cannot see.

`ClaimDecisionProofs`

- `TypeCorrect`, `NoVoteWithoutEvidence`, `NoOpenTransaction`, `QuestionShown`,
  `TrailComplete`: from one `Inv`, which says at each step what the claim has been
  through already: not yet judged before the judges (`NotYet`), not blocked after
  the guard, whose status follows from what it answered (`Shielded`), a refund intent and passed evidence at the judges
  (`Filtered`), what the verdicts add up to (`Judged`), and that a written row
  agrees with its trail (`Written`).
- `RefundEarnedOnly`: the action property `RefundOnlyWhenEarned`; only `Execute` pays,
  and `Inv` holds where it starts.
- `Refinement`: `Spec => ServiceSpec`, with `Paid` to tie the outcome of the refund call
  to the ledger at the final write.

`OrderRefundsProofs`

- `TypeCorrect`: from `TypeInv`, which adds what rows, counts and calls are made of. With
  it the ledger has at most one row per request of the engine.
- `RulesFollowed`: `RefundsFollowRules` from `PassedInv`: whatever is past its check, and
  every call in flight however old, has a claim that passed the rules, and what is
  stored of it is rounded as it was compared (`StoredAsCompared`).

- `RefundsFit`: `RefundsFitTheirCheck` from `FitInv`: what a check found to fit goes on to
  fit while its claim is judged, called and retried, because it is about a prefix of
  the ledger (`readAt`), which only grows behind it.
- `RecheckAlwaysAgrees`: `RecheckAgrees`. Within the limit the list is the whole history
  (`NotCut`) and, counted again from the longer ledger without the claim's own refund, the
  one its check had (`StillPasses`); a history that was outrun is beyond the limit, and
  stays so (`OutrunInv`), as nobody's refunds grow fewer. Beyond the limit the list has
  fewer rows than were counted (`Cut`), and the check fails.
- `OverRefundAlwaysBounded`: `OverRefundBounded` from `PeakInv`: for every length the ledger
  has had, the requests whose check had not read beyond it and whose refund came
  later, or is still to come (`Straddle`), are at most `peak`. They were outstanding
  together, and no others can add to the order unseen.

`McpRetryProofs`

- `TypeCorrect`, `HeldAlwaysBounded`: from `HeldInv`: what a call has been held for and its
  timer may add is within what its attempts before this one cost (`Spent`) and the
  share of this one it has come to (`Share`). `held <= MaxHeld` alone is not inductive,
  since it does not see the timer.
- `NoLockoutWhenWide`: `NoLockout`, for refusals that are not heard and a limit that is wide
  enough, from `RoomInv`: for every span up to the window, the refused rows in it and
  the late POSTs fit in the `Room` of the workers, which is how many POSTs a worker
  can have sent in that span, the one it is waiting for included. It must be for every
  span at once: `Tick` makes of each span the next longer one.

`KnowledgeBaseProofs`

- `TypeCorrect`, `VersionsWhole`, `ReplacedVersionsGone`, `LookupsFindPolicy`: from one
  `Inv`. Its core are `Locks` (rows a running ingestion has locked are still in the table,
  so no other commit removes them under it) and `Finds` (what its DELETE saw is all
  of the document that was committed when it began).
- `DocumentNeverMissing`: the action property `DocumentStays`; a commit that removes rows
  of a document stores a whole version of it, which is not empty.

`TracingProofs`

- `TypeCorrect`, `TraceShape`, `NothingStaysOpen`, `ErrorsShown`, `OutcomeKept`, for any
  number of failures: from one `Inv`. `Nested` says that the blocks that run are nested
  as in the program and the worker is inside one at a time, `Open` that an open
  observation is exactly one a running block holds, `Context` what is current in the
  worker and in a judge about to begin. Without `Context` the parent of the next
  observation could be anything. Each kind of step (a block of the worker begins, a
  judge begins, a block ends, `gather`) has its lemmas.

`ChunkingProofs`

- `TypeCorrect`, `DocumentKept`, `ChunksAlwaysBounded`, `HeadingAlwaysMovesOn`, for any
  document, sizes and overlap below the size: from invariants about `Cut`, the finished
  chunks and the one being packed. `Shape` says what a chunk is made of; `FromDocument`,
  `InOrder` and `NothingLost` that it is the document as far as it has been read;
  `Short` that the chunk being packed is within the bound too; `MovedOn` that a heading
  that was carried over is followed by something, so that it is not carried again.

**Sums and recursion.** The model adds up with the folds of the community modules and
has one recursive function (`TwoTo`). No induction rule can be instantiated by the
provers, so each fact about them is shown by a smallest counterexample: the set of
subsets (or numbers) where it fails has a least element, by `WFMin` with
`FS_StrictSubsetOrderingWellFounded` or `NatLessThanWellFounded`, and its proper
subsets give the contradiction. From that follow, in this order, that the fold's
recursion has exactly one solution, what it makes of one element more, and the
facts the proofs use: sums that grow, that are bounded term by term, that differ in
one term (`OrderRefundsProofs`, `McpRetryProofs`, `ChunkingProofs`).

**Assumptions.** The theorems assume what the modules assume of their constants, with
three exceptions stated in the theorems: `~SlowWorkers` for `OneWorker`; a finite set of workers; and, for `NoLockoutWhenWide`, the width
of the limit and that refusals are not heard, as in the run.

Every safety property of a passing run is the subject of a theorem. Only
model-checked: the two liveness properties, `ClaimsConclude` and `CallsConclude`, which
are out of the prover's reach, and of course the counterexamples of the three runs
that expect a violation.

## 6. Not modelled

The similarity search (every chunk may be the nearest), the dashboard's statistics,
the read-only API and the health check, the LLM factory and its providers, prompts
and JSON extraction, token hashing and PII masking, the export, flush, LangChain
callback and masking of traces, migrations, infrastructure and evaluations;
`confidence/` and `observability/` are empty. Payloads: a second claim with a used
`request_id` is a duplicate whatever it asks. More than one sweeper process (the
deployment runs one). Cancellation of a worker's task inside the event loop (an
interactive stop) is in `Tracing` only; for the pipeline it is a crash.
`PROJECT.json` gives the reason for each component.

## 7. Plan

Done: the pipeline with its service, the decision with its refinement, orders and
evidence, the boundary, the client's retries on a clock, the knowledge base,
tracing and chunking, each with the proofs of all its safety properties. What
would come next:

1. Several sweepers.
2. The least limit `NoLockout` needs; the proved one is not tight.
3. The dashboard's statistics as operators against reference definitions.
