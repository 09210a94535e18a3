------------------------------ MODULE McpRetry ------------------------------
(***************************************************************************)
(* Time at the edge between the workers and the MCP server: the retries of *)
(* call_tool_with_retry (src/worker/mcp_client.py) against the sliding     *)
(* window of is_rate_limited (src/mcp_server/security/rate_limiter.py).    *)
(*                                                                         *)
(* All workers share one client id, and a quota belongs to a client and a  *)
(* tool, so this is one tool.  Every row of the last minute counts, those  *)
(* of refused calls included: a retry fills the window it is waiting for.  *)
(* The boundary's handling of a POST is one step here; McpBoundary has its *)
(* interleavings.                                                          *)
(*                                                                         *)
(* Time is counted in units of Tick.  A step that is due is taken before   *)
(* time moves on.                                                          *)
(***************************************************************************)
EXTENDS Naturals, FiniteSetsExt

CONSTANTS
  Workers,       \* worker processes
  Limit,         \* MCP_RATE_LIMIT_PER_MIN
  Window,        \* one minute
  Timeout,       \* MCP_TOOL_TIMEOUT_SECONDS
  SdkTimeout,    \* external: the longest the SDK's sse_client takes to connect
                 \* and hear of its endpoint, or to fail; the program sets no
                 \* timeout of its own here
  MaxRetries,    \* MCP_TOOL_MAX_RETRIES
  BackoffBase,   \* MCP_TOOL_BACKOFF_BASE_SECONDS
  RefusalHeard,  \* does the SDK report a refused POST, or does the call hang?
  MaxLate        \* bound: POSTs still on their way after their worker gave up

ASSUME McpRetryAssumption ==
  /\ {Limit, Window, Timeout, SdkTimeout, MaxRetries, BackoffBase} \subseteq Nat \ {0}
  /\ RefusalHeard \in BOOLEAN
  /\ MaxLate \in Nat

VARIABLES
  step,      \* where the call of each worker is
  attempt,   \* its attempt, 0 when there is no call
  timer,     \* time left until the wait of this step ends
  held,      \* history: for how long the call has kept the worker
  late,      \* POSTs on their way that no worker waits for
  rows       \* rows of mcp_audit_logs in the window, by age and decision

vars == <<step, attempt, timer, held, late, rows>>

Steps == {"idle", "backoff", "connecting", "opening", "sent", "running", "unanswered"}

\* 2 ** n.
TwoTo[n \in Nat] == IF n = 0 THEN 1 ELSE 2 * TwoTo[n - 1]

Backoff(n) == BackoffBase * TwoTo[n - 1]

\* An attempt waits for the connection, for initialize and for call_tool.
PerAttempt == SdkTimeout + 2 * Timeout

\* The longest a call may keep its worker: its attempts and their backoffs.
MaxHeld == MaxRetries * PerAttempt + BackoffBase * (TwoTo[MaxRetries - 1] - 1)

\* A count beyond the limit is no different from the limit to is_rate_limited.
Counts == [allowed : 0 .. Limit, denied : 0 .. Limit]

TypeOK ==
  /\ step \in [Workers -> Steps]
  /\ attempt \in [Workers -> 0 .. MaxRetries]
  /\ timer \in [Workers -> 0 .. MaxHeld]
  /\ held \in [Workers -> 0 .. MaxHeld + 1]
  /\ late \in 0 .. MaxLate
  /\ rows \in [0 .. Window -> Counts]

Init ==
  /\ step = [w \in Workers |-> "idle"]
  /\ attempt = [w \in Workers |-> 0]
  /\ timer = [w \in Workers |-> 0]
  /\ held = [w \in Workers |-> 0]
  /\ late = 0
  /\ rows = [age \in 0 .. Window |-> [allowed |-> 0, denied |-> 0]]

----------------------------------------------------------------------------
(* The boundary.                                                           *)

Recent(decision) == MapThenSumSet(LAMBDA age : rows[age][decision], 0 .. Window)

Allowed == Recent("allowed")
Denied  == Recent("denied")

\* created_at >= now - WINDOW, whatever the decision.
IsRateLimited == Allowed + Denied >= Limit

\* write_audit_log, now.
WriteRow(decision) == rows' = [rows EXCEPT ![0][decision] = IF @ < Limit THEN @ + 1 ELSE @]

----------------------------------------------------------------------------
(* The client.                                                             *)

Goto(w, s, time) ==
  /\ step' = [step EXCEPT ![w] = s]
  /\ timer' = [timer EXCEPT ![w] = time]
  /\ held' = [held EXCEPT ![w] = IF s = "idle" THEN 0 ELSE @]

\* The call is over: its worker has the result, or McpCallError.
Conclude(w) == Goto(w, "idle", 0) /\ attempt' = [attempt EXCEPT ![w] = 0]

\* Mutant: the backoff starts at twice its base.
AttemptFailsBackingOffLonger(w) ==
  IF attempt[w] < MaxRetries
    THEN /\ Goto(w, "backoff", Backoff(attempt[w] + 1))
         /\ attempt' = [attempt EXCEPT ![w] = @ + 1]
    ELSE Conclude(w)

\* Mutant: one attempt too many.
AttemptFailsOffByOne(w) ==
  IF attempt[w] <= MaxRetries
    THEN /\ Goto(w, "backoff", Backoff(attempt[w]))
         /\ attempt' = [attempt EXCEPT ![w] = @ + 1]
    ELSE Conclude(w)

\* A failed attempt that may be retried.
AttemptFails(w) ==
  IF attempt[w] < MaxRetries
    THEN /\ Goto(w, "backoff", Backoff(attempt[w]))
         /\ attempt' = [attempt EXCEPT ![w] = @ + 1]
    ELSE Conclude(w)

Call(w) ==
  /\ step[w] = "idle"
  /\ Goto(w, "connecting", SdkTimeout)
  /\ attempt' = [attempt EXCEPT ![w] = 1]
  /\ UNCHANGED <<late, rows>>

\* The backoff is over: a new connection for the next attempt.
Retry(w) ==
  /\ step[w] = "backoff"
  /\ timer[w] = 0
  /\ Goto(w, "connecting", SdkTimeout)
  /\ UNCHANGED <<attempt, late, rows>>

\* sse_client has its streams; session.initialize() posts and waits.
Connects(w) ==
  /\ step[w] = "connecting"
  /\ Goto(w, "opening", Timeout)
  /\ UNCHANGED <<attempt, late, rows>>

\* session.initialize() has its answer; call_tool posts and waits anew.
SessionOpens(w) ==
  /\ step[w] = "opening"
  /\ Goto(w, "sent", Timeout)
  /\ UNCHANGED <<attempt, late, rows>>

\* No connection, or no session.  A 401 is not retried: that of the GET raises
\* in sse_client, that of a POST like any refusal.
SessionFails(w) ==
  /\ \/ step[w] \in {"connecting", "opening"} /\ AttemptFails(w)
     \/ (step[w] = "connecting" \/ (step[w] = "opening" /\ RefusalHeard)) /\ Conclude(w)
  /\ UNCHANGED <<late, rows>>

\* Mutant: the SDK reports every refusal.
RefusedAndHeard(w, permanent) == IF permanent THEN Conclude(w) ELSE AttemptFails(w)

\* The boundary refuses with a 429 (retried) or a permanent 4xx (not retried).
\* A worker that does not hear of it waits for its read timeout.
Refused(w, permanent) ==
  IF RefusalHeard
    THEN IF permanent THEN Conclude(w) ELSE AttemptFails(w)
    ELSE Goto(w, "unanswered", timer[w]) /\ UNCHANGED attempt

\* _deny: a row that cannot be written does not stop the refusal.  The row of
\* a 401 is not one of this client.
Denies == WriteRow("denied") \/ UNCHANGED rows

\* 503: no row, unless the commit of an allowed call's row did reach the
\* database.
Unavailable == UNCHANGED rows \/ (~IsRateLimited /\ WriteRow("allowed"))

\* The POST reaches the boundary: 429; 401, 403 or 422; forwarded; 503.
Handle(w) ==
  /\ step[w] = "sent"
  /\ \/ IsRateLimited /\ Denies /\ Refused(w, FALSE)
     \/ Denies /\ Refused(w, TRUE)
     \/ ~IsRateLimited /\ WriteRow("allowed")
                       /\ Goto(w, "running", timer[w]) /\ UNCHANGED attempt
     \/ Unavailable /\ Refused(w, FALSE)
  /\ UNCHANGED late

ToolAnswers(w) ==
  /\ step[w] = "running"
  /\ Conclude(w)
  /\ UNCHANGED <<late, rows>>

\* McpToolError: the tool failed, or answered with no structured result.
ToolFails(w) ==
  /\ step[w] = "running"
  /\ AttemptFails(w)
  /\ UNCHANGED <<late, rows>>

\* Mutant: no read timeout, the call waits for ever.
WaitingForAnswerNever(w) == FALSE

\* The SDK's own timeouts end the connecting, read_timeout_seconds the rest.
WaitingForAnswer(w) ==
  step[w] \in {"connecting", "opening", "sent", "running", "unanswered"}

\* Time is up.  A POST that has not been handled may still be.
TimesOut(w) ==
  /\ WaitingForAnswer(w)
  /\ timer[w] = 0
  /\ AttemptFails(w)
  /\ late' \in IF step[w] = "sent" /\ late < MaxLate THEN {late, late + 1} ELSE {late}
  /\ UNCHANGED rows

\* It is handled now: refused, forwarded, or turned away with a 503.
HandleLate ==
  /\ late > 0
  /\ late' = late - 1
  /\ Denies \/ Unavailable
  /\ UNCHANGED <<step, attempt, timer, held>>

----------------------------------------------------------------------------
(* Time.                                                                   *)

Busy(w) == step[w] # "idle"

Due(w) == (step[w] = "backoff" \/ WaitingForAnswer(w)) /\ timer[w] = 0

Tick ==
  /\ \A w \in Workers : ~Due(w)
  /\ timer' = [w \in Workers |-> IF timer[w] > 0 THEN timer[w] - 1 ELSE 0]
  /\ held' = [w \in Workers |-> IF Busy(w) /\ held[w] <= MaxHeld THEN held[w] + 1 ELSE held[w]]
  /\ rows' = [age \in 0 .. Window |->
                IF age = 0 THEN [allowed |-> 0, denied |-> 0] ELSE rows[age - 1]]
  /\ UNCHANGED <<step, attempt, late>>

Next ==
  \/ \E w \in Workers :
       \/ Call(w) \/ Retry(w) \/ Connects(w) \/ SessionOpens(w) \/ SessionFails(w)
       \/ Handle(w) \/ ToolAnswers(w) \/ ToolFails(w) \/ TimesOut(w)
  \/ HandleLate
  \/ Tick

\* Time passes, and the event loop wakes a worker whose timer has run out; the
\* end of the connecting is the SDK's promise.  No answer is ever promised.
Spec ==
  /\ Init /\ [][Next]_vars
  /\ WF_vars(Tick)
  /\ \A w \in Workers : WF_vars(Retry(w)) /\ WF_vars(TimesOut(w))

----------------------------------------------------------------------------
(* Properties.                                                             *)

\* However answers are lost or late, no chain of attempts, each with its three
\* waits and its backoff, keeps a worker longer than their worst cases add up
\* to.  The sweeper's threshold relies on such a bound; the share of sse_client
\* in it is not the program's but the SDK's.
HeldBounded == \A w \in Workers : held[w] <= MaxHeld

\* A call comes to an end even when nothing ever answers.
CallsConclude == \A w \in Workers : Busy(w) ~> ~Busy(w)

\* "408 and 429 are transient" (mcp_client.py): a window that refuses calls
\* holds a call it let through, so refusals alone never keep the workers out.
\* It takes a limit above what the workers' attempts can fill by themselves,
\* and it rests on a refusal hanging until the read timeout.
NoLockout == IsRateLimited => Allowed > 0
=============================================================================
