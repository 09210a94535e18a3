------------------------------ MODULE Tracing -------------------------------
(***************************************************************************)
(* Tracing of a claim: src/core/tracing.py under the code it traces.       *)
(*                                                                         *)
(* The worker runs the steps of a claim in blocks, each inside an          *)
(* observation of the Langfuse SDK; the two judges run as tasks of their   *)
(* own.  The SDK may fail to start an observation, to propagate the        *)
(* attributes of the trace or to record an update; a block may raise; an   *)
(* interrupt cancels the worker wherever it is.                            *)
(*                                                                         *)
(* The SDK itself is modelled by what its context managers promise:        *)
(* entering makes an observation current in the task's context, leaving    *)
(* ends it and restores the one before.  Leaving does not raise: the code  *)
(* does not guard against it.                                              *)
(***************************************************************************)
EXTENDS Naturals

CONSTANT MaxFailures  \* bound: what the SDK may fail at in one claim

ASSUME TracingAssumption == MaxFailures \in Nat \ {0}

Judges == {"judge1", "judge2"}

\* The steps process_message takes inside the trace, in this order, some of
\* them left out.
Steps == {"scan", "retrieve", "propose", "verify", "evaluate", "reconsider", "execute"}

Blocks == {"claim", "embed", "court"} \cup Steps \cup Judges

None == "none"

VARIABLES
  client,     \* there is a client: tracing is on and could be set up
  block,      \* what the application does in each block of the current claim
  span,       \* the observation of each block, as the SDK sees it
  parent,     \* the observation it is nested in
  current,    \* the current observation in the context of each task
  holds,      \* blocks whose TraceObservation wraps an observation
  failures,   \* history: what the SDK has failed at in the current claim
  lost,       \* history: blocks one of whose updates the SDK failed to record
  faults,     \* history: blocks in which the application itself raised
  cancelled   \* an interrupt has cancelled the worker's main task

vars == <<client, block, span, parent, current, holds, failures, lost, faults, cancelled>>

Tasks == {"worker"} \cup Judges

Task(b) == IF b \in Judges THEN b ELSE "worker"

\* The block that encloses b in the program.
Outer(b) ==
  IF b = "claim" THEN None
  ELSE IF b = "embed" THEN "retrieve"
  ELSE IF b \in Judges \cup {"court"} THEN "evaluate"
  ELSE "claim"

Inner(b) == {s \in Blocks : Outer(s) = b}

Raised == {"raised", "cancelled"}
Finished == {"returned"} \cup Raised

TypeOK ==
  /\ client \in BOOLEAN
  /\ block \in [Blocks -> {"idle", "spawned", "running"} \cup Finished]
  /\ span \in [Blocks -> {"none", "open", "ended", "error"}]
  /\ parent \in [Blocks -> Blocks \cup {None}]
  /\ current \in [Tasks -> Blocks \cup {None}]
  /\ holds \subseteq {b \in Blocks : span[b] # "none"}
  /\ failures \in 0 .. MaxFailures
  /\ lost \subseteq holds
  /\ faults \subseteq {b \in Blocks : block[b] # "idle"}
  /\ cancelled \in BOOLEAN

Init ==
  /\ client \in BOOLEAN  \* _get_client: kept for the life of the process
  /\ block = [b \in Blocks |-> "idle"]
  /\ span = [b \in Blocks |-> "none"]
  /\ parent = [b \in Blocks |-> None]
  /\ current = [t \in Tasks |-> None]
  /\ holds = {}
  /\ failures = 0
  /\ lost = {}
  /\ faults = {}
  /\ cancelled = FALSE

----------------------------------------------------------------------------
(* observe() and TraceObservation.                                         *)

\* The SDK fails at something.
Fails == failures < MaxFailures /\ failures' = failures + 1

\* The observation starts: it becomes current, under what was current.
Traced(b) ==
  /\ client /\ UNCHANGED failures
  /\ span' = [span EXCEPT ![b] = "open"]
  /\ parent' = [parent EXCEPT ![b] = current[Task(b)]]
  /\ current' = [current EXCEPT ![Task(b)] = b]
  /\ holds' = holds \cup {b}
  /\ block' = [block EXCEPT ![b] = "running"]

\* Mutant: a failure to start an observation is not caught.
UntracedRaises(b) ==
  /\ client /\ Fails
  /\ UNCHANGED <<span, parent, current, holds>>
  /\ block' = [block EXCEPT ![b] = "raised"]

\* Mutant: an observation that has not started is wrapped all the same.
UntracedHeld(b) ==
  /\ IF client THEN Fails ELSE UNCHANGED failures
  /\ UNCHANGED <<span, parent, current>>
  /\ holds' = holds \cup {b}
  /\ block' = [block EXCEPT ![b] = "running"]

\* It does not start, or tracing is off: the block runs on _NOOP.
Untraced(b) ==
  /\ IF client THEN Fails ELSE UNCHANGED failures
  /\ UNCHANGED <<span, parent, current, holds>>
  /\ block' = [block EXCEPT ![b] = "running"]

\* Mutant: Exception only is marked, which a cancellation is not.
MarksExceptions(end, marked) == marked \/ end = "raised"

\* The application has marked the observation, or _mark_error does.
Marks(end, marked) == marked \/ end \in Raised

\* Block b ends as `end`, and its observation with it.  An update that fails is
\* logged and records nothing.
Leave(b, end, marked) ==
  /\ block' = [block EXCEPT ![b] = end]
  /\ UNCHANGED <<parent, holds>>
  /\ IF b \in holds
       THEN /\ \/ /\ span' = [span EXCEPT ![b] = IF Marks(end, marked) THEN "error" ELSE "ended"]
                  /\ UNCHANGED <<failures, lost>>
               \/ /\ Fails
                  /\ span' = [span EXCEPT ![b] = "ended"]
                  /\ lost' = lost \cup {b}
            /\ current' = [current EXCEPT ![Task(b)] = parent[b]]
       ELSE UNCHANGED <<span, current, failures, lost>>

----------------------------------------------------------------------------
(* The steps of a claim.                                                   *)

\* Mutant: gather returns as soon as a judge has been cancelled.
JudgesDoneEarly ==
  \/ \E j \in Judges : block[j] = "cancelled"
  \/ \A j \in Judges : block[j] \in {"idle"} \cup Finished

\* gather(..., return_exceptions=True) waits for both judges.
JudgesDone == \A j \in Judges : block[j] \in {"idle"} \cup Finished

\* Nothing runs inside block b.
Innermost(b) ==
  /\ block[b] = "running"
  /\ \A s \in Inner(b) \ Judges : block[s] # "running"
  /\ b = "evaluate" => JudgesDone

\* An exception of s is caught around it: retrieval is best effort, gather
\* returns the judges' exceptions, a failed Supreme Court rejects.
Caught(s) == block[s] = "raised" /\ s \in {"retrieve", "court"} \cup Judges

\* ... and that of the refund only when it is a RefundExecutionError.
MayBeCaught(s) == Caught(s) \/ (block[s] = "raised" /\ s = "execute")

Proceeds(b) == \A s \in Inner(b) : block[s] \in Raised => MayBeCaught(s)

\* Mutant: a failed propagation leaves the observation of the claim running.
PropagateFailsOpen ==
  /\ span' = [b \in Blocks |-> IF b = "claim" THEN "open" ELSE "none"]
  /\ current' = [current EXCEPT !["worker"] = "claim"]
  /\ holds' = {}

\* The observation of the claim has started, propagate_attributes fails, and
\* the stack is closed: the claim runs untraced.
PropagateFails ==
  /\ span' = [b \in Blocks |-> IF b = "claim" THEN "ended" ELSE "none"]
  /\ UNCHANGED current
  /\ holds' = {}

\* A claim the worker has made its own: claim_trace.
BeginClaim ==
  /\ block["claim"] \in {"idle"} \cup Finished
  /\ ~cancelled
  /\ block' = [b \in Blocks |-> IF b = "claim" THEN "running" ELSE "idle"]
  /\ parent' = [b \in Blocks |-> IF b = "claim" THEN current["worker"] ELSE None]
  /\ lost' = {} /\ faults' = {}
  /\ \/ /\ client /\ failures' = 0
        /\ span' = [b \in Blocks |-> IF b = "claim" THEN "open" ELSE "none"]
        /\ current' = [current EXCEPT !["worker"] = "claim"]
        /\ holds' = {"claim"}
     \/ client /\ failures' = 1 /\ PropagateFails
     \/ /\ failures' = IF client THEN 1 ELSE 0
        /\ span' = [b \in Blocks |-> "none"]
        /\ UNCHANGED current
        /\ holds' = {}
  /\ UNCHANGED <<client, cancelled>>

\* Steps that come after b.
After(b) ==
  LET order == <<"scan", "retrieve", "propose", "verify", "evaluate", "reconsider", "execute">>
  IN {order[j] : j \in {k \in DOMAIN order : \E i \in 1 .. k - 1 : order[i] = b}}

Gone(b) == block[b] \in Finished

\* What must have happened before the code gets to block b.  A claim without a
\* text is not scanned; one without an order or an amount is not verified.
Ready(b) ==
  CASE b = "scan"       -> TRUE
    [] b = "retrieve"   -> Gone("scan")
    [] b = "propose"    -> Gone("retrieve")
    [] b = "verify"     -> Gone("propose") \/ block["scan"] = "idle"
    [] b = "evaluate"   -> Gone("verify") \/ Gone("propose") \/ block["scan"] = "idle"
    [] b = "reconsider" -> Gone("evaluate")
    [] b = "execute"    -> Gone("evaluate") /\ Gone("verify") /\ block["reconsider"] = "idle"
    [] b = "embed"      -> TRUE
    [] b = "court"      -> \A j \in Judges : Gone(j)
    [] OTHER            -> FALSE

\* The block's `with observe(...)`.
Enter(b) ==
  /\ b \notin Judges
  /\ block[b] = "idle"
  /\ Outer(b) # None
  /\ Innermost(Outer(b)) /\ Proceeds(Outer(b))
  /\ Ready(b)
  /\ b \in Steps => \A s \in After(b) : block[s] = "idle"
  /\ Traced(b) \/ Untraced(b)
  /\ UNCHANGED <<client, lost, faults, cancelled>>

\* A task starts with a copy of its creator's context.
InheritedContext == [t \in Tasks |-> current["worker"]]

\* _evaluate: gather makes a task of each judge.
Gather ==
  /\ block["evaluate"] = "running"
  /\ \A j \in Judges : block[j] = "idle"
  /\ block' = [b \in Blocks |-> IF b \in Judges THEN "spawned" ELSE block[b]]
  /\ current' = InheritedContext
  /\ UNCHANGED <<client, span, parent, holds, failures, lost, faults, cancelled>>

EnterJudge(j) ==
  /\ block[j] = "spawned"
  /\ Traced(j) \/ Untraced(j)
  /\ UNCHANGED <<client, lost, faults, cancelled>>

\* Block b has done what it is for; a judge, the Supreme Court and the evidence
\* check mark an error they have dealt with.
Return(b) ==
  /\ Innermost(b) /\ Proceeds(b)
  /\ b = "evaluate" => \A j \in Judges : Gone(j)
  /\ \E failed \in IF b \in Judges \cup {"court", "verify"} THEN BOOLEAN ELSE {FALSE} :
       /\ Leave(b, "returned", failed)
       /\ faults' = IF failed THEN faults \cup {b} ELSE faults
  /\ UNCHANGED <<client, cancelled>>

\* The application raises in b itself.  The guard, the proposer and the judges
\* catch what they raise.
Raise(b) ==
  /\ b \in {"claim", "retrieve", "embed", "verify", "evaluate", "execute"}
  /\ Innermost(b) /\ Proceeds(b)
  /\ Leave(b, "raised", FALSE)
  /\ faults' = faults \cup {b}
  /\ UNCHANGED <<client, cancelled>>

\* An exception of a block inside b comes through b.
Pass(b) ==
  /\ Innermost(b)
  /\ \E s \in Inner(b) :
       /\ block[s] \in Raised /\ ~Caught(s)
       /\ \A z \in Inner(b) : block[z] = "cancelled" => block[s] = "cancelled"
       /\ Leave(b, block[s], FALSE)
  /\ UNCHANGED <<client, faults, cancelled>>

\* An interrupt: asyncio.run cancels the main task.
Interrupt ==
  /\ ~cancelled
  /\ cancelled' = TRUE
  /\ UNCHANGED <<client, block, span, parent, current, holds, failures, lost, faults>>

\* The cancellation reaches the block its task is in.  A gather passes it on to
\* the judges; one that has not begun never runs.
Cancelled(b) ==
  /\ cancelled
  /\ \/ /\ Innermost(b)
        /\ Leave(b, "cancelled", FALSE)
     \/ /\ block[b] = "spawned"
        /\ block' = [block EXCEPT ![b] = "cancelled"]
        /\ UNCHANGED <<span, parent, current, holds, failures, lost>>
  /\ UNCHANGED <<client, faults, cancelled>>

Next ==
  \/ BeginClaim \/ Gather \/ Interrupt
  \/ \E j \in Judges : EnterJudge(j)
  \/ \E b \in Blocks : Enter(b) \/ Return(b) \/ Raise(b) \/ Pass(b) \/ Cancelled(b)

Spec == Init /\ [][Next]_vars

----------------------------------------------------------------------------
(* Properties.                                                             *)

\* The observation of the nearest block around b that has one.
Nearest(b) ==
  IF Outer(b) \in holds THEN Outer(b) ELSE IF "claim" \in holds THEN "claim" ELSE None

\* The trace has the shape of the program whatever the SDK fails at and however
\* the judges' tasks interleave: an observation is nested in the nearest block
\* around it that has one, and ends before that one, also when an interrupt
\* finds one judge done and the other not.
ShapedAsTheProgram ==
  \A b \in holds \ {"claim"} :
    /\ parent[b] = Nearest(b)
    /\ span[b] = "open" /\ parent[b] # None => span[parent[b]] = "open"

\* Once a claim is over, however it ended, nothing of its trace is left in the
\* worker for the next claim or for shutdown_tracing: no open observation, no
\* current one, no judge on its way.
NothingLeft ==
  block["claim"] \in {"idle"} \cup Finished =>
    /\ \A b \in Blocks : span[b] # "open"
    /\ current["worker"] = None
    /\ \A j \in Judges : block[j] \notin {"spawned", "running"}

\* "application errors still propagate unchanged, after being marked on the
\* observation as level ERROR": an observation shows an error if and only if
\* its block failed, cancellations included, unless the SDK lost the update.
ErrorIffFailed ==
  \A b \in holds \ lost :
    block[b] \in Finished => (span[b] = "error" <=> block[b] \in Raised \/ b \in faults)

\* "Tracing never changes the outcome": a block raises only what the application
\* raised in it or what came through a block inside it, is cancelled only by an
\* interrupt, and returns only if nothing went wrong that the code does not
\* catch.
SameAsUntraced ==
  \A b \in Blocks :
    /\ block[b] = "raised" =>
         b \in faults \/ \E s \in Inner(b) : block[s] = "raised" /\ ~Caught(s)
    /\ block[b] = "cancelled" => cancelled
    /\ block[b] = "returned" =>
         /\ b \in faults => b \in Judges \cup {"court", "verify"}
         /\ Proceeds(b)
=============================================================================
