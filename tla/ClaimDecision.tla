--------------------------- MODULE ClaimDecision ---------------------------
(***************************************************************************)
(* What one worker does with one claim between its claim of the row and    *)
(* its final write: src/worker/worker.py process_message, steps 2 to 5.    *)
(*                                                                         *)
(* ClaimPipeline abstracts all of this to DecideAgainst and Approve.  Here *)
(* every language model, the database and the MCP server answer whatever   *)
(* they can answer; the two base judges answer in either order.            *)
(***************************************************************************)
EXTENDS Naturals

VARIABLES
  claim,      \* what the message carries
  d,          \* the locals of process_message, with d.pc the step it is at
  db,         \* the worker's session: "closed", "open" (in a transaction) or "aborted"
  paid,       \* execute_refund has run for this claim
  row         \* the row in `transactions`

vars == <<claim, d, db, paid, row>>

\* claim_text may be "", only blanks, or words.  order_id and amount are
\* optional; user_id may be the empty string.
Claims == [text : {"empty", "blank", "words"}, order : BOOLEAN, amount : BOOLEAN,
           user : BOOLEAN]

\* `body.get("order_id") and body.get("amount")`
HasRefundDetails == claim.order /\ claim.amount
HasText == claim.text # "empty"

Steps == {"scan", "embed", "query", "retrieved", "propose", "evidence", "build",
          "judging", "supreme", "reclassify", "execute", "block", "write",
          "done", "failed"}

\* A probability below the threshold, one at or above it, the text "nan" (or
\* "-inf"), "inf", text that is no number, or an exception.
GuardReplies == {"low", "high", "nan", "inf", "text", "error"}

Guards    == {"none", "clear", "blocked", "skipped"}
Intents   == {"refund", "clarify", "out_of_scope"}
Evidences == {"none", "passed", "failed", "unavailable"}
Votes     == {"none", "APPROVE", "REJECT"}
Outcomes  == {"none", "executed", "failed", "not_executable"}
Statuses  == {"PROCESSING", "BLOCKED_MALICIOUS_PROMPT", "NEEDS_CLARIFICATION",
              "PENDING_HUMAN_REVIEW", "COMPLETED", "EXECUTION_FAILED"}
Judges    == {"judge1", "judge2", "supreme_court"}
BaseJudges == {"judge1", "judge2"}

\* judge_trail: a part that was never filled in is "none".
Trails == [prompt_guard : Guards, front_desk : Intents \cup {"none"},
           front_desk_retry : Intents \cup {"none"}, evidence : Evidences,
           votes : [Judges -> Votes], execution : Outcomes]

NoVotes == [j \in Judges |-> "none"]
NoTrail == [prompt_guard |-> "none", front_desk |-> "none", front_desk_retry |-> "none",
            evidence |-> "none", votes |-> NoVotes, execution |-> "none"]

Locals == [pc : Steps, scan : GuardReplies \cup {"none"}, guard : Guards, policy : BOOLEAN,
           proposal : Intents \cup {"none"}, retry : Intents \cup {"none"},
           evidence : Evidences, votes : [Judges -> Votes], execution : Outcomes,
           erred : SUBSET Judges]

TypeOK ==
  /\ claim \in Claims
  /\ d \in Locals
  /\ db \in {"closed", "open", "aborted"}
  /\ paid \in BOOLEAN
  /\ row \in [status : Statuses, trail : Trails]

\* The row has just been inserted and committed.
Init ==
  /\ claim \in Claims
  /\ d = [pc |-> "scan", scan |-> "none", guard |-> "none", policy |-> FALSE,
          proposal |-> "none", retry |-> "none", evidence |-> "none", votes |-> NoVotes,
          execution |-> "none", erred |-> {}]
  /\ db = "closed"
  /\ paid = FALSE
  /\ row = [status |-> "PROCESSING", trail |-> NoTrail]

----------------------------------------------------------------------------
(* Answers of the models, and what the code makes of them.                 *)

\* Mutant: a failed scan reports its own status, one the trail does not know.
GuardStatusUnmapped(reply) ==
  CASE reply \in {"high", "inf"} -> "blocked"
    [] reply \in {"low", "nan"}  -> "clear"
    [] OTHER                     -> "error"

\* Mutant: the guard fails open, and says that it let the text through.
GuardStatusFailsClear(reply) ==
  IF reply \in {"high", "inf"} THEN "blocked" ELSE "clear"

\* float("nan") >= threshold is False: an answer of nan is "clear".
GuardStatus(reply) ==
  CASE reply \in {"high", "inf"} -> "blocked"
    [] reply \in {"low", "nan"}  -> "clear"
    [] OTHER                     -> "skipped"

\* A proposal and how many of order_id, amount and currency it carries.  The
\* intent "unusable" is any other intent, text that is no proposal, or an exception.
ProposalReplies ==
  [intent : Intents \cup {"unusable"}, fields : {"all", "some", "none"}]

\* ClaimProposal(**raw) raises nothing.
ValidProposal(reply) ==
  \/ reply.intent = "refund" /\ reply.fields = "all"
  \/ reply.intent \in {"clarify", "out_of_scope"} /\ reply.fields = "none"

\* Never raises: an unusable reply becomes a question to the customer.
ProposedIntent(reply) ==
  IF ValidProposal(reply) THEN reply.intent ELSE "clarify"

\* A verdict, text without a usable verdict, or an exception.
JudgeReplies == {"APPROVE", "REJECT", "unusable", "error"}

\* Mutant: a judge that cannot answer does not stand in the way.
VerdictFailsOpen(reply) == IF reply = "REJECT" THEN "REJECT" ELSE "APPROVE"

\* parse_verdict, and the except of _invoke_judge.
Verdict(reply) == IF reply = "APPROVE" THEN "APPROVE" ELSE "REJECT"

----------------------------------------------------------------------------
(* The shield and the retrieval.                                           *)

At(step) == d.pc = step
Goto(step) == d' = [d EXCEPT !.pc = step]

\* scan_for_injection, only for a claim with text.
Scan ==
  /\ At("scan") /\ HasText
  /\ \E reply \in GuardReplies :
       LET status == GuardStatus(reply) IN
       d' = [d EXCEPT !.scan = reply, !.guard = status,
                      !.pc = IF status = "blocked" THEN "block" ELSE "embed"]
  /\ UNCHANGED <<claim, db, paid, row>>

\* Without text there is no scan, no retrieval and no Front-Desk.
SkipText ==
  /\ At("scan") /\ ~HasText
  /\ Goto("evidence")
  /\ UNCHANGED <<claim, db, paid, row>>

\* retrieve_relevant_policy up to its query.  Blank text needs no embedding;
\* an exception of the embeddings client skips the retrieval.
Embed ==
  /\ At("embed")
  /\ \/ claim.text = "words" /\ Goto("query")
     \/ Goto("retrieved")
  /\ UNCHANGED <<claim, db, paid, row>>

\* find_most_similar opens a transaction.  It finds a chunk or none, or fails
\* and leaves the transaction aborted.
Query ==
  /\ At("query")
  /\ \/ db' = "open" /\ \E found \in BOOLEAN : d' = [d EXCEPT !.pc = "retrieved",
                                                              !.policy = found]
     \/ db' = "aborted" /\ Goto("retrieved")
  /\ UNCHANGED <<claim, paid, row>>

\* Mutant: the transaction of the retrieval is left as it is.
AfterRetrievalKept == db

\* db_session.rollback()
AfterRetrieval == "closed"

\* The rollback itself may raise: outer except, and the session is closed.
EndRetrieval ==
  /\ At("retrieved")
  /\ \/ db' = AfterRetrieval /\ Goto("propose")
     \/ db' = "closed" /\ Goto("failed")
  /\ UNCHANGED <<claim, paid, row>>

----------------------------------------------------------------------------
(* The Front-Desk and the evidence check.                                  *)

\* front_desk_intent: the intent of the latest proposal that is not a refund.
FrontDeskIntent ==
  IF d.retry # "none" THEN d.retry
  ELSE IF d.proposal = "refund" THEN "none" ELSE d.proposal

Propose ==
  /\ At("propose")
  /\ \E reply \in ProposalReplies :
       d' = [d EXCEPT !.proposal = ProposedIntent(reply), !.pc = "evidence"]
  /\ UNCHANGED <<claim, db, paid, row>>

\* verify_claim_evidence.  A claim without user_id fails before any call; an
\* outage of the MCP server makes the evidence unavailable.
CheckEvidence ==
  /\ At("evidence") /\ FrontDeskIntent = "none" /\ HasRefundDetails
  /\ \E result \in IF claim.user THEN Evidences \ {"none"} ELSE {"failed"} :
       d' = [d EXCEPT !.evidence = result, !.pc = "build"]
  /\ UNCHANGED <<claim, db, paid, row>>

SkipEvidence ==
  /\ At("evidence") /\ (FrontDeskIntent # "none" \/ ~HasRefundDetails)
  /\ Goto("build")
  /\ UNCHANGED <<claim, db, paid, row>>

\* Mutant: the judges are asked whatever the evidence check found.
GoesToJudgesRegardless == FrontDeskIntent = "none"

GoesToJudges ==
  /\ d.evidence \notin {"failed", "unavailable"}
  /\ FrontDeskIntent = "none"

\* get_llm() of the primary model, whose result is not used.  Without
\* credentials it raises: the outer except nacks, the row stays PROCESSING.
BuildLlm ==
  /\ At("build")
  /\ \/ Goto(IF GoesToJudges THEN "judging" ELSE "write")
     \/ Goto("failed")
  /\ UNCHANGED <<claim, db, paid, row>>

----------------------------------------------------------------------------
(* The judges.                                                             *)

\* One of the two base judges, run concurrently, answers.
JudgeAnswers(j) ==
  /\ At("judging") /\ d.votes[j] = "none"
  /\ \E reply \in JudgeReplies :
       d' = [d EXCEPT !.votes[j] = Verdict(reply),
                      !.erred = IF reply \in {"unusable", "error"} THEN @ \cup {j} ELSE @]
  /\ UNCHANGED <<claim, db, paid, row>>

Agreed == \A j \in BaseJudges : d.votes[j] = "APPROVE"

\* gather() returns: two approvals decide, anything else is escalated.
JudgesReturn ==
  /\ At("judging") /\ \A j \in BaseJudges : d.votes[j] # "none"
  /\ Goto(IF Agreed THEN "execute" ELSE "supreme")
  /\ UNCHANGED <<claim, db, paid, row>>

\* The Supreme Court's verdict is final.  If even its provider cannot be
\* resolved, the claim is rejected and the trail has no vote of it.
SupremeAnswers ==
  /\ At("supreme")
  /\ \/ \E reply \in JudgeReplies :
          d' = [d EXCEPT !.votes["supreme_court"] = Verdict(reply),
                         !.erred = IF reply \in {"unusable", "error"}
                                     THEN @ \cup {"supreme_court"} ELSE @,
                         !.pc = IF Verdict(reply) = "APPROVE" THEN "execute" ELSE "reclassify"]
     \/ Goto("reclassify")
  /\ UNCHANGED <<claim, db, paid, row>>

\* After a rejection the Front-Desk looks once more, also at a claim without
\* text.  An answer that is no refund supersedes its first one.
Reclassify ==
  /\ At("reclassify")
  /\ \E reply \in ProposalReplies :
       LET intent == ProposedIntent(reply) IN
       d' = [d EXCEPT !.retry = IF intent = "refund" THEN "none" ELSE intent, !.pc = "write"]
  /\ UNCHANGED <<claim, db, paid, row>>

----------------------------------------------------------------------------
(* Execution and the final write.                                          *)

\* The refund goes to the MCP server with the claim's own fields.  A call that
\* fails on every attempt may still have been executed.
Execute ==
  /\ At("execute")
  /\ IF HasRefundDetails
       THEN \/ paid' = TRUE /\ d' = [d EXCEPT !.execution = "executed", !.pc = "write"]
            \/ paid' \in BOOLEAN /\ d' = [d EXCEPT !.execution = "failed", !.pc = "write"]
       ELSE paid' = paid /\ d' = [d EXCEPT !.execution = "not_executable", !.pc = "write"]
  /\ UNCHANGED <<claim, db, row>>

\* Mutant: the refund call is taken for done once it has been made.
FinalStatusOptimistic ==
  CASE d.execution \in {"executed", "failed"} -> "COMPLETED"
    [] OTHER -> IF FrontDeskIntent = "clarify" THEN "NEEDS_CLARIFICATION"
                                               ELSE "PENDING_HUMAN_REVIEW"

\* Mutant: the question of the first proposal is asked, not that of the retry.
FinalStatusOfFirstProposal ==
  CASE d.execution = "executed" -> "COMPLETED"
    [] d.execution = "failed"   -> "EXECUTION_FAILED"
    [] OTHER -> IF d.proposal = "clarify" THEN "NEEDS_CLARIFICATION"
                                          ELSE "PENDING_HUMAN_REVIEW"

FinalStatus ==
  CASE d.execution = "executed" -> "COMPLETED"
    [] d.execution = "failed"   -> "EXECUTION_FAILED"
    [] OTHER -> IF FrontDeskIntent = "clarify" THEN "NEEDS_CLARIFICATION"
                                               ELSE "PENDING_HUMAN_REVIEW"

FinalTrail ==
  [prompt_guard     |-> d.guard,
   front_desk       |-> d.proposal,
   front_desk_retry |-> d.retry,
   evidence         |-> d.evidence,
   votes            |-> d.votes,
   execution        |-> d.execution]

\* judge_trail is JSONB, which has no NaN and no Infinity: a trail with the score
\* of such an answer is refused by the database, and only WriteFails is left.
Storable == d.scan \notin {"nan", "inf"}

\* SELECT FOR UPDATE, status and trail, commit.
WriteFinal ==
  /\ At("write") /\ db # "aborted" /\ Storable
  /\ row' = [status |-> FinalStatus, trail |-> FinalTrail]
  /\ db' = "closed"
  /\ Goto("done")
  /\ UNCHANGED <<claim, paid>>

\* The write of a claim the shield has blocked: its own transaction and a
\* trail with the guard's entry alone.
WriteBlocked ==
  /\ At("block") /\ Storable
  /\ row' = [status |-> "BLOCKED_MALICIOUS_PROMPT",
             trail |-> [NoTrail EXCEPT !.prompt_guard = "blocked"]]
  /\ db' = "closed"
  /\ Goto("done")
  /\ UNCHANGED <<claim, paid>>

\* The row is gone, the database is, the transaction is aborted, or the trail
\* cannot be stored: outer except, the row stays PROCESSING.
WriteFails ==
  /\ d.pc \in {"write", "block"}
  /\ Goto("failed")
  /\ db' = "closed"
  /\ UNCHANGED <<claim, paid, row>>

Next ==
  \/ Scan \/ SkipText \/ Embed \/ Query \/ EndRetrieval
  \/ Propose \/ CheckEvidence \/ SkipEvidence \/ BuildLlm
  \/ \E j \in BaseJudges : JudgeAnswers(j)
  \/ JudgesReturn \/ SupremeAnswers \/ Reclassify
  \/ Execute \/ WriteFinal \/ WriteBlocked \/ WriteFails

Spec == Init /\ [][Next]_vars

----------------------------------------------------------------------------
(* The dashboard's reading of a trail, src/ui/trail.py.                    *)

\* describe_clarification_question returns a question.
ShowsQuestion(trail) ==
  IF trail.front_desk_retry # "none" THEN trail.front_desk_retry = "clarify"
                                     ELSE trail.front_desk = "clarify"

----------------------------------------------------------------------------
(* Properties.                                                             *)

\* The judges who answered and approved.
Approvals == {j \in Judges : d.votes[j] = "APPROVE"} \ d.erred

\* "The LLM never pushes the button": the refund call runs only for a claim the
\* shield let through, the Front-Desk reads as a refund (if it has text), the
\* evidence check passed, and two base judges or the Supreme Court really
\* approved; no error of a model stands for an approval.
RefundEarned ==
  /\ d.guard # "blocked"
  /\ HasText => d.proposal = "refund"
  /\ d.evidence = "passed"
  /\ BaseJudges \subseteq Approvals \/ "supreme_court" \in Approvals

RefundOnlyWhenEarned == [][paid' # paid => RefundEarned]_vars

\* "the judges are not called": no judge has voted on a claim whose evidence
\* failed or could not be had, or that the Front-Desk did not read as a refund.
NoVoteOnFailedEvidence ==
  (\E j \in Judges : d.votes[j] # "none") =>
    d.evidence \notin {"failed", "unavailable"} /\ d.proposal \in {"none", "refund"}

\* No transaction stays open, and none stays aborted, while the worker waits
\* for models and the MCP server after the retrieval.
NoTransactionWhileWaiting ==
  d.pc \in {"propose", "evidence", "build", "judging", "supreme", "reclassify",
            "execute", "write"} => db = "closed"

\* The dashboard shows a question exactly for the rows that wait for an answer.
QuestionIffClarification ==
  d.pc = "done" => (row.status = "NEEDS_CLARIFICATION" <=> ShowsQuestion(row.trail))

\* The stored trail accounts for the claim.  It "never presents an unscanned
\* input as a clean one": it says clear only of a text the guard scored with a
\* number below the threshold, and skipped of every text it could not score.
\* And a claim goes to a human only with its reason on the trail (a Front-Desk
\* reading, failed evidence, a rejection or a refund that cannot be executed).
TrailAccounts ==
  d.pc = "done" =>
    LET t == row.trail IN
    /\ t.prompt_guard = "clear" <=> d.scan = "low"
    /\ t.prompt_guard = "skipped" <=> d.scan \in {"text", "error"}
    /\ t.prompt_guard = "none" <=> ~HasText
    /\ row.status = "PENDING_HUMAN_REVIEW" =>
         \/ "out_of_scope" \in {t.front_desk, t.front_desk_retry}
         \/ t.evidence \in {"failed", "unavailable"}
         \/ \E j \in BaseJudges : t.votes[j] = "REJECT"
         \/ t.execution = "not_executable"

\* For this claim the worker keeps the promise of ClaimService: one final
\* status, COMPLETED only with the refund made, whatever models, database and
\* MCP server answer.
Service == INSTANCE ClaimService WITH
  Requests    <- {"claim"},
  Revisable   <- FALSE,
  Conclusions <- Statuses \ {"PROCESSING"},
  verdict     <- [r \in {"claim"} |-> IF row.status = "PROCESSING" THEN "open" ELSE row.status],
  refunded    <- [r \in {"claim"} |-> IF paid THEN 1 ELSE 0]

ServiceSpec == Service!Spec
=============================================================================
