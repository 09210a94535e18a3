------------------------ MODULE ClaimDecisionProofs ------------------------
(***************************************************************************)
(* Proofs about ClaimDecision: what a claim has been through at each step. *)
(***************************************************************************)
EXTENDS ClaimDecision, TLAPS

LEMMA Answers ==
  /\ \A reply \in GuardReplies : GuardStatus(reply) \in {"clear", "blocked", "skipped"}
  /\ \A reply \in ProposalReplies : ProposedIntent(reply) \in Intents
  /\ \A reply \in JudgeReplies : Verdict(reply) \in {"APPROVE", "REJECT"}
  BY DEF GuardReplies, GuardStatus, ProposalReplies, ProposedIntent, ValidProposal, Intents,
         JudgeReplies, Verdict

\* What an answer of the guard with a score that can be stored, or with none, is
\* taken for.
LEMMA Scored ==
  /\ GuardStatus("low") = "clear" /\ GuardStatus("high") = "blocked"
  /\ \A reply \in {"text", "error"} : GuardStatus(reply) = "skipped"
  BY DEF GuardStatus

LEMMA FrontDeskIntents == TypeOK => FrontDeskIntent \in Intents \cup {"none"}
  BY DEF TypeOK, Locals, FrontDeskIntent, Intents

LEMMA Finals ==
  ASSUME TypeOK
  PROVE  FinalStatus \in Statuses \ {"PROCESSING"} /\ FinalTrail \in Trails
<1>1. FinalStatus \in Statuses \ {"PROCESSING"}
  BY DEF FinalStatus, Statuses
<1>2. FinalTrail \in Trails
  BY DEF TypeOK, Locals, FinalTrail, Trails
<1>3. QED
  BY <1>1, <1>2

\* What a step that is told something does to the locals.
LEMMA QueryChanges ==
  TypeOK /\ Query => \E found \in BOOLEAN : d' = [d EXCEPT !.pc = "retrieved", !.policy = found]
<1> SUFFICES ASSUME TypeOK, Query
             PROVE  \E found \in BOOLEAN : d' = [d EXCEPT !.pc = "retrieved", !.policy = found]
  OBVIOUS
<1>1. CASE \E found \in BOOLEAN : d' = [d EXCEPT !.pc = "retrieved", !.policy = found]
  BY <1>1
<1>2. CASE d' = [d EXCEPT !.pc = "retrieved"]
  <2>1. d \in Locals
    BY DEF TypeOK
  <2>2. d.policy \in BOOLEAN /\ d' = [d EXCEPT !.pc = "retrieved", !.policy = d.policy]
    BY <1>2, <2>1 DEF Locals
  <2>3. QED
    BY <2>2
<1>3. QED
  BY <1>1, <1>2 DEF Query, Goto

LEMMA ProposeChanges ==
  Propose => \E x \in Intents : d' = [d EXCEPT !.proposal = x, !.pc = "evidence"]
  BY Answers DEF Propose

\* What the scan and the first reading change, and what they leave.
LEMMA ScanFields ==
  ASSUME d \in Locals, NEW reply,
         d' = [d EXCEPT !.scan = reply, !.guard = GuardStatus(reply),
                        !.pc = IF GuardStatus(reply) = "blocked" THEN "block" ELSE "embed"]
  PROVE  /\ d'.scan = reply /\ d'.guard = GuardStatus(reply)
         /\ d'.pc = IF GuardStatus(reply) = "blocked" THEN "block" ELSE "embed"
         /\ d'.proposal = d.proposal /\ d'.retry = d.retry /\ d'.evidence = d.evidence
         /\ d'.votes = d.votes /\ d'.execution = d.execution /\ d'.erred = d.erred
  BY DEF Locals

LEMMA ProposeFields ==
  ASSUME d \in Locals, NEW x, d' = [d EXCEPT !.proposal = x, !.pc = "evidence"]
  PROVE  /\ d'.proposal = x /\ d'.pc = "evidence"
         /\ d'.scan = d.scan /\ d'.guard = d.guard /\ d'.retry = d.retry
         /\ d'.evidence = d.evidence
         /\ d'.votes = d.votes /\ d'.execution = d.execution /\ d'.erred = d.erred
  BY DEF Locals

LEMMA EvidenceChanges ==
  CheckEvidence => \E x \in Evidences : d' = [d EXCEPT !.evidence = x, !.pc = "build"]
  BY DEF CheckEvidence, Evidences

Ruled(reply) ==
  d' = [d EXCEPT !.votes["supreme_court"] = Verdict(reply),
                 !.erred = IF reply \in {"unusable", "error"} THEN @ \cup {"supreme_court"} ELSE @,
                 !.pc = IF Verdict(reply) = "APPROVE" THEN "execute" ELSE "reclassify"]

LEMMA SupremeChanges ==
  SupremeAnswers => d' = [d EXCEPT !.pc = "reclassify"] \/ \E reply \in JudgeReplies : Ruled(reply)
  BY DEF SupremeAnswers, Goto, Ruled

LEMMA ReclassifyChanges ==
  Reclassify => \E x \in {"clarify", "out_of_scope", "none"} :
                  d' = [d EXCEPT !.retry = x, !.pc = "write"]
<1> SUFFICES ASSUME Reclassify
             PROVE  \E x \in {"clarify", "out_of_scope", "none"} :
                      d' = [d EXCEPT !.retry = x, !.pc = "write"]
  OBVIOUS
<1>1. PICK reply \in ProposalReplies :
        d' = [d EXCEPT !.retry = IF ProposedIntent(reply) = "refund" THEN "none"
                                 ELSE ProposedIntent(reply), !.pc = "write"]
  BY DEF Reclassify
<1>2. ProposedIntent(reply) \in {"refund", "clarify", "out_of_scope"}
  BY Answers DEF Intents
<1>3. QED
  BY <1>1, <1>2

LEMMA InitType == Init => TypeOK
<1> SUFFICES ASSUME Init PROVE TypeOK
  OBVIOUS
<1>1. NoVotes \in [Judges -> Votes] /\ NoTrail \in Trails
  BY DEF NoVotes, NoTrail, Trails, Judges, Votes, Guards, Intents, Evidences, Outcomes
<1>2. d \in Locals
  BY <1>1 DEF Init, Locals, Steps, Guards, Evidences, Outcomes
<1>3. row \in [status : Statuses, trail : Trails]
  BY <1>1 DEF Init, Statuses
<1>4. QED
  BY <1>2, <1>3 DEF Init, TypeOK

LEMMA NextType == TypeOK /\ [Next]_vars => TypeOK'
<1>1. SUFFICES ASSUME TypeOK, [Next]_vars PROVE TypeOK'
  OBVIOUS
<1>d. d \in Locals
  BY <1>1 DEF TypeOK
<1>2. CASE UNCHANGED vars
  BY <1>1, <1>2 DEF vars, TypeOK
<1> DEFINE SameRow == claim' = claim /\ row' = row
<1>s. ASSUME SameRow, d' \in Locals, paid' \in BOOLEAN, db' \in {"closed", "open", "aborted"}
      PROVE  TypeOK'
  BY <1>1, <1>s DEF TypeOK
<1>t. db \in {"closed", "open", "aborted"} /\ paid \in BOOLEAN
  BY <1>1 DEF TypeOK
<1> HIDE DEF SameRow
<1> USE <1>d, <1>t DEF Goto, Steps
<1>3. CASE Scan
  <2>1. PICK reply \in GuardReplies :
          d' = [d EXCEPT !.scan = reply, !.guard = GuardStatus(reply),
                         !.pc = IF GuardStatus(reply) = "blocked" THEN "block" ELSE "embed"]
    BY <1>3 DEF Scan
  <2>2. d' \in Locals
    BY <2>1, Answers DEF Locals, Guards
  <2>3. QED
    BY <1>3, <1>s, <2>2 DEF Scan, SameRow
<1>4. CASE SkipText \/ Embed \/ EndRetrieval
  <2>1. d' \in Locals
    <3>1. PICK s \in Steps : d' = [d EXCEPT !.pc = s]
      BY <1>4 DEF SkipText, Embed, EndRetrieval
    <3>2. QED
      BY <3>1 DEF Locals
  <2>2. SameRow /\ paid' = paid /\ db' \in {db, "closed"}
    <3>1. CASE SkipText
      BY <3>1 DEF SkipText, SameRow
    <3>2. CASE Embed
      BY <3>2 DEF Embed, SameRow
    <3>3. CASE EndRetrieval
      BY <3>3 DEF EndRetrieval, AfterRetrieval, SameRow
    <3>4. QED
      BY <1>4, <3>1, <3>2, <3>3
  <2>3. QED
    BY <1>s, <2>1, <2>2
<1>5. CASE Query
  <2>1. d' \in Locals
    <3>1. PICK found \in BOOLEAN : d' = [d EXCEPT !.pc = "retrieved", !.policy = found]
      BY <1>1, <1>5, QueryChanges
    <3>2. QED
      BY <3>1 DEF Locals
  <2>2. QED
    BY <1>5, <1>s, <2>1 DEF Query, SameRow
<1>6. CASE Propose
  <2>1. PICK reply \in ProposalReplies :
          d' = [d EXCEPT !.proposal = ProposedIntent(reply), !.pc = "evidence"]
    BY <1>6 DEF Propose
  <2>2. d' \in Locals
    BY <2>1, Answers DEF Locals
  <2>3. QED
    BY <1>6, <1>s, <2>2 DEF Propose, SameRow
<1>7. CASE CheckEvidence
  <2>0. PICK x \in Evidences : d' = [d EXCEPT !.evidence = x, !.pc = "build"]
    BY <1>7, EvidenceChanges
  <2>1. d' \in Locals
    BY <2>0 DEF Locals
  <2>2. QED
    BY <1>7, <1>s, <2>1 DEF CheckEvidence, SameRow
<1>8. CASE SkipEvidence \/ BuildLlm \/ JudgesReturn
  BY <1>8, <1>s DEF SkipEvidence, BuildLlm, JudgesReturn, SameRow, Locals
<1>9. ASSUME NEW j \in BaseJudges, JudgeAnswers(j) PROVE TypeOK'
  <2>1. PICK v \in {"APPROVE", "REJECT"}, e \in SUBSET Judges :
          d' = [d EXCEPT !.votes = [@ EXCEPT ![j] = v], !.erred = e]
    <3>1. PICK reply \in JudgeReplies :
            d' = [d EXCEPT !.votes[j] = Verdict(reply),
                           !.erred = IF reply \in {"unusable", "error"} THEN @ \cup {j} ELSE @]
      BY <1>9 DEF JudgeAnswers
    <3>2. (IF reply \in {"unusable", "error"} THEN d.erred \cup {j} ELSE d.erred) \in SUBSET Judges
      BY DEF Locals, BaseJudges, Judges
    <3>3. QED
      BY <3>1, <3>2, Answers
  <2>2. [d.votes EXCEPT ![j] = v] \in [Judges -> Votes]
    BY DEF Locals, Votes, BaseJudges, Judges
  <2>3. d' \in Locals
    BY <2>1, <2>2 DEF Locals
  <2>4. QED
    BY <1>9, <1>s, <2>3 DEF JudgeAnswers, SameRow
<1>10. CASE SupremeAnswers
  <2>1. CASE d' = [d EXCEPT !.pc = "reclassify"]
    BY <1>10, <1>s, <2>1 DEF SupremeAnswers, SameRow, Locals
  <2>2. ASSUME NEW reply \in JudgeReplies,
               d' = [d EXCEPT !.votes["supreme_court"] = Verdict(reply),
                              !.erred = IF reply \in {"unusable", "error"}
                                          THEN @ \cup {"supreme_court"} ELSE @,
                              !.pc = IF Verdict(reply) = "APPROVE" THEN "execute" ELSE "reclassify"]
        PROVE  TypeOK'
    <3>1. [d.votes EXCEPT !["supreme_court"] = Verdict(reply)] \in [Judges -> Votes]
      BY Answers DEF Locals, Votes, Judges
    <3>2. (IF reply \in {"unusable", "error"} THEN d.erred \cup {"supreme_court"} ELSE d.erred)
            \in SUBSET Judges
      BY DEF Locals, Judges
    <3>3. d' \in Locals
      BY <2>2, <3>1, <3>2 DEF Locals
    <3>4. QED
      BY <1>10, <1>s, <3>3 DEF SupremeAnswers, SameRow
  <2>3. QED
    BY <1>10, <2>1, <2>2 DEF SupremeAnswers
<1>11. CASE Reclassify
  <2>1. PICK x \in Intents \cup {"none"} : d' = [d EXCEPT !.retry = x, !.pc = "write"]
    BY <1>11, Answers DEF Reclassify
  <2>2. d' \in Locals
    BY <2>1 DEF Locals
  <2>3. QED
    BY <1>11, <1>s, <2>2 DEF Reclassify, SameRow
<1>12. CASE Execute
  <2>1. PICK x \in Outcomes : d' = [d EXCEPT !.execution = x, !.pc = "write"]
    BY <1>12 DEF Execute, Outcomes
  <2>2. d' \in Locals
    BY <2>1 DEF Locals
  <2>3. paid' \in BOOLEAN
    BY <1>12 DEF Execute
  <2>4. QED
    BY <1>12, <1>s, <2>2, <2>3 DEF Execute, SameRow
<1>13. CASE WriteFinal
  <2>1. row' \in [status : Statuses, trail : Trails]
    BY <1>1, <1>13, Finals DEF WriteFinal
  <2>2. d' \in Locals
    BY <1>13 DEF WriteFinal, Locals
  <2>3. QED
    BY <1>13, <1>1, <2>1, <2>2 DEF WriteFinal, TypeOK
<1>14. CASE WriteBlocked
  <2>1. row' \in [status : Statuses, trail : Trails]
    BY <1>14 DEF WriteBlocked, Statuses, Trails, NoTrail, NoVotes, Guards, Intents, Evidences,
                 Votes, Outcomes
  <2>2. d' \in Locals
    BY <1>14 DEF WriteBlocked, Locals
  <2>3. QED
    BY <1>14, <1>1, <2>1, <2>2 DEF WriteBlocked, TypeOK
<1>15. CASE WriteFails
  BY <1>15, <1>s DEF WriteFails, SameRow, Locals
<1>16. QED
  BY <1>1, <1>2, <1>3, <1>4, <1>5, <1>6, <1>7, <1>8, <1>9, <1>10, <1>11, <1>12, <1>13, <1>14,
     <1>15 DEF Next

\* Whatever models, database and MCP server answer, a claim's state stays
\* within its types (worker.py, process_message).
THEOREM TypeCorrect == Spec => []TypeOK
  BY InitType, NextType, PTL DEF Spec

----------------------------------------------------------------------------
(* What a claim has been through at each step.                             *)

Early    == {"scan", "embed", "query", "retrieved", "propose"}
AtJudges == {"judging", "supreme", "reclassify", "execute"}

\* What came of the scan of the text, and what the shield blocks goes no further.
Shielded ==
  /\ d.pc = "scan" => d.scan = "none"
  /\ d.pc # "scan" => (HasText <=> d.scan # "none")
  /\ d.guard = IF d.scan = "none" THEN "none" ELSE GuardStatus(d.scan)
  /\ d.guard = "blocked" => d.pc \in {"block", "done", "failed"}
  /\ d.pc = "block" => d.guard = "blocked"

\* What has not happened yet.
NotYet ==
  /\ d.pc = "scan" => db = "closed"
  /\ d.pc \in {"judging", "supreme"} => d.votes["supreme_court"] = "none"
  /\ d.pc \in Early => d.proposal = "none"
  /\ d.pc \in Early \cup {"evidence", "build"} => \A j \in Judges : d.votes[j] = "none"
  /\ d.pc \notin {"write", "done", "failed"} => d.retry = "none" /\ d.execution = "none"

ReadAsRefund == d.proposal \in {"none", "refund"}

\* A text has been read by the Front-Desk, a refund it read has its evidence
\* checked, and only a refund with its evidence reaches the judges.
Filtered ==
  /\ d.pc \in AtJudges \cup {"evidence", "build", "write"} => (HasText => d.proposal # "none")
  /\ d.pc = "build" /\ ReadAsRefund /\ HasRefundDetails => d.evidence # "none"
  /\ d.pc \in AtJudges => /\ ReadAsRefund
                          /\ d.evidence \in {"none", "passed"}
                          /\ HasRefundDetails => d.evidence = "passed"
  /\ d.execution # "none" => ReadAsRefund /\ d.retry = "none"
  /\ d.retry # "refund"

\* Why a claim goes where the judges sent it.
Judged ==
  /\ \A j \in d.erred : d.votes[j] = "REJECT"
  /\ d.pc \in {"supreme", "reclassify"} => \E j \in BaseJudges : d.votes[j] = "REJECT"
  /\ d.pc = "execute" => \/ \A j \in BaseJudges : d.votes[j] = "APPROVE"
                         \/ d.votes["supreme_court"] = "APPROVE"
  /\ d.pc = "write" /\ d.execution = "none" =>
       \/ FrontDeskIntent # "none"
       \/ d.evidence \in {"failed", "unavailable"}
       \/ \E j \in BaseJudges : d.votes[j] = "REJECT"

Written == QuestionIffClarification /\ TrailAccounts

Inv ==
  /\ TypeOK /\ Shielded /\ NotYet /\ Filtered /\ Judged /\ Written
  /\ NoVoteOnFailedEvidence /\ NoTransactionWhileWaiting

LEMMA InitInv == Init => Inv
<1> SUFFICES ASSUME Init PROVE Inv
  OBVIOUS
<1>1. TypeOK
  BY InitType
<1>2. Shielded /\ NotYet /\ Filtered /\ Judged /\ Written /\ NoVoteOnFailedEvidence
      /\ NoTransactionWhileWaiting
  BY DEF Init, Shielded, NotYet, Filtered, Judged, Written, QuestionIffClarification, TrailAccounts,
         NoVoteOnFailedEvidence, NoTransactionWhileWaiting, AtJudges, NoVotes, Judges
<1>3. QED
  BY <1>1, <1>2 DEF Inv

\* A step that changes nothing but the locals keeps the row as it was.
LEMMA NextInv == Inv /\ [Next]_vars => Inv'
<1> DEFINE Rest == /\ Shielded /\ NotYet /\ Filtered /\ Judged /\ Written
                   /\ NoVoteOnFailedEvidence /\ NoTransactionWhileWaiting
<1>1. SUFFICES ASSUME Inv, [Next]_vars PROVE Rest'
  BY NextType DEF Inv
<1>t. TypeOK /\ TypeOK' /\ Rest /\ d \in Locals /\ d' \in Locals
  BY <1>1, NextType DEF Inv, TypeOK
<1> USE <1>t DEF Locals, Shielded, NotYet, Filtered, Judged, Written, NoVoteOnFailedEvidence,
                 NoTransactionWhileWaiting, QuestionIffClarification, TrailAccounts, HasText,
                 HasRefundDetails, ReadAsRefund, AtJudges, Early, At, Goto, FrontDeskIntent
<1>2. CASE UNCHANGED vars
  BY <1>2 DEF vars
<1>3. CASE Scan
  <2>1. PICK reply \in GuardReplies :
          d' = [d EXCEPT !.scan = reply, !.guard = GuardStatus(reply),
                         !.pc = IF GuardStatus(reply) = "blocked" THEN "block" ELSE "embed"]
    BY <1>3 DEF Scan
  <2> HIDE DEF Locals
  <2>2. /\ d.pc = "scan" /\ HasText /\ UNCHANGED <<claim, db, paid, row>>
        /\ d'.scan = reply /\ d'.guard = GuardStatus(reply) /\ reply # "none"
        /\ d'.pc = IF GuardStatus(reply) = "blocked" THEN "block" ELSE "embed"
        /\ d'.proposal = d.proposal /\ d'.retry = d.retry /\ d'.evidence = d.evidence
        /\ d'.votes = d.votes /\ d'.execution = d.execution /\ d'.erred = d.erred
    <3>1. /\ d.pc = "scan" /\ HasText /\ UNCHANGED <<claim, db, paid, row>>
          /\ reply # "none"
      BY <1>3 DEF Scan, GuardReplies
    <3>2. d \in Locals
      OBVIOUS
    <3> HIDE <1>t
    <3>3. QED
      BY <2>1, <3>1, <3>2, ScanFields
  <2>3. Shielded'
    BY <2>2
  <2>4. NotYet'
    BY <2>2
  <2>5. Filtered'
    BY <2>2
  <2>6. Judged'
    BY <2>2
  <2>7. Written'
    BY <2>2
  <2>8. NoVoteOnFailedEvidence' /\ NoTransactionWhileWaiting'
    BY <2>2
  <2>9. QED
    BY <2>3, <2>4, <2>5, <2>6, <2>7, <2>8
<1>4. CASE SkipText \/ Embed \/ EndRetrieval
  <2>1. CASE SkipText
    BY <2>1 DEF SkipText
  <2>2. CASE Embed
    BY <2>2 DEF Embed
  <2>3. CASE EndRetrieval
    BY <2>3 DEF EndRetrieval, AfterRetrieval
  <2>4. QED
    BY <1>4, <2>1, <2>2, <2>3
<1>5. CASE Query
  <2>1. PICK found \in BOOLEAN : d' = [d EXCEPT !.pc = "retrieved", !.policy = found]
    BY <1>5, QueryChanges
  <2>2. /\ d.pc = "query" /\ d'.pc = "retrieved" /\ UNCHANGED <<claim, paid, row>>
        /\ d'.scan = d.scan /\ d'.guard = d.guard
        /\ d'.proposal = d.proposal /\ d'.retry = d.retry
        /\ d'.evidence = d.evidence /\ d'.votes = d.votes
        /\ d'.execution = d.execution /\ d'.erred = d.erred
    BY <1>5, <2>1 DEF Query
  <2>3. Shielded' /\ NotYet' /\ Filtered'
    BY <2>2
  <2>4. Judged' /\ Written' /\ NoVoteOnFailedEvidence' /\ NoTransactionWhileWaiting'
    BY <2>2
  <2>5. QED
    BY <2>3, <2>4
<1>6. CASE Propose
  <2>1. PICK x \in Intents : d' = [d EXCEPT !.proposal = x, !.pc = "evidence"]
    BY <1>6, ProposeChanges
  <2>2. /\ d'.proposal # "none" /\ d'.pc = "evidence" /\ d.pc = "propose"
        /\ d'.scan = d.scan /\ d'.guard = d.guard /\ d'.retry = d.retry /\ d'.evidence = d.evidence
        /\ d'.votes = d.votes /\ d'.execution = d.execution /\ d'.erred = d.erred
        /\ UNCHANGED <<claim, db, paid, row>>
    <3>1. x # "none" /\ d.pc = "propose" /\ UNCHANGED <<claim, db, paid, row>>
      BY <1>6 DEF Propose, Intents
    <3> HIDE DEF Locals
    <3>2. d \in Locals
      OBVIOUS
    <3> HIDE <1>t
    <3>3. QED
      BY <2>1, <3>1, <3>2, ProposeFields
  <2>3. Shielded'
    BY <2>2
  <2>4. NotYet'
    BY <2>2
  <2>5. Filtered' /\ NoTransactionWhileWaiting'
    BY <2>2
  <2>6. Judged' /\ NoVoteOnFailedEvidence'
    BY <2>2
  <2>7. Written'
    BY <2>2
  <2>8. QED
    BY <2>3, <2>4, <2>5, <2>6, <2>7
<1>7. CASE CheckEvidence
  BY <1>7 DEF CheckEvidence, Evidences
<1>8. CASE SkipEvidence
  BY <1>8 DEF SkipEvidence
<1>9. CASE BuildLlm
  BY <1>9 DEF BuildLlm, GoesToJudges, Evidences, Intents, Judges
<1>10. ASSUME NEW j \in BaseJudges, JudgeAnswers(j) PROVE Rest'
  <2>1. PICK reply \in JudgeReplies :
          d' = [d EXCEPT !.votes[j] = Verdict(reply),
                         !.erred = IF reply \in {"unusable", "error"} THEN @ \cup {j} ELSE @]
    BY <1>10 DEF JudgeAnswers
  <2>2. QED
    BY <1>10, <2>1, Answers DEF JudgeAnswers, Verdict, BaseJudges, Judges
<1>11. CASE JudgesReturn
  BY <1>11 DEF JudgesReturn, Agreed, BaseJudges, Judges, Votes
<1>12. CASE SupremeAnswers
  <2> d.pc = "supreme" /\ UNCHANGED <<claim, db, paid, row>>
    BY <1>12 DEF SupremeAnswers
  <2>1. CASE d' = [d EXCEPT !.pc = "reclassify"]
    BY <2>1
  <2>2. ASSUME NEW reply \in JudgeReplies, Ruled(reply) PROVE Rest'
    <3>1. /\ d'.votes = [d.votes EXCEPT !["supreme_court"] = Verdict(reply)]
          /\ d'.pc = IF Verdict(reply) = "APPROVE" THEN "execute" ELSE "reclassify"
          /\ d'.erred \subseteq d.erred \cup {"supreme_court"}
          /\ reply \notin {"unusable", "error"} => d'.erred = d.erred
          /\ d'.scan = d.scan /\ d'.guard = d.guard /\ d'.proposal = d.proposal /\ d'.retry = d.retry
          /\ d'.evidence = d.evidence /\ d'.execution = d.execution
      BY <2>2 DEF Ruled
    <3>2. d'.votes["supreme_court"] = Verdict(reply)
          /\ \A j \in BaseJudges : d'.votes[j] = d.votes[j]
      BY <3>1 DEF Judges, BaseJudges
    <3>3. Judged'
      <4>1. ASSUME NEW j \in d'.erred PROVE d'.votes[j] = "REJECT"
        <5>1. CASE j = "supreme_court"
          <6>1. CASE reply \in {"unusable", "error"}
            BY <3>2, <5>1, <6>1 DEF Verdict
          <6>2. CASE reply \notin {"unusable", "error"}
            BY <3>1, <3>2, <4>1, <5>1, <6>2, Answers
          <6>3. QED
            BY <6>1, <6>2
        <5>2. CASE j # "supreme_court"
          BY <3>1, <4>1, <5>2
        <5>3. QED
          BY <5>1, <5>2
      <4>2. d'.pc = "reclassify" => \E j \in BaseJudges : d'.votes[j] = "REJECT"
        BY <3>2
      <4>3. d'.pc = "execute" => d'.votes["supreme_court"] = "APPROVE"
        BY <3>1, <3>2
      <4>4. QED
        BY <3>1, <4>1, <4>2, <4>3
    <3>4. Shielded' /\ NotYet' /\ Filtered' /\ Written' /\ NoVoteOnFailedEvidence'
          /\ NoTransactionWhileWaiting'
      BY <3>1, <3>2
    <3>5. QED
      BY <3>3, <3>4
  <2>3. QED
    <3> HIDE DEF Rest
    <3>1. QED
      BY <1>12, <2>1, <2>2, SupremeChanges
<1>13. CASE Reclassify
  <2>1. PICK x \in {"clarify", "out_of_scope", "none"} : d' = [d EXCEPT !.retry = x, !.pc = "write"]
    BY <1>13, ReclassifyChanges
  <2>2. QED
    BY <1>13, <2>1 DEF Reclassify, Intents
<1>14. CASE Execute
  <2>1. PICK x \in Outcomes : x # "none" /\ d' = [d EXCEPT !.execution = x, !.pc = "write"]
    BY <1>14 DEF Execute, Outcomes
  <2>2. d.pc = "execute" /\ UNCHANGED <<claim, db, row>>
    BY <1>14 DEF Execute
  <2>3. QED
    BY <2>1, <2>2
<1>15. CASE WriteFinal
  <2>1. /\ d.pc = "write" /\ Storable /\ d' = [d EXCEPT !.pc = "done"] /\ db' = "closed"
        /\ row' = [status |-> FinalStatus, trail |-> FinalTrail] /\ UNCHANGED <<claim, paid>>
    BY <1>15 DEF WriteFinal
  <2>2. /\ row'.status = FinalStatus
        /\ row'.trail.prompt_guard = d.guard
        /\ row'.trail.front_desk = d.proposal
        /\ row'.trail.front_desk_retry = d.retry
        /\ row'.trail.evidence = d.evidence
        /\ row'.trail.votes = d.votes
        /\ row'.trail.execution = d.execution
    BY <2>1 DEF FinalTrail
  <2>3. Shielded' /\ NotYet' /\ Filtered' /\ Judged' /\ NoVoteOnFailedEvidence'
        /\ NoTransactionWhileWaiting'
    BY <2>1
  <2>i. FrontDeskIntent = IF d.retry # "none" THEN d.retry
                          ELSE IF d.proposal = "refund" THEN "none" ELSE d.proposal
    OBVIOUS
  <2>x. d.execution \in {"none", "executed", "failed", "not_executable"}
    BY DEF Outcomes
  <2> HIDE DEF FrontDeskIntent
  <2>f. row'.status = IF d.execution = "executed" THEN "COMPLETED"
                      ELSE IF d.execution = "failed" THEN "EXECUTION_FAILED"
                      ELSE IF FrontDeskIntent = "clarify" THEN "NEEDS_CLARIFICATION"
                      ELSE "PENDING_HUMAN_REVIEW"
    BY <2>2 DEF FinalStatus
  <2>q. ShowsQuestion(row'.trail) <=> FrontDeskIntent = "clarify"
    BY <2>2, <2>i DEF ShowsQuestion
  <2>e. d.execution # "none" => FrontDeskIntent = "none"
    BY <2>i
  <2>4. QuestionIffClarification'
    BY <2>f, <2>q, <2>e
  <2>5. /\ row'.trail.prompt_guard = "clear" <=> d'.scan = "low"
        /\ row'.trail.prompt_guard = "skipped" <=> d'.scan \in {"text", "error"}
        /\ row'.trail.prompt_guard = "none" <=> ~HasText'
    <3>1. /\ d.guard = IF d.scan = "none" THEN "none" ELSE GuardStatus(d.scan)
          /\ HasText' <=> d.scan # "none"
          /\ d.guard # "blocked" /\ row'.trail.prompt_guard = d.guard /\ d'.scan = d.scan
      BY <2>1, <2>2
    <3>2. d.scan \in {"none", "low", "high", "text", "error"}
      BY <2>1 DEF Storable, GuardReplies
    <3>3. QED
      BY <3>1, <3>2, Scored
  <2>6. ASSUME row'.status = "PENDING_HUMAN_REVIEW"
        PROVE  \/ "out_of_scope" \in {d.proposal, d.retry}
               \/ d.evidence \in {"failed", "unavailable"}
               \/ \E j \in BaseJudges : d.votes[j] = "REJECT"
               \/ d.execution = "not_executable"
    <3>1. d.execution \in {"none", "not_executable"} /\ FrontDeskIntent # "clarify"
      BY <2>f, <2>x, <2>6
    <3>2. CASE d.execution = "none" /\ FrontDeskIntent # "none"
      <4>1. FrontDeskIntent \in {d.retry, d.proposal}
        BY <2>i, <3>2
      <4>2. FrontDeskIntent # "refund"
        BY <2>i, <3>2
      <4>3. FrontDeskIntent = "out_of_scope"
        BY <3>1, <3>2, <4>2, FrontDeskIntents DEF Intents
      <4>4. QED
        BY <4>1, <4>3
    <3>3. CASE d.execution = "none" /\ FrontDeskIntent = "none"
      BY <2>1, <3>3
    <3>4. QED
      BY <3>1, <3>2, <3>3
  <2>7. TrailAccounts'
    BY <2>2, <2>5, <2>6
  <2>8. QED
    BY <2>3, <2>4, <2>7
<1>16. CASE WriteBlocked
  <2>1. /\ d.scan = "high" /\ HasText
    <3>1. d.guard = "blocked" /\ d.scan \in {"none", "low", "high", "text", "error"}
      BY <1>16 DEF WriteBlocked, Storable, GuardReplies
    <3>2. QED
      BY <1>16, <3>1, Scored DEF WriteBlocked
  <2>2. QED
    BY <1>16, <2>1 DEF WriteBlocked, NoTrail, ShowsQuestion
<1>17. CASE WriteFails
  BY <1>17 DEF WriteFails
<1>18. QED
  BY <1>1, <1>2, <1>3, <1>4, <1>5, <1>6, <1>7, <1>8, <1>9, <1>10, <1>11, <1>12, <1>13, <1>14,
     <1>15, <1>16, <1>17 DEF Next

LEMMA Invariance == Spec => []Inv
  BY InitInv, NextInv, PTL DEF Spec

\* No judge votes on a claim whose evidence failed or could not be had, or that
\* the Front-Desk did not read as a refund (worker.py, steps 2.5 to 3).
THEOREM NoVoteWithoutEvidence == Spec => []NoVoteOnFailedEvidence
<1>1. Inv => NoVoteOnFailedEvidence
  BY DEF Inv
<1>2. QED
  BY <1>1, Invariance, PTL

\* The worker waits for models and the MCP server without a transaction.
THEOREM NoOpenTransaction == Spec => []NoTransactionWhileWaiting
<1>1. Inv => NoTransactionWhileWaiting
  BY DEF Inv
<1>2. QED
  BY <1>1, Invariance, PTL

\* The dashboard shows a question exactly for the claims that wait for an
\* answer (worker.py's final status against trail.py's reading of the trail).
THEOREM QuestionShown == Spec => []QuestionIffClarification
<1>1. Inv => QuestionIffClarification
  BY DEF Inv, Written
<1>2. QED
  BY <1>1, Invariance, PTL

\* The stored trail says "clear" only of a text the guard scored below the
\* threshold and "skipped" of every text it could not score, whatever the guard
\* answers, and of a claim that goes to a human it says why (prompt_guard.py,
\* scan_for_injection; worker.py, the trail of the final write).
THEOREM TrailComplete == Spec => []TrailAccounts
<1>1. Inv => TrailAccounts
  BY DEF Inv, Written
<1>2. QED
  BY <1>1, Invariance, PTL

----------------------------------------------------------------------------
(* The refund.                                                             *)

\* Only Execute makes the refund call.
LEMMA OnlyExecutePays ==
  ASSUME [Next]_vars, paid' # paid
  PROVE  Execute
  BY DEF Next, vars, Scan, SkipText, Embed, Query, EndRetrieval, Propose, CheckEvidence,
         SkipEvidence, BuildLlm, JudgeAnswers, JudgesReturn, SupremeAnswers, Reclassify,
         WriteFinal, WriteBlocked, WriteFails

\* The refund call runs only for a claim that passed the shield, the Front-Desk
\* and the evidence check, and that judges who answered have approved.
THEOREM RefundEarnedOnly == Spec => RefundOnlyWhenEarned
<1>1. ASSUME Inv, [Next]_vars, paid' # paid PROVE RefundEarned
  <2>1. Execute
    BY <1>1, OnlyExecutePays
  <2>2. d.pc = "execute" /\ HasRefundDetails
    BY <1>1, <2>1 DEF Execute, At
  <2>3. d.guard # "blocked" /\ d.evidence = "passed" /\ (HasText => d.proposal = "refund")
    BY <1>1, <2>2 DEF Inv, Shielded, Filtered, AtJudges, ReadAsRefund
  <2>4. BaseJudges \subseteq Approvals \/ "supreme_court" \in Approvals
    BY <1>1, <2>2 DEF Inv, Judged, Approvals, BaseJudges, Judges
  <2>5. QED
    BY <2>3, <2>4 DEF RefundEarned
<1>2. Inv /\ [Next]_vars => [paid' # paid => RefundEarned]_vars
  BY <1>1
<1>3. QED
  BY <1>2, Invariance, PTL DEF RefundOnlyWhenEarned, Spec

----------------------------------------------------------------------------
(* The worker implements the promise of the engine for its claim.          *)

\* A claim that is to be written as COMPLETED has been paid, and until the
\* write the row is PROCESSING.
Paid ==
  /\ d.execution = "executed" => paid
  /\ d.pc \notin {"done", "failed"} => row.status = "PROCESSING"
  /\ d.pc \notin {"write", "done", "failed"} => ~paid

LEMMA NextPaid == Inv /\ Paid /\ [Next]_vars => Paid'
<1> SUFFICES ASSUME Inv, Paid, [Next]_vars PROVE Paid'
  OBVIOUS
<1>d. d \in Locals
  BY DEF Inv, TypeOK
<1> USE <1>d DEF Paid, Locals, At, Goto
<1>1. CASE UNCHANGED vars
  BY <1>1 DEF vars
<1>2. CASE Execute
  <2>1. paid' = TRUE \/ d'.execution # "executed"
    BY <1>2 DEF Execute
  <2>2. d'.pc = "write" /\ row' = row /\ row.status = "PROCESSING"
    BY <1>2 DEF Execute
  <2>3. QED
    BY <2>1, <2>2
<1>3. CASE WriteFinal \/ WriteBlocked \/ WriteFails
  BY <1>3 DEF WriteFinal, WriteBlocked, WriteFails
<1>4. CASE Scan
  BY <1>4 DEF Scan
<1>5. CASE SkipText \/ Embed \/ EndRetrieval
  <2>1. /\ d.pc \in {"scan", "embed", "retrieved"} /\ d'.execution = d.execution
        /\ d'.pc \notin {"write", "done"} /\ row' = row /\ paid' = paid
    BY <1>5 DEF SkipText, Embed, EndRetrieval
  <2>2. QED
    BY <2>1
<1>6. CASE Query
  <2>1. d.pc = "query" /\ d'.pc = "retrieved" /\ d'.execution = d.execution
    BY <1>6 DEF Query
  <2>2. row' = row /\ paid' = paid
    BY <1>6 DEF Query
  <2>3. QED
    BY <2>1, <2>2
<1>7. CASE Propose \/ Reclassify
  <2>1. /\ d.pc \in {"propose", "reclassify"} /\ d'.pc \in {"evidence", "write"}
        /\ d'.execution = d.execution /\ row' = row /\ paid' = paid
    BY <1>7 DEF Propose, Reclassify
  <2>2. QED
    BY <2>1
<1>8. CASE CheckEvidence \/ SkipEvidence \/ BuildLlm
  <2>1. CASE CheckEvidence
    <3>1. /\ d.pc = "evidence" /\ d'.pc = "build"
          /\ d'.execution = d.execution /\ row' = row /\ paid' = paid
      BY <2>1 DEF CheckEvidence
    <3>2. QED
      BY <3>1
  <2>2. CASE SkipEvidence \/ BuildLlm
    BY <2>2 DEF SkipEvidence, BuildLlm
  <2>3. QED
    BY <1>8, <2>1, <2>2
<1>9. ASSUME NEW j \in BaseJudges, JudgeAnswers(j) PROVE Paid'
  BY <1>9 DEF JudgeAnswers
<1>10. CASE JudgesReturn
  BY <1>10 DEF JudgesReturn
<1>11. CASE SupremeAnswers
  BY <1>11 DEF SupremeAnswers
<1>12. QED
  BY <1>1, <1>2, <1>3, <1>4, <1>5, <1>6, <1>7, <1>8, <1>9, <1>10, <1>11 DEF Next

LEMMA InvariancePaid == Spec => [](Inv /\ Paid)
<1>1. Init => Paid
  BY DEF Init, Paid
<1>2. QED
  BY <1>1, InitInv, NextInv, NextPaid, PTL DEF Spec

\* Both the row and the payment of a step that is neither a refund call nor a
\* final write stay as they are.
LEMMA OnlyWritesConclude ==
  ASSUME [Next]_vars
  PROVE  UNCHANGED <<row, paid>> \/ Execute \/ WriteFinal \/ WriteBlocked
  BY DEF Next, vars, Scan, SkipText, Embed, Query, EndRetrieval, Propose, CheckEvidence,
         SkipEvidence, BuildLlm, JudgeAnswers, JudgesReturn, SupremeAnswers, Reclassify,
         WriteFails

Verdicts == [r \in {"claim"} |-> IF row.status = "PROCESSING" THEN "open" ELSE row.status]
Refunded == [r \in {"claim"} |-> IF paid THEN 1 ELSE 0]

LEMMA StepConcludes ==
  ASSUME Inv, Paid, WriteFinal \/ WriteBlocked
  PROVE  Service!Next
<1>1. PICK s \in Statuses \ {"PROCESSING"} :
        row'.status = s /\ (s = "COMPLETED" => paid) /\ paid' = paid
  <2>1. CASE WriteFinal
    <3>1. FinalStatus \in Statuses \ {"PROCESSING"}
      BY Finals DEF Inv
    <3>2. FinalStatus = "COMPLETED" => d.execution = "executed"
      BY DEF FinalStatus
    <3>3. row'.status = FinalStatus /\ paid' = paid
      BY <2>1 DEF WriteFinal
    <3>4. QED
      BY <3>1, <3>2, <3>3 DEF Paid
  <2>2. CASE WriteBlocked
    BY <2>2 DEF WriteBlocked, Statuses
  <2>3. QED
    BY <2>1, <2>2
<1>2. row.status = "PROCESSING"
  BY DEF Paid, WriteFinal, WriteBlocked, At
<1>3. Verdicts["claim"] = "open" /\ (s = "COMPLETED" => Refunded["claim"] = 1)
  BY <1>1, <1>2 DEF Verdicts, Refunded
<1>4. Verdicts' = [Verdicts EXCEPT !["claim"] = s] /\ Refunded' = Refunded
  BY <1>1, <1>2 DEF Verdicts, Refunded
<1>5. QED
  BY <1>1, <1>3, <1>4 DEF Service!Next, Service!Conclude, Verdicts, Refunded

LEMMA StepRefunds ==
  ASSUME Inv, Paid, Execute
  PROVE  Service!Next \/ UNCHANGED <<Verdicts, Refunded>>
<1>1. row' = row /\ paid' \in BOOLEAN /\ paid \in BOOLEAN /\ ~paid
  BY DEF Execute, Inv, TypeOK, Paid, At
<1>2. CASE paid'
  <2>1. Refunded["claim"] = 0 /\ Refunded' = [Refunded EXCEPT !["claim"] = 1]
        /\ Verdicts' = Verdicts
    BY <1>1, <1>2 DEF Refunded, Verdicts
  <2>2. QED
    BY <2>1 DEF Service!Next, Service!Refund, Verdicts, Refunded
<1>3. CASE ~paid'
  BY <1>1, <1>3 DEF Verdicts, Refunded
<1>4. QED
  BY <1>2, <1>3

\* Process_message implements ClaimService for its claim: one final status, and
\* COMPLETED only after the refund.
THEOREM Refinement == Spec => ServiceSpec
<1>1. Init => Service!Init
  BY DEF Init, Service!Init
<1>2. Inv /\ Paid /\ [Next]_vars => [Service!Next]_(Service!svcVars)
  <2>1. SUFFICES ASSUME Inv, Paid, [Next]_vars
                 PROVE  Service!Next \/ UNCHANGED <<Verdicts, Refunded>>
    BY DEF Service!svcVars, Verdicts, Refunded
  <2>2. CASE UNCHANGED <<row, paid>>
    BY <2>2 DEF Verdicts, Refunded
  <2>3. QED
    BY <2>1, <2>2, StepConcludes, StepRefunds, OnlyWritesConclude
<1>3. QED
  BY <1>1, <1>2, InvariancePaid, PTL DEF Spec, ServiceSpec, Service!Spec
=============================================================================
