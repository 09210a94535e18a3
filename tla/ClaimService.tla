---------------------------- MODULE ClaimService ----------------------------
(***************************************************************************)
(* What the engine promises for each claim, without queue, workers or      *)
(* sweeper: a claim is concluded and never reopened, its refund is         *)
(* recorded at most once, and a claim concluded as COMPLETED has been      *)
(* refunded before.  A refund may come without the claim ever being        *)
(* concluded COMPLETED.                                                    *)
(***************************************************************************)
EXTENDS Naturals

CONSTANTS
  Requests, Conclusions,
  Revisable      \* may a conclusion be replaced by another one?

VARIABLES verdict, refunded

svcVars == <<verdict, refunded>>

Init ==
  /\ verdict = [r \in Requests |-> "open"]
  /\ refunded = [r \in Requests |-> 0]

\* The ledger gains the one refund of r.
Refund(r) ==
  /\ refunded[r] = 0
  /\ refunded' = [refunded EXCEPT ![r] = 1]
  /\ UNCHANGED verdict

\* The claim gets its final status, for good unless conclusions are revisable.
Conclude(r, s) ==
  /\ verdict[r] = "open" \/ Revisable
  /\ s = "COMPLETED" => refunded[r] = 1
  /\ verdict' = [verdict EXCEPT ![r] = s]
  /\ UNCHANGED refunded

Next == \E r \in Requests : Refund(r) \/ \E s \in Conclusions : Conclude(r, s)

Spec == Init /\ [][Next]_svcVars
=============================================================================
