---------------------------- MODULE OrderRefunds ----------------------------
(***************************************************************************)
(* The evidence check against the refunds ledger, with several workers.    *)
(*                                                                         *)
(* A claim for an order is checked in code before any model sees it: the   *)
(* worker asks the MCP server for the order and for the user's refund      *)
(* history, decides whether the refund still fits in the order, and calls  *)
(* execute_refund when the judges approve.  The check and the execution    *)
(* are far apart, the history is read in two statements, and a call the    *)
(* worker has given up may be executed later.                              *)
(*                                                                         *)
(* Money is counted in mills (tenths of a cent) where a client sends it    *)
(* and in cents where it is compared or stored.                            *)
(***************************************************************************)
EXTENDS Naturals, Sequences, FiniteSetsExt

CONSTANTS
  Requests,        \* request ids
  Claims,          \* claims a client may send: [user, order, mills, currency]
  Order,           \* the `orders` table: order id -> [user, cents, currency]
  OldLedgers,      \* ledgers the system may start with
  Rate,            \* FX_RATES_TO_USD, in ten-thousandths, per currency
  Threshold,       \* REFUND_HUMAN_REVIEW_THRESHOLD_USD, in cents
  HistoryLimit,    \* REFUND_HISTORY_LIMIT
  MaxActive,       \* workers: claims processed at once
  MaxRedeliveries  \* bound: claims processed once more

ASSUME OrderRefundsAssumption ==
  /\ IsFiniteSet(Requests)
  /\ \A c \in Claims : c.mills \in Nat
  /\ \A o \in DOMAIN Order : Order[o].cents \in Nat
  /\ \A l \in OldLedgers :
       /\ l \in Seq({l[i] : i \in DOMAIN l})
       /\ \A i \in DOMAIN l : l[i].cents \in Nat
  /\ HistoryLimit \in Nat \ {0}
  /\ MaxActive \in Nat \ {0}
  /\ MaxRedeliveries \in Nat

VARIABLES
  claim,         \* what each request asks for
  phase,         \* where the processing of each request is
  counted,       \* refund_count of its history
  readAt,        \* history: how many refunds were on the ledger at its count
  calls,         \* execute_refund calls in flight: [request, readAt]
  ledger,        \* rows of `refunds`, oldest first
  old,           \* history: how many of them were there at the start
  outrun,        \* history: requests whose history was cut, and grew after its count
  redeliveries,  \* history: claims processed once more
  peak           \* history: most requests outstanding at the same time

vars == <<claim, phase, counted, readAt, calls, ledger, old, outrun, redeliveries, peak>>

Active == {r \in Requests : phase[r] \in {"asking", "counted", "passed", "calling"}}

\* Requests whose refund may still be executed: a call in flight outlives its
\* worker's patience.
Outstanding == Active \cup {c.request : c \in calls}

Phases == {"new", "asking", "counted", "passed", "calling", "done"}

TypeOK ==
  /\ claim \in [Requests -> Claims]
  /\ phase \in [Requests -> Phases]
  /\ counted \in [Requests -> Nat]
  /\ \A r \in Requests : readAt[r] \in old .. Len(ledger)
  /\ \A c \in calls : c.request \in Requests /\ c.readAt \in old .. Len(ledger)
  /\ \A i \in DOMAIN ledger :
       /\ ledger[i].cents \in Nat
       /\ i > old => /\ ledger[i].request \in Requests
                     /\ \A k \in 1 .. i - 1 : ledger[k].request # ledger[i].request
  /\ outrun \subseteq Requests
  /\ redeliveries \in 0 .. MaxRedeliveries
  /\ peak \in Nat /\ Cardinality(Outstanding) <= peak

Init ==
  /\ claim \in [Requests -> Claims]
  /\ ledger \in OldLedgers
  /\ old = Len(ledger)
  /\ phase = [r \in Requests |-> "new"]
  /\ counted = [r \in Requests |-> 0]
  /\ readAt = [r \in Requests |-> Len(ledger)]
  /\ calls = {}
  /\ outrun = {}
  /\ redeliveries = 0
  /\ peak = 0

----------------------------------------------------------------------------
(* The evidence check, src/core/services/evidence_check.py.                *)

\* Mutant: fractions of a cent are cut off.
MoneyTruncated(mills) == mills \div 10

\* To the cent, ROUND_HALF_UP.
Money(mills) == (mills + 5) \div 10

\* NUMERIC(12, 2) rounds as PostgreSQL does, half away from zero.
Stored(mills) == (mills + 5) \div 10

Usd(cents, currency) == (cents * Rate[currency] + 5000) \div 10000

\* The join of `refunds` through `orders`.
IsOf(user, refund) == refund.order \in DOMAIN Order /\ Order[refund.order].user = user

\* The user's rows of the ledger, by their place in it.
UserRefunds(user) == {i \in DOMAIN ledger : IsOf(user, ledger[i])}

\* summarize_refunds_for_user: refund_count.
RefundCount(user) == Cardinality(UserRefunds(user))

\* list_refunds_for_user: the newest n of these rows.  Their order does not
\* matter to the check.
Newest(rows, n) == {i \in rows : Cardinality({k \in rows : k > i}) < n}

\* refunds in the answer of get_refund_history.
Listed(user) == Newest(UserRefunds(user), HistoryLimit)

\* Mutant: a claim's own refund counts against it.
CountsWithOwn(r, refund) == refund.order = claim[r].order

\* Mutant: only a claim's own refund counts against it.
CountsOwnOnly(r, refund) == refund.order = claim[r].order /\ refund.request = r

\* Previous refunds of the order, without the claim's own.
Counts(r, refund) == refund.order = claim[r].order /\ refund.request # r

Total(refunds, indices) == MapThenSumSet(LAMBDA i : refunds[i].cents, indices)

\* Never below zero: some orders were refunded past their amount long ago.
Remaining(cents, refunded) == IF cents > refunded THEN cents - refunded ELSE 0

\* Mutant: a history that is cut is taken for the whole.
CompleteAlways(count, listed) == TRUE

\* The list has all the refunds that were counted.
Complete(count, listed) == count <= Cardinality(listed)

\* check_refund_evidence: no rule failed.  `count` is the history's
\* refund_count, `listed` its list.
EvidencePasses(r, count, listed) ==
  LET c        == claim[r]
      order    == Order[c.order]
      previous == {i \in listed : Counts(r, ledger[i])}
  IN
  /\ c.order \in DOMAIN Order
  /\ order.user = c.user
  /\ c.currency = order.currency
  /\ Complete(count, listed)
  /\ \A i \in previous : ledger[i].currency = order.currency
  /\ Money(c.mills) <= Remaining(order.cents, Total(ledger, previous))
  /\ c.currency \in DOMAIN Rate
  /\ Usd(Money(c.mills), c.currency) <= Threshold

----------------------------------------------------------------------------
(* Processing a claim.                                                     *)

Goto(r, p) == phase' = [phase EXCEPT ![r] = p]

\* A free worker takes the claim.
Start(r) ==
  /\ phase[r] = "new"
  /\ Cardinality(Active) < MaxActive
  /\ Goto(r, "asking")
  /\ peak' = Max({peak, Cardinality(Outstanding \cup {r})})
  /\ UNCHANGED <<claim, counted, readAt, calls, ledger, old, outrun, redeliveries>>

\* get_refund_history, first statement: summarize_refunds_for_user.
CountHistory(r) ==
  /\ phase[r] = "asking"
  /\ counted' = [counted EXCEPT ![r] = RefundCount(claim[r].user)]
  /\ readAt' = [readAt EXCEPT ![r] = Len(ledger)]
  /\ Goto(r, "counted")
  /\ UNCHANGED <<claim, calls, ledger, old, outrun, redeliveries, peak>>

\* Second statement, list_refunds_for_user, and the check of its answer.
ListAndCheck(r) ==
  /\ phase[r] = "counted"
  /\ Goto(r, IF EvidencePasses(r, counted[r], Listed(claim[r].user)) THEN "passed" ELSE "done")
  /\ outrun' = IF RefundCount(claim[r].user) > Max({counted[r], HistoryLimit})
                 THEN outrun \cup {r} ELSE outrun
  /\ UNCHANGED <<claim, counted, readAt, calls, ledger, old, redeliveries, peak>>

\* The judges decide.
Approve(r) ==
  /\ phase[r] = "passed"
  /\ calls' = calls \cup {[request |-> r, readAt |-> readAt[r]]}
  /\ Goto(r, "calling")
  /\ UNCHANGED <<claim, counted, readAt, ledger, old, outrun, redeliveries, peak>>

Reject(r) ==
  /\ phase[r] = "passed"
  /\ Goto(r, "done")
  /\ UNCHANGED <<claim, counted, readAt, calls, ledger, old, outrun, redeliveries, peak>>

\* The row of a call.  `readAt` belongs to the check that led to it.
RefundRow(call) ==
  [request  |-> call.request,
   order    |-> claim[call.request].order,
   cents    |-> Stored(claim[call.request].mills),
   currency |-> claim[call.request].currency,
   readAt   |-> call.readAt]

\* Mutant: the ledger is not asked for the request id.
RecordBlindly(call) == Append(ledger, RefundRow(call))

\* record_refund: INSERT ON CONFLICT (request_id) DO NOTHING.
RecordRefund(call) ==
  IF \E i \in DOMAIN ledger : ledger[i].request = call.request
    THEN ledger ELSE Append(ledger, RefundRow(call))

\* execute_refund runs, and its worker learns the result if it still waits.
ToolRuns(call) ==
  LET r == call.request IN
  /\ call \in calls
  /\ calls' = calls \ {call}
  /\ ledger' = RecordRefund(call)
  /\ phase' = IF phase[r] = "calling" /\ readAt[r] = call.readAt
                THEN [phase EXCEPT ![r] = "done"] ELSE phase
  /\ UNCHANGED <<claim, counted, readAt, old, outrun, redeliveries, peak>>

\* Every attempt has timed out; a call may still be on its way.
GiveUp(r) ==
  /\ phase[r] = "calling"
  /\ Goto(r, "done")
  /\ UNCHANGED <<claim, counted, readAt, calls, ledger, old, outrun, redeliveries, peak>>

\* The claim is processed again: its worker died before the final write and
\* the sweeper has published it once more.
Redeliver(r) ==
  /\ phase[r] = "done"
  /\ redeliveries < MaxRedeliveries
  /\ redeliveries' = redeliveries + 1
  /\ Goto(r, "new")
  /\ UNCHANGED <<claim, counted, readAt, calls, ledger, old, outrun, peak>>

Next ==
  \/ \E r \in Requests :
       \/ Start(r) \/ CountHistory(r) \/ ListAndCheck(r)
       \/ Approve(r) \/ Reject(r) \/ GiveUp(r) \/ Redeliver(r)
  \/ \E call \in calls : ToolRuns(call)

Spec == Init /\ [][Next]_vars

----------------------------------------------------------------------------
(* Properties.                                                             *)

OnOrder(o, first, last) == {i \in first .. last : ledger[i].order = o}

\* The rules of the evidence check that look at one claim.
FollowsRules(r) ==
  /\ claim[r].order \in DOMAIN Order
  /\ claim[r].user = Order[claim[r].order].user
  /\ claim[r].currency = Order[claim[r].order].currency
  /\ claim[r].currency \in DOMAIN Rate

\* Every refund the engine has made went to the owner of the order, in the
\* order's currency and within the limit in USD: what a check found, rounding
\* included, holds of what is stored, however late the call comes and however
\* often the claim is processed.
RefundsFollowRules ==
  \A i \in old + 1 .. Len(ledger) :
    LET x == ledger[i] IN
    /\ FollowsRules(x.request)
    /\ x.order = claim[x.request].order /\ x.currency = claim[x.request].currency
    /\ Usd(x.cents, x.currency) <= Threshold

\* ... and it fitted in the order together with every refund the ledger had
\* when its check read it, unless a refund recorded between the two statements
\* of its history pushed an old one off the end of a list that was cut.
RefundsFitTheirCheck ==
  \A i \in old + 1 .. Len(ledger) :
    LET x    == ledger[i]
        seen == {k \in OnOrder(x.order, 1, x.readAt) : ledger[k].request # x.request}
    IN x.cents > 0 /\ x.request \notin outrun =>
         x.cents + Total(ledger, seen) <= Order[x.order].cents

\* An order is refunded at most n times its amount (or what it had been
\* refunded already), where n is the most requests that were outstanding at one
\* time, calls their workers had given up included: two refunds miss each other
\* only while both are on their way.  A history that was cut short costs one
\* more.
OverRefundBounded ==
  \A o \in DOMAIN Order :
    LET before == Total(ledger, OnOrder(o, 1, old))
        now    == Total(ledger, OnOrder(o, 1, Len(ledger)))
    IN now <= Max({before, peak * Order[o].cents}) + Cardinality(outrun) * Order[o].cents

\* What a redelivered claim whose refund has executed meets, as long as nobody
\* else was refunded on its order since its check read the ledger: it passes the
\* check again exactly while its user's history still fits in one list, its own
\* refund included.  Up to the limit "it does not count against itself"; a claim
\* whose refund was the one too many for the list fails as "incomplete".
RecheckAgrees ==
  \A i \in old + 1 .. Len(ledger) :
    LET x      == ledger[i]
        user   == claim[x.request].user
        others == {k \in OnOrder(x.order, x.readAt + 1, Len(ledger)) : k # i}
    IN others = {} =>
         (EvidencePasses(x.request, RefundCount(user), Listed(user))
            <=> RefundCount(user) <= HistoryLimit)
=============================================================================
