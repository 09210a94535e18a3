------------------------- MODULE McpBoundaryProofs -------------------------
(***************************************************************************)
(* Proofs about McpBoundary, for any number of POSTs, clients and tools.   *)
(***************************************************************************)
EXTENDS McpBoundary, FiniteSetTheorems, TLAPS

\* A refusal has its status before its row is written.
Refusing == \A c \in Calls : pc[c] = "denying" => answer[c] \in {401, 403, 422, 429}

TypeInv == TypeOK /\ Refusing

LEMMA InitTypeInv == Init => TypeInv
  BY DEF Init, TypeInv, TypeOK, Refusing, Steps

LEMMA NextTypeInv == TypeInv /\ [Next]_vars => TypeInv'
<1>1. SUFFICES ASSUME TypeInv, [Next]_vars PROVE TypeInv'
  OBVIOUS
<1>2. CASE UNCHANGED vars
  BY <1>1, <1>2 DEF TypeInv, TypeOK, Refusing, vars
<1>3. ASSUME NEW c \in Calls, Arrive(c) PROVE TypeInv'
  BY <1>1, <1>3 DEF Arrive, Deny, Goto, Answer, TypeInv, TypeOK, Refusing, Steps
<1>4. ASSUME NEW c \in Calls, Count(c) PROVE TypeInv'
  BY <1>1, <1>4 DEF Count, Deny, Unavailable, Goto, Answer, TypeInv, TypeOK, Refusing, Steps
<1>5. ASSUME NEW c \in Calls, AuditAllowed(c) PROVE TypeInv'
  BY <1>1, <1>5 DEF AuditAllowed, AuditFails, Unavailable, WriteRow, NoRow, Goto, Answer,
                    TypeInv, TypeOK, Refusing, Steps
<1>6. ASSUME NEW c \in Calls, AuditDenied(c) PROVE TypeInv'
  <2>1. Denial(answer[c]) \in Denials
    BY <1>1, <1>6 DEF AuditDenied, TypeInv, Refusing, Denial, Denials
  <2>2. QED
    BY <1>1, <1>6, <2>1 DEF AuditDenied, WriteRow, NoRow, Goto, TypeInv, TypeOK, Refusing,
                            Steps, Denials
<1>7. ASSUME NEW c \in Calls, Forward(c) PROVE TypeInv'
  BY <1>1, <1>7 DEF Forward, Goto, Answer, TypeInv, TypeOK, Refusing, Steps
<1>8. ASSUME NEW c \in Calls, Expire(c) PROVE TypeInv'
  BY <1>1, <1>8 DEF Expire, TypeInv, TypeOK, Refusing, Steps
<1>9. QED
  BY <1>1, <1>2, <1>3, <1>4, <1>5, <1>6, <1>7, <1>8 DEF Next

\* Every POST, its handling and its audit row stay within their types
\* (security/middleware.py __call__ and _deny).
THEOREM TypeCorrect == Spec => []TypeOK
<1>1. Spec => []TypeInv
  BY InitTypeInv, NextTypeInv, PTL DEF Spec
<1>2. TypeInv => TypeOK
  BY DEF TypeInv
<1>3. QED
  BY <1>1, <1>2, PTL

----------------------------------------------------------------------------
(* Fail closed.  A call carries what has been checked so far.              *)

CheckedSoFar ==
  \A c \in Calls :
    /\ pc[c] \in {"counting", "passed"} => post[c].client # NoClient /\ IsAllowed(post[c])
    /\ pc[c] = "passed" => post[c].valid

AuthInv == TypeInv /\ CheckedSoFar /\ ToolOnlyWhenAuthorized

LEMMA KnownClient ==
  ASSUME TypeInv, NEW c \in Calls, post[c].client # NoClient
  PROVE  post[c].client \in Clients
<1>1. post[c] \in Posts
  BY DEF TypeInv, TypeOK
<1>2. QED
  BY <1>1 DEF Posts

LEMMA NextAuthInv == AuthInv /\ [Next]_vars => AuthInv'
<1>1. SUFFICES ASSUME AuthInv, [Next]_vars PROVE CheckedSoFar' /\ ToolOnlyWhenAuthorized'
  BY NextTypeInv DEF AuthInv
<1> USE <1>1 DEF AuthInv, TypeInv, TypeOK, CheckedSoFar, ToolOnlyWhenAuthorized, IsAllowed
<1>2. CASE UNCHANGED vars
  BY <1>2 DEF vars
<1>3. ASSUME NEW c \in Calls, Arrive(c) PROVE CheckedSoFar' /\ ToolOnlyWhenAuthorized'
  BY <1>3 DEF Arrive, Deny, Goto, Answer
<1>4. ASSUME NEW c \in Calls, Count(c) PROVE CheckedSoFar' /\ ToolOnlyWhenAuthorized'
  BY <1>4 DEF Count, Deny, Unavailable, Goto, Answer
<1>5. ASSUME NEW c \in Calls, AuditAllowed(c) PROVE CheckedSoFar' /\ ToolOnlyWhenAuthorized'
  <2>1. post[c].client \in Clients
    <3>1. post[c].client # NoClient
      BY <1>5 DEF AuditAllowed
    <3>2. QED
      BY <3>1, KnownClient
  <2>2. QED
    BY <1>5, <2>1 DEF AuditAllowed, AuditFails, Unavailable, WriteRow, NoRow, Goto, Answer
<1>6. ASSUME NEW c \in Calls, AuditDenied(c) PROVE CheckedSoFar' /\ ToolOnlyWhenAuthorized'
  BY <1>6 DEF AuditDenied, WriteRow, NoRow, Goto
<1>7. ASSUME NEW c \in Calls, Forward(c) PROVE CheckedSoFar' /\ ToolOnlyWhenAuthorized'
  BY <1>7 DEF Forward, Goto, Answer
<1>8. ASSUME NEW c \in Calls, Expire(c) PROVE CheckedSoFar' /\ ToolOnlyWhenAuthorized'
  BY <1>8 DEF Expire
<1>9. QED
  BY <1>2, <1>3, <1>4, <1>5, <1>6, <1>7, <1>8 DEF Next

\* No tool runs unauthenticated, outside the allowlist, with invalid arguments
\* or without its ALLOWED row, whatever fails (the fail-closed rule of
\* security/middleware.py).
THEOREM FailsClosed == Spec => []ToolOnlyWhenAuthorized
<1>1. Init => AuthInv
  BY InitTypeInv DEF Init, AuthInv, CheckedSoFar, ToolOnlyWhenAuthorized
<1>2. Spec => []AuthInv
  BY <1>1, NextAuthInv, PTL DEF Spec
<1>3. AuthInv => ToolOnlyWhenAuthorized
  BY DEF AuthInv
<1>4. QED
  BY <1>2, <1>3, PTL

----------------------------------------------------------------------------
(* The rate limit.  A call that has passed the count and has not written   *)
(* its row yet is what the count of another cannot see.                    *)

PassedFor(client, tool) ==
  {c \in Passed : post[c].client = client /\ post[c].tool = tool}

QuotaHeld(client, tool) ==
  Cardinality(AllowedRecently(client, tool)) + Cardinality(PassedFor(client, tool))
    <= Limit + MaxConcurrent - 1

QuotaInv ==
  /\ TypeInv
  /\ Cardinality(InProgress) <= MaxConcurrent
  /\ \A client \in Clients, tool \in Tools : QuotaHeld(client, tool)

\* All sets of POSTs counted here are finite.
LEMMA Countable ==
  ASSUME NEW S, S \subseteq Calls
  PROVE  IsFiniteSet(S) /\ Cardinality(S) \in Nat
  BY McpBoundaryAssumption, FS_Subset, FS_CardinalityType

\* A subset has no more elements.
LEMMA SubsetCounts ==
  ASSUME NEW S, NEW T, T \subseteq Calls, S \subseteq T
  PROVE  Cardinality(S) <= Cardinality(T)
  BY Countable, FS_Subset

\* One element more counts for one more at most.
LEMMA OneMore ==
  ASSUME NEW S, S \subseteq Calls, NEW c \in Calls
  PROVE  Cardinality(S \cup {c}) <= Cardinality(S) + 1
  BY Countable, FS_AddElement, S \cup {c} \subseteq Calls

\* One element less counts for one less.
LEMMA OneLess ==
  ASSUME NEW S, S \subseteq Calls, NEW c \in S
  PROVE  Cardinality(S \ {c}) = Cardinality(S) - 1
  BY Countable, FS_RemoveElement

LEMMA InitQuota == Init => QuotaInv
<1>1. SUFFICES ASSUME Init PROVE QuotaInv
  OBVIOUS
<1>2. InProgress = {} /\ Passed = {} /\ window = {}
  BY <1>1 DEF Init, InProgress, Passed
<1>3. \A client, tool : AllowedRecently(client, tool) = {} /\ PassedFor(client, tool) = {}
  BY <1>2 DEF AllowedRecently, PassedFor
<1>4. QED
  BY <1>1, <1>2, <1>3, InitTypeInv, FS_EmptySet, McpBoundaryAssumption DEF QuotaInv, QuotaHeld

LEMMA NextInProgress ==
  ASSUME QuotaInv, [Next]_vars
  PROVE  Cardinality(InProgress') <= MaxConcurrent
<1> USE DEF QuotaInv, TypeInv, TypeOK
<1>1. InProgress \subseteq Calls
  BY DEF InProgress
<1>2. CASE UNCHANGED vars
  <2>1. InProgress' = InProgress
    BY <1>2 DEF vars, InProgress
  <2>2. QED
    BY <2>1
<1>3. ASSUME NEW c \in Calls, Arrive(c) PROVE Cardinality(InProgress') <= MaxConcurrent
  <2>1. InProgress' \subseteq InProgress \cup {c}
    BY <1>3 DEF Arrive, Deny, Goto, InProgress
  <2>2. Cardinality(InProgress') <= Cardinality(InProgress) + 1
    <3>1. InProgress \cup {c} \subseteq Calls
      BY <1>1
    <3>2. Cardinality(InProgress') <= Cardinality(InProgress \cup {c})
      BY <2>1, <3>1, SubsetCounts
    <3>3. Cardinality(InProgress \cup {c}) <= Cardinality(InProgress) + 1
      BY <1>1, OneMore
    <3>4. Cardinality(InProgress') \in Nat /\ Cardinality(InProgress \cup {c}) \in Nat
          /\ Cardinality(InProgress) \in Nat
      BY <1>1, <2>1, <3>1, Countable
    <3>5. QED
      BY <3>2, <3>3, <3>4
  <2>3. Cardinality(InProgress) < MaxConcurrent
    BY <1>3 DEF Arrive
  <2>4. Cardinality(InProgress') \in Nat /\ Cardinality(InProgress) \in Nat
    BY <1>1, <2>1, Countable
  <2>5. QED
    BY <2>2, <2>3, <2>4, McpBoundaryAssumption
<1>4. ASSUME NEW c \in Calls,
             Count(c) \/ AuditAllowed(c) \/ AuditDenied(c) \/ Forward(c) \/ Expire(c)
      PROVE  Cardinality(InProgress') <= MaxConcurrent
  <2>1. InProgress' \subseteq InProgress
    BY <1>4 DEF Count, AuditAllowed, AuditFails, AuditDenied, Forward, Expire, Deny,
                Unavailable, Goto, InProgress
  <2>2. Cardinality(InProgress') <= Cardinality(InProgress)
    BY <1>1, <2>1, SubsetCounts
  <2>3. Cardinality(InProgress') \in Nat /\ Cardinality(InProgress) \in Nat
    BY <1>1, <2>1, Countable
  <2>4. QED
    BY <2>2, <2>3, McpBoundaryAssumption
<1>5. QED
  BY <1>2, <1>3, <1>4 DEF Next

\* A step that adds no allowed row and lets no call pass keeps the quota.
LEMMA QuotaShrinks ==
  ASSUME TypeOK, TypeOK', NEW client \in Clients, NEW tool \in Tools,
         QuotaHeld(client, tool),
         AllowedRecently(client, tool)' \subseteq AllowedRecently(client, tool),
         PassedFor(client, tool)' \subseteq PassedFor(client, tool)
  PROVE  QuotaHeld(client, tool)'
<1> DEFINE A == AllowedRecently(client, tool)
           P == PassedFor(client, tool)
<1>1. A \subseteq Calls /\ P \subseteq Calls
  BY DEF AllowedRecently, PassedFor, Passed, TypeOK
<1>2. A' \subseteq Calls /\ P' \subseteq Calls
  BY <1>1
<1>3. Cardinality(A') <= Cardinality(A) /\ Cardinality(P') <= Cardinality(P)
  BY <1>1, SubsetCounts
<1>4. /\ Cardinality(A) \in Nat /\ Cardinality(P) \in Nat
      /\ Cardinality(A') \in Nat /\ Cardinality(P') \in Nat
  BY <1>1, <1>2, Countable
<1>5. Cardinality(A) + Cardinality(P) <= Limit + MaxConcurrent - 1
  BY DEF QuotaHeld
<1> HIDE DEF A, P
<1>6. Cardinality(A') + Cardinality(P') <= Limit + MaxConcurrent - 1
  BY <1>3, <1>4, <1>5, McpBoundaryAssumption
<1>7. QED
  BY <1>6 DEF QuotaHeld, A, P

LEMMA NextQuota == QuotaInv /\ [Next]_vars => QuotaInv'
<1>1. SUFFICES ASSUME QuotaInv, [Next]_vars,
                      NEW client \in Clients, NEW tool \in Tools
               PROVE  QuotaHeld(client, tool)'
  BY NextTypeInv, NextInProgress DEF QuotaInv
<1> DEFINE A == AllowedRecently(client, tool)
           P == PassedFor(client, tool)
<1>2. TypeOK /\ TypeOK' /\ QuotaHeld(client, tool)
  BY <1>1, NextTypeInv DEF QuotaInv, TypeInv
<1>3. A \subseteq Calls /\ P \subseteq Calls /\ A' \subseteq Calls /\ P' \subseteq Calls
  BY <1>2 DEF AllowedRecently, PassedFor, Passed, TypeOK
<1>4. /\ Cardinality(A) \in Nat /\ Cardinality(P) \in Nat
      /\ Cardinality(A') \in Nat /\ Cardinality(P') \in Nat
  BY <1>3, Countable
<1>5. CASE UNCHANGED vars
  BY <1>2, <1>5, QuotaShrinks DEF vars, AllowedRecently, PassedFor, Passed
<1>6. ASSUME NEW c \in Calls, Arrive(c) PROVE QuotaHeld(client, tool)'
  BY <1>2, <1>6, QuotaShrinks
     DEF Arrive, Deny, Goto, AllowedRecently, PassedFor, Passed, TypeOK
<1>7. ASSUME NEW c \in Calls, Count(c) PROVE QuotaHeld(client, tool)'
  <2>1. A' = A
    BY <1>7 DEF Count, AllowedRecently
  <2>2. CASE P' \subseteq P
    BY <1>2, <2>1, <2>2, QuotaShrinks
  <2>3. CASE ~(P' \subseteq P)
    <3>1. c \in P' /\ ~IsRateLimited(c)
      BY <1>2, <1>7, <2>3
         DEF Count, Deny, Unavailable, Goto, PassedFor, Passed, TypeOK
    <3>2. A \subseteq Recent(c) /\ Recent(c) \subseteq Calls
      BY <1>2, <1>7, <3>1 DEF AllowedRecently, PassedFor, Recent, TypeOK, Count
    <3>3. Cardinality(A) <= Cardinality(Recent(c)) /\ Cardinality(Recent(c)) \in Nat
      BY <3>2, SubsetCounts, Countable
    <3>4. Cardinality(Recent(c)) < Limit
      BY <3>1, <3>3, McpBoundaryAssumption DEF IsRateLimited
    <3>5. P' \subseteq InProgress' /\ InProgress' \subseteq Calls
      BY <1>2 DEF PassedFor, Passed, InProgress, TypeOK
    <3>6. Cardinality(P') <= Cardinality(InProgress') /\ Cardinality(InProgress') \in Nat
      BY <3>5, SubsetCounts, Countable
    <3>7. Cardinality(InProgress') <= MaxConcurrent
      BY <1>1, NextInProgress
    <3> HIDE DEF A, P
    <3>8. Cardinality(A') + Cardinality(P') <= Limit + MaxConcurrent - 1
      BY <1>4, <2>1, <3>3, <3>4, <3>6, <3>7, McpBoundaryAssumption
    <3>9. QED
      BY <3>8 DEF QuotaHeld, A, P
  <2>4. QED
    BY <2>2, <2>3
<1>8. ASSUME NEW c \in Calls, AuditAllowed(c) PROVE QuotaHeld(client, tool)'
  <2>1. CASE A' \subseteq A
    <3>1. P' \subseteq P
      BY <1>2, <1>8 DEF AuditAllowed, AuditFails, Unavailable, Goto, PassedFor, Passed, TypeOK
    <3>2. QED
      BY <1>2, <2>1, <3>1, QuotaShrinks
  <2>2. CASE ~(A' \subseteq A)
    <3>1. A' \subseteq A \cup {c} /\ c \in P /\ P' \subseteq P \ {c}
      BY <1>2, <1>8, <2>2
         DEF AuditAllowed, AuditFails, Unavailable, WriteRow, NoRow, Goto, AllowedRecently,
             PassedFor, Passed, TypeOK
    <3>2. A \cup {c} \subseteq Calls /\ P \ {c} \subseteq Calls
      BY <1>3
    <3>3. Cardinality(A') <= Cardinality(A \cup {c}) /\ Cardinality(A \cup {c}) \in Nat
      BY <3>1, <3>2, SubsetCounts, Countable
    <3>4. Cardinality(A \cup {c}) <= Cardinality(A) + 1
      BY <1>3, OneMore
    <3>5. Cardinality(P') <= Cardinality(P \ {c}) /\ Cardinality(P \ {c}) = Cardinality(P) - 1
      BY <1>3, <3>1, <3>2, SubsetCounts, OneLess
    <3>6. Cardinality(A) + Cardinality(P) <= Limit + MaxConcurrent - 1
      BY <1>2 DEF QuotaHeld
    <3> HIDE DEF A, P
    <3>7. Cardinality(A') + Cardinality(P') <= Limit + MaxConcurrent - 1
      BY <1>4, <3>3, <3>4, <3>5, <3>6, McpBoundaryAssumption
    <3>8. QED
      BY <3>7 DEF QuotaHeld, A, P
  <2>3. QED
    BY <2>1, <2>2
<1>9. ASSUME NEW c \in Calls, AuditDenied(c) PROVE QuotaHeld(client, tool)'
  <2>1. Denial(answer[c]) # "ALLOWED"
    BY <1>1, <1>9 DEF QuotaInv, TypeInv, Refusing, AuditDenied, Denial
  <2>2. A' \subseteq A /\ P' \subseteq P
    BY <1>2, <1>9, <2>1 DEF AuditDenied, WriteRow, NoRow, Goto, AllowedRecently, PassedFor,
                            Passed, TypeOK
  <2>3. QED
    BY <1>2, <2>2, QuotaShrinks
<1>10. ASSUME NEW c \in Calls, Forward(c) \/ Expire(c) PROVE QuotaHeld(client, tool)'
  <2>1. A' \subseteq A /\ P' \subseteq P
    BY <1>2, <1>10 DEF Forward, Expire, Goto, AllowedRecently, PassedFor, Passed, TypeOK
  <2>2. QED
    BY <1>2, <2>1, QuotaShrinks
<1>11. QED
  BY <1>1, <1>5, <1>6, <1>7, <1>8, <1>9, <1>10 DEF Next

\* However many replicas count and write their rows in whatever order, a client
\* overshoots its limit for a tool by less than the number of POSTs handled at
\* once (security/rate_limiter.py is_rate_limited holds no lock).
THEOREM RateLimitHolds == Spec => []OvershootBounded
<1>1. Spec => []QuotaInv
  BY InitQuota, NextQuota, PTL DEF Spec
<1>2. ASSUME QuotaInv PROVE OvershootBounded
  <2>1. SUFFICES ASSUME NEW client \in Clients, NEW tool \in Tools
                 PROVE  Cardinality(AllowedRecently(client, tool)) <= Limit + MaxConcurrent - 1
    BY DEF OvershootBounded
  <2>2. AllowedRecently(client, tool) \subseteq Calls /\ PassedFor(client, tool) \subseteq Calls
    BY <1>2 DEF QuotaInv, TypeInv, TypeOK, AllowedRecently, PassedFor, Passed
  <2>3. /\ Cardinality(AllowedRecently(client, tool)) \in Nat
        /\ Cardinality(PassedFor(client, tool)) \in Nat
    BY <2>2, Countable
  <2>4. QuotaHeld(client, tool)
    BY <1>2 DEF QuotaInv
  <2>5. QED
    BY <2>3, <2>4, McpBoundaryAssumption DEF QuotaHeld
<1>3. QED
  BY <1>1, <1>2, PTL
=============================================================================
