------------------------- MODULE OrderRefundsProofs -------------------------
(***************************************************************************)
(* Proofs about OrderRefunds, for any orders, claims, rates and workers.   *)
(* Induction over finite sets is by a smallest counterexample.             *)
(***************************************************************************)
EXTENDS OrderRefunds, FiniteSetTheorems, WellFoundedInduction, TLAPS

----------------------------------------------------------------------------
(* Sums of refunds.                                                        *)

\* A set of subsets of a finite set has one that contains no other of them.
LEMMA SmallestSubset ==
  ASSUME NEW S, IsFiniteSet(S), NEW F, F \subseteq SUBSET S, F # {}
  PROVE  \E T \in F : \A U \in F : U \subseteq T => U = T
<1>1. IsWellFoundedOn(StrictSubsetOrdering(S), SUBSET S)
  BY FS_StrictSubsetOrderingWellFounded, FS_FiniteSubsetsOfFinite
<1>2. PICK T \in F : \A U \in F : <<U, T>> \notin StrictSubsetOrdering(S)
  BY <1>1, WFMin
<1>3. ASSUME NEW U \in F, U \subseteq T PROVE U = T
  BY <1>2, <1>3 DEF StrictSubsetOrdering
<1>4. QED
  BY <1>3

Pick(s) == CHOOSE x \in s : TRUE

LEMMA Picked == \A s : s # {} => Pick(s) \in s
  BY DEF Pick

\* What the fold computes over the subsets of S.
Adds(refunds, S, g) ==
  g = [s \in SUBSET S |->
         IF s = {} THEN 0 ELSE refunds[Pick(s)].cents + g[s \ {Pick(s)}]]

LEMMA TotalIs ==
  ASSUME NEW refunds, NEW S
  PROVE  Total(refunds, S) = (CHOOSE g : Adds(refunds, S, g))[S]
  BY DEF Total, MapThenSumSet, MapThenFoldSet, Adds, Pick

\* There is only one such function ...
LEMMA AddsOnce ==
  ASSUME NEW refunds, NEW S, IsFiniteSet(S), NEW g, NEW h, Adds(refunds, S, g), Adds(refunds, S, h)
  PROVE  g = h
<1> DEFINE Bad == {s \in SUBSET S : g[s] # h[s]}
<1>1. ASSUME NEW T \in Bad, \A U \in Bad : U \subseteq T => U = T PROVE FALSE
  <2>1. T \in SUBSET S /\ g[T] # h[T]
    OBVIOUS
  <2>2. /\ g[T] = IF T = {} THEN 0 ELSE refunds[Pick(T)].cents + g[T \ {Pick(T)}]
        /\ h[T] = IF T = {} THEN 0 ELSE refunds[Pick(T)].cents + h[T \ {Pick(T)}]
    BY <2>1 DEF Adds
  <2>3. T # {} /\ Pick(T) \in T
    BY <2>1, <2>2, Picked
  <2>4. T \ {Pick(T)} \notin Bad
    BY <1>1, <2>3
  <2>5. g[T \ {Pick(T)}] = h[T \ {Pick(T)}]
    BY <2>1, <2>4
  <2>6. QED
    BY <2>1, <2>2, <2>3, <2>5
<1>2. Bad = {}
  <2> HIDE DEF Bad
  <2>1. Bad \subseteq SUBSET S
    BY DEF Bad
  <2>2. QED
    BY <1>1, <2>1, SmallestSubset
<1>3. /\ g = [s \in SUBSET S |-> g[s]]
      /\ h = [s \in SUBSET S |-> h[s]]
  BY DEF Adds
<1>4. \A s \in SUBSET S : g[s] = h[s]
  BY <1>2
<1>5. QED
  BY <1>3, <1>4

\* ... it is the same for a smaller set ...
LEMMA AddsLess ==
  ASSUME NEW refunds, NEW S, NEW g, Adds(refunds, S, g), NEW T \in SUBSET S
  PROVE  Adds(refunds, T, [s \in SUBSET T |-> g[s]])
<1>1. ASSUME NEW s \in SUBSET T
      PROVE  g[s] = IF s = {} THEN 0 ELSE refunds[Pick(s)].cents + [t \in SUBSET T |-> g[t]][s \ {Pick(s)}]
  BY DEF Adds
<1>2. QED
  BY <1>1 DEF Adds

\* ... and there is one for every finite set.
LEMMA AddsExist ==
  ASSUME NEW refunds, NEW S, IsFiniteSet(S)
  PROVE  \E g : Adds(refunds, S, g)
<1> DEFINE Bad == {T \in SUBSET S : ~ \E g : Adds(refunds, T, g)}
           Sol(U) == CHOOSE g : Adds(refunds, U, g)
<1>1. ASSUME NEW T \in Bad, \A U \in Bad : U \subseteq T => U = T PROVE FALSE
  <2> DEFINE h == [s \in SUBSET T |-> IF s = {} THEN 0 ELSE
                     refunds[Pick(s)].cents + Sol(s \ {Pick(s)})[s \ {Pick(s)}]]
  <2>1. ASSUME NEW U \in SUBSET T, U # T PROVE Adds(refunds, U, Sol(U)) /\ IsFiniteSet(U)
    <3>1. \E g : Adds(refunds, U, g)
      BY <1>1, <2>1
    <3>2. IsFiniteSet(U)
      BY FS_Subset
    <3>3. QED
      BY <3>1, <3>2
  <2>2. ASSUME NEW u \in SUBSET T, u # T PROVE h[u] = Sol(u)[u]
    <3>1. Sol(u)[u] = IF u = {} THEN 0 ELSE refunds[Pick(u)].cents + Sol(u)[u \ {Pick(u)}]
      <4> HIDE DEF Sol
      <4>1. QED
        BY <2>1, <2>2 DEF Adds
    <3>2. CASE u = {}
      BY <3>1, <3>2
    <3>3. CASE u # {}
      <4> DEFINE v == u \ {Pick(u)}
      <4>1. v \in SUBSET u /\ v \in SUBSET T /\ v # T
        BY <3>3, Picked
      <4>2. Adds(refunds, v, [s \in SUBSET v |-> Sol(u)[s]])
        <5> HIDE DEF Sol, v
        <5>1. QED
          BY <2>1, <2>2, <4>1, AddsLess
      <4>3. Sol(v) = [s \in SUBSET v |-> Sol(u)[s]]
        <5> HIDE DEF Sol, v
        <5>1. QED
          BY <2>1, <4>1, <4>2, AddsOnce
      <4>4. Sol(v)[v] = Sol(u)[v]
        <5> HIDE DEF Sol, v
        <5>1. QED
          BY <4>3
      <4>5. QED
        <5> HIDE DEF Sol
        <5>1. QED
          BY <3>1, <3>3, <4>4
    <3>4. QED
      BY <3>2, <3>3
  <2>3. \A s \in SUBSET T : h[s] = IF s = {} THEN 0 ELSE refunds[Pick(s)].cents + h[s \ {Pick(s)}]
    <3>1. ASSUME NEW s \in SUBSET T, s # {} PROVE h[s \ {Pick(s)}] = Sol(s \ {Pick(s)})[s \ {Pick(s)}]
      <4>1. s \ {Pick(s)} \in SUBSET T /\ s \ {Pick(s)} # T
        BY <3>1, Picked
      <4>2. QED
        <5> HIDE DEF Sol, h
        <5>1. QED
          BY <2>2, <4>1
    <3>2. QED
      <4> HIDE DEF Sol
      <4>1. QED
        BY <3>1
  <2>4. Adds(refunds, T, h)
    <3>1. h = [s \in SUBSET T |-> h[s]]
      OBVIOUS
    <3>2. QED
      <4> HIDE DEF h
      <4>1. QED
        BY <2>3, <3>1 DEF Adds
  <2>5. QED
    <3> HIDE DEF h
    <3>1. QED
      BY <2>4
<1>2. Bad = {}
  <2> HIDE DEF Bad
  <2>1. Bad \subseteq SUBSET S
    BY DEF Bad
  <2>2. QED
    BY <1>1, <2>1, SmallestSubset
<1>3. QED
  BY <1>2

\* So the sum is what its recursion says.
LEMMA TotalUnfold ==
  ASSUME NEW refunds, NEW S, IsFiniteSet(S)
  PROVE  Total(refunds, S) = IF S = {} THEN 0
                             ELSE refunds[Pick(S)].cents + Total(refunds, S \ {Pick(S)})
<1> DEFINE Sol(U) == CHOOSE g : Adds(refunds, U, g)
           R == S \ {Pick(S)}
<1>1. Adds(refunds, S, Sol(S)) /\ Adds(refunds, R, Sol(R)) /\ IsFiniteSet(R)
  <2>1. IsFiniteSet(R)
    BY FS_Subset
  <2>2. QED
    BY <2>1, AddsExist
<1>2. Total(refunds, S) = Sol(S)[S] /\ Total(refunds, R) = Sol(R)[R]
  BY TotalIs
<1> HIDE DEF Sol
<1>3. Adds(refunds, R, [s \in SUBSET R |-> Sol(S)[s]])
  BY <1>1, AddsLess
<1>4. Sol(R) = [s \in SUBSET R |-> Sol(S)[s]]
  <2> HIDE DEF R
  <2>1. QED
    BY <1>1, <1>3, AddsOnce
<1>5. Sol(R)[R] = Sol(S)[R]
  <2> HIDE DEF R
  <2>1. QED
    BY <1>4
<1>6. Sol(S)[S] = IF S = {} THEN 0 ELSE refunds[Pick(S)].cents + Sol(S)[R]
  BY <1>1 DEF Adds
<1>7. QED
  BY <1>2, <1>5, <1>6

LEMMA TotalEmpty == \A refunds : Total(refunds, {}) = 0
  BY TotalUnfold, FS_EmptySet

\* A sum without any one of its terms, whichever the fold takes first.
LEMMA TotalRemove ==
  ASSUME NEW refunds, NEW S, IsFiniteSet(S), \A i \in S : refunds[i].cents \in Nat
  PROVE  /\ Total(refunds, S) \in Nat
         /\ \A y \in S : Total(refunds, S) = refunds[y].cents + Total(refunds, S \ {y})
<1> DEFINE Good(T) == /\ Total(refunds, T) \in Nat
                      /\ \A y \in T : Total(refunds, T) = refunds[y].cents + Total(refunds, T \ {y})
           Bad == {T \in SUBSET S : ~Good(T)}
<1>1. ASSUME NEW T \in Bad, \A U \in Bad : U \subseteq T => U = T PROVE FALSE
  <2>0. T \in SUBSET S /\ IsFiniteSet(T) /\ ~Good(T)
    BY FS_Subset
  <2>1. ASSUME NEW U \in SUBSET T, U # T PROVE Good(U)
    <3>1. U \notin Bad
      BY <1>1, <2>1
    <3>2. QED
      BY <2>0, <3>1
  <2>2. CASE T = {}
    BY <2>0, <2>2, TotalEmpty
  <2>3. CASE T # {}
    <3> DEFINE x == Pick(T)
    <3>1. x \in T /\ Total(refunds, T) = refunds[x].cents + Total(refunds, T \ {x})
      BY <2>0, <2>3, TotalUnfold, Picked
    <3> HIDE DEF x
    <3>2. Good(T \ {x})
      BY <2>1, <3>1
    <3>3. Total(refunds, T) \in Nat
      BY <2>0, <3>1, <3>2
    <3>4. ASSUME NEW y \in T, y # x PROVE Total(refunds, T) = refunds[y].cents + Total(refunds, T \ {y})
      <4>1. Total(refunds, T \ {x}) = refunds[y].cents + Total(refunds, (T \ {x}) \ {y})
        BY <3>2, <3>4
      <4>2. Good(T \ {y}) /\ x \in T \ {y}
        BY <2>1, <3>1, <3>4
      <4>3. Total(refunds, T \ {y}) = refunds[x].cents + Total(refunds, (T \ {y}) \ {x})
        BY <4>2
      <4>4. Good((T \ {x}) \ {y}) /\ (T \ {x}) \ {y} = (T \ {y}) \ {x}
        BY <2>1, <3>1, <3>4
      <4>5. refunds[x].cents \in Nat /\ refunds[y].cents \in Nat
        BY <2>0, <3>1, <3>4
      <4>6. Total(refunds, (T \ {x}) \ {y}) \in Nat
        BY <4>4
      <4>7. \A a, b, c : a \in Nat /\ b \in Nat /\ c \in Nat => a + (b + c) = b + (a + c)
        OBVIOUS
      <4>8. Total(refunds, T) = refunds[x].cents + (refunds[y].cents + Total(refunds, (T \ {x}) \ {y}))
        BY <3>1, <4>1
      <4>9. Total(refunds, T \ {y}) = refunds[x].cents + Total(refunds, (T \ {x}) \ {y})
        BY <4>3, <4>4
      <4> HIDE DEF Good
      <4>10. QED
        BY <4>5, <4>6, <4>7, <4>8, <4>9
    <3>5. QED
      BY <2>0, <3>1, <3>3, <3>4
  <2>4. QED
    BY <2>2, <2>3
<1>2. Bad = {}
  <2> HIDE DEF Bad
  <2>1. Bad \subseteq SUBSET S
    BY DEF Bad
  <2>2. QED
    BY <1>1, <2>1, SmallestSubset
<1>3. Good(S)
  BY <1>2
<1>4. QED
  BY <1>3

\* The sum looks at the amounts only.
LEMMA TotalSame ==
  ASSUME NEW refunds, NEW others, NEW S, IsFiniteSet(S),
         \A i \in S : refunds[i].cents = others[i].cents
  PROVE  Total(refunds, S) = Total(others, S)
<1> DEFINE Bad == {T \in SUBSET S : Total(refunds, T) # Total(others, T)}
<1>1. ASSUME NEW T \in Bad, \A U \in Bad : U \subseteq T => U = T PROVE FALSE
  <2>1. T \in SUBSET S /\ IsFiniteSet(T) /\ Total(refunds, T) # Total(others, T)
    BY FS_Subset
  <2>2. T # {}
    BY <2>1, TotalEmpty
  <2>3. Pick(T) \in T /\ Total(refunds, T \ {Pick(T)}) = Total(others, T \ {Pick(T)})
    BY <1>1, <2>1, <2>2, Picked
  <2>4. /\ Total(refunds, T) = refunds[Pick(T)].cents + Total(refunds, T \ {Pick(T)})
        /\ Total(others, T) = others[Pick(T)].cents + Total(others, T \ {Pick(T)})
    BY <2>1, <2>2, TotalUnfold
  <2>5. QED
    BY <2>1, <2>3, <2>4
<1>2. Bad = {}
  <2> HIDE DEF Bad
  <2>1. Bad \subseteq SUBSET S
    BY DEF Bad
  <2>2. QED
    BY <1>1, <2>1, SmallestSubset
<1>3. QED
  BY <1>2

\* The sum over two sets of rows.
LEMMA TotalUnion ==
  ASSUME NEW refunds, NEW S, IsFiniteSet(S), NEW T, IsFiniteSet(T), S \cap T = {},
         \A i \in S \cup T : refunds[i].cents \in Nat
  PROVE  /\ Total(refunds, S) \in Nat /\ Total(refunds, T) \in Nat
         /\ Total(refunds, S \cup T) = Total(refunds, S) + Total(refunds, T)
<1> DEFINE Bad == {U \in SUBSET S : Total(refunds, U \cup T) # Total(refunds, U) + Total(refunds, T)}
<1>0. Total(refunds, S) \in Nat /\ Total(refunds, T) \in Nat
  BY TotalRemove
<1>1. ASSUME NEW U \in Bad, \A V \in Bad : V \subseteq U => V = U PROVE FALSE
  <2>1. /\ U \in SUBSET S /\ IsFiniteSet(U) /\ IsFiniteSet(U \cup T)
        /\ Total(refunds, U \cup T) # Total(refunds, U) + Total(refunds, T)
    BY FS_Subset, FS_Union
  <2>2. PICK x : x \in U
    <3>1. ASSUME U = {} PROVE FALSE
      <4>1. U \cup T = T
        BY <3>1
      <4>2. Total(refunds, U \cup T) = Total(refunds, T) /\ Total(refunds, U) = 0
        BY <3>1, <4>1, TotalEmpty
      <4> DEFINE sum == Total(refunds, T)
      <4>3. sum \in Nat /\ sum # 0 + sum
        BY <1>0, <2>1, <4>2
      <4> HIDE DEF sum
      <4>4. QED
        BY <4>3
    <3>2. QED
      BY <3>1
  <2> DEFINE V == U \ {x}
  <2>3. V \in SUBSET S /\ V \notin Bad /\ IsFiniteSet(V) /\ (U \cup T) \ {x} = V \cup T
    BY <1>1, <2>1, <2>2, FS_Subset
  <2>4. Total(refunds, V \cup T) = Total(refunds, V) + Total(refunds, T)
    BY <2>3
  <2>5. /\ Total(refunds, V) \in Nat
        /\ Total(refunds, U) = refunds[x].cents + Total(refunds, V)
    BY <2>1, <2>2, <2>3, TotalRemove
  <2>6. Total(refunds, U \cup T) = refunds[x].cents + Total(refunds, V \cup T)
    <3>1. x \in U \cup T /\ \A i \in U \cup T : refunds[i].cents \in Nat
      BY <2>1, <2>2
    <3>2. Total(refunds, U \cup T) = refunds[x].cents + Total(refunds, (U \cup T) \ {x})
      BY <2>1, <3>1, TotalRemove
    <3>3. QED
      BY <2>3, <3>2
  <2>7. refunds[x].cents \in Nat
    BY <2>1, <2>2
  <2>8. QED
    <3> HIDE DEF V
    <3>1. QED
      BY <1>0, <2>1, <2>4, <2>5, <2>6, <2>7
<1>2. Bad = {}
  <2> HIDE DEF Bad
  <2>1. Bad \subseteq SUBSET S
    BY DEF Bad
  <2>2. QED
    BY <1>1, <2>1, SmallestSubset
<1>3. QED
  BY <1>0, <1>2

\* Fewer rows add up to no more.
LEMMA TotalSubset ==
  ASSUME NEW refunds, NEW S, IsFiniteSet(S), \A i \in S : refunds[i].cents \in Nat,
         NEW T \in SUBSET S
  PROVE  /\ Total(refunds, S) \in Nat /\ Total(refunds, T) \in Nat
         /\ Total(refunds, T) <= Total(refunds, S)
<1>1. IsFiniteSet(T) /\ IsFiniteSet(S \ T) /\ T \cup (S \ T) = S /\ T \cap (S \ T) = {}
  BY FS_Subset
<1>2. /\ Total(refunds, T) \in Nat /\ Total(refunds, S \ T) \in Nat
      /\ Total(refunds, T \cup (S \ T)) = Total(refunds, T) + Total(refunds, S \ T)
  <2>1. \A i \in T \cup (S \ T) : refunds[i].cents \in Nat
    BY <1>1
  <2>2. QED
    BY <1>1, <2>1, TotalUnion
<1>3. Total(refunds, S) = Total(refunds, T) + Total(refunds, S \ T)
  BY <1>1, <1>2
<1>4. QED
  BY <1>2, <1>3

\* A sum of terms that are at most c.
LEMMA TotalAtMost ==
  ASSUME NEW refunds, NEW S, IsFiniteSet(S), NEW c \in Nat,
         \A i \in S : refunds[i].cents \in Nat /\ refunds[i].cents <= c
  PROVE  Total(refunds, S) <= Cardinality(S) * c
<1> DEFINE Bad == {T \in SUBSET S : ~(Total(refunds, T) <= Cardinality(T) * c)}
<1>1. ASSUME NEW T \in Bad, \A U \in Bad : U \subseteq T => U = T PROVE FALSE
  <2>1. T \in SUBSET S /\ IsFiniteSet(T) /\ ~(Total(refunds, T) <= Cardinality(T) * c)
    BY FS_Subset
  <2>2. PICK x \in T : TRUE
    BY <2>1, TotalEmpty, FS_EmptySet
  <2>3. /\ T \ {x} \in SUBSET S /\ T \ {x} \notin Bad
        /\ IsFiniteSet(T \ {x}) /\ Cardinality(T \ {x}) = Cardinality(T) - 1
    BY <1>1, <2>1, <2>2, FS_RemoveElement
  <2>4. /\ Cardinality(T) \in Nat /\ Cardinality(T \ {x}) \in Nat
        /\ Total(refunds, T \ {x}) \in Nat
        /\ Total(refunds, T) = refunds[x].cents + Total(refunds, T \ {x})
    BY <2>1, <2>2, <2>3, FS_CardinalityType, TotalRemove
  <2>5. Total(refunds, T \ {x}) <= Cardinality(T \ {x}) * c
    BY <2>3
  <2>6. refunds[x].cents \in Nat /\ refunds[x].cents <= c
    BY <2>1, <2>2
  <2>7. Cardinality(T) * c = Cardinality(T \ {x}) * c + c
    <3> DEFINE n == Cardinality(T)  m == Cardinality(T \ {x})
    <3>1. n \in Nat /\ m \in Nat /\ n = m + 1
      BY <2>3, <2>4
    <3> HIDE DEF n, m
    <3>2. n * c = m * c + c
      BY <3>1
    <3>3. QED
      BY <3>2 DEF n, m
  <2>8. Cardinality(T \ {x}) * c \in Nat
    BY <2>4
  <2>9. QED
    BY <2>1, <2>4, <2>5, <2>6, <2>7, <2>8
<1>2. Bad = {}
  <2> HIDE DEF Bad
  <2>1. Bad \subseteq SUBSET S
    BY DEF Bad
  <2>2. QED
    BY <1>1, <2>1, SmallestSubset
<1>3. QED
  BY <1>2

----------------------------------------------------------------------------
(* Counting.                                                               *)

LEMMA MaxOfTwo ==
  ASSUME NEW a \in Nat, NEW b \in Nat
  PROVE  /\ Max({a, b}) \in Nat /\ Max({a, b}) \in {a, b}
         /\ Max({a, b}) >= a /\ Max({a, b}) >= b
<1>1. \E x \in {a, b} : \A y \in {a, b} : x >= y
  OBVIOUS
<1>2. Max({a, b}) \in {a, b} /\ \A y \in {a, b} : Max({a, b}) >= y
  BY <1>1 DEF Max
<1>3. QED
  BY <1>2

\* Fewer requests outstanding count for no more.
LEMMA FewerOutstanding ==
  ASSUME IsFiniteSet(Requests), NEW S, NEW T, S \subseteq Requests, T \subseteq S
  PROVE  Cardinality(T) \in Nat /\ Cardinality(S) \in Nat /\ Cardinality(T) <= Cardinality(S)
<1>1. IsFiniteSet(S)
  BY FS_Subset
<1>2. QED
  BY <1>1, FS_Subset, FS_CardinalityType

----------------------------------------------------------------------------
(* Types.                                                                  *)

OldRows == UNION {{l[i] : i \in DOMAIN l} : l \in OldLedgers}

NewRows == [request : Requests, order : {c.order : c \in Claims}, cents : Nat,
            currency : {c.currency : c \in Claims}, readAt : Nat]

TypeInv ==
  /\ TypeOK
  /\ ledger \in Seq(OldRows \cup NewRows)
  /\ old \in Nat /\ old <= Len(ledger)
  /\ readAt \in [Requests -> Nat]
  /\ calls \subseteq [request : Requests, readAt : Nat]

LEMMA InitTypeInv == Init => TypeInv
<1> SUFFICES ASSUME Init PROVE TypeInv
  OBVIOUS
<1>1. ledger \in Seq({ledger[i] : i \in DOMAIN ledger})
  BY OrderRefundsAssumption DEF Init
<1>2. {ledger[i] : i \in DOMAIN ledger} \subseteq OldRows \cup NewRows
  BY DEF Init, OldRows
<1>3. ledger \in Seq(OldRows \cup NewRows) /\ Len(ledger) \in Nat
  BY <1>1, <1>2
<1>4. Outstanding = {}
  BY DEF Init, Outstanding, Active
<1>5. Cardinality(Outstanding) = 0
  BY <1>4, FS_EmptySet
<1>6. ASSUME NEW i \in DOMAIN ledger PROVE ledger[i].cents \in Nat /\ ~(i > old)
  <2>1. ledger \in OldLedgers /\ old = Len(ledger)
    BY DEF Init
  <2>2. ledger[i].cents \in Nat
    BY <2>1, OrderRefundsAssumption
  <2>3. i \in 1 .. Len(ledger)
    BY <1>3
  <2>4. QED
    BY <1>3, <2>1, <2>2, <2>3
<1>7. QED
  BY <1>3, <1>5, <1>6, OrderRefundsAssumption DEF Init, TypeInv, TypeOK, Phases

\* What the tool stores of a claim.
LEMMA RowType ==
  ASSUME TypeInv, NEW call \in calls
  PROVE  RefundRow(call) \in NewRows
<1>1. claim[call.request] \in Claims /\ call.request \in Requests /\ call.readAt \in Nat
  BY DEF TypeInv, TypeOK
<1>2. Stored(claim[call.request].mills) \in Nat
  <2>1. claim[call.request].mills \in Nat
    BY <1>1, OrderRefundsAssumption
  <2>2. QED
    BY <2>1 DEF Stored
<1>3. QED
  BY <1>1, <1>2 DEF RefundRow, NewRows

\* Steps other than Start take nothing new to the MCP server.
LEMMA OutstandingShrinks ==
  ASSUME TypeInv, Outstanding' \subseteq Outstanding, peak' = peak
  PROVE  peak' \in Nat /\ Cardinality(Outstanding') <= peak'
<1>1. Outstanding \subseteq Requests
  BY DEF Outstanding, Active, TypeInv, TypeOK
<1>2. /\ Cardinality(Outstanding') \in Nat /\ Cardinality(Outstanding) \in Nat
      /\ Cardinality(Outstanding') <= Cardinality(Outstanding)
  BY <1>1, FewerOutstanding, OrderRefundsAssumption
<1>3. QED
  BY <1>2 DEF TypeInv, TypeOK

LEMMA NextTypeInv == TypeInv /\ [Next]_vars => TypeInv'
<1> SUFFICES ASSUME TypeInv, [Next]_vars PROVE TypeInv'
  OBVIOUS
<1>0. Len(ledger) \in Nat /\ DOMAIN ledger = 1 .. Len(ledger)
  BY DEF TypeInv
<1>1. CASE UNCHANGED vars
  BY <1>1 DEF vars, TypeInv, TypeOK, Outstanding, Active
<1>2. ASSUME NEW r \in Requests, Start(r) PROVE TypeInv'
  <2>1. /\ phase' = [phase EXCEPT ![r] = "asking"]
        /\ UNCHANGED <<claim, counted, readAt, calls, ledger, old, outrun, redeliveries>>
        /\ peak' = Max({peak, Cardinality(Outstanding \cup {r})})
    BY <1>2 DEF Start, Goto
  <2>2. Outstanding' = Outstanding \cup {r}
    BY <2>1, <1>2 DEF Outstanding, Active, TypeInv, TypeOK, Start
  <2>3. Outstanding \cup {r} \subseteq Requests
    BY DEF Outstanding, Active, TypeInv, TypeOK
  <2>4. Cardinality(Outstanding \cup {r}) \in Nat
    BY <2>3, FewerOutstanding, OrderRefundsAssumption
  <2>5. peak' \in Nat /\ Cardinality(Outstanding') <= peak'
    BY <2>1, <2>2, <2>4, MaxOfTwo DEF TypeInv, TypeOK
  <2>6. QED
    BY <2>1, <2>5 DEF TypeInv, TypeOK, Phases
<1>3. ASSUME NEW r \in Requests, CountHistory(r) PROVE TypeInv'
  <2>1. RefundCount(claim[r].user) \in Nat
    <3>1. IsFiniteSet(1 .. Len(ledger))
      BY <1>0, FS_Interval
    <3>2. IsFiniteSet({i \in DOMAIN ledger : IsOf(claim[r].user, ledger[i])})
      BY <1>0, <3>1, FS_Subset
    <3>3. QED
      BY <3>2, FS_CardinalityType DEF RefundCount, UserRefunds
  <2>2. /\ phase' = [phase EXCEPT ![r] = "counted"] /\ peak' = peak
        /\ UNCHANGED <<claim, calls, ledger, old, outrun, redeliveries>>
        /\ counted' = [counted EXCEPT ![r] = RefundCount(claim[r].user)]
        /\ readAt' = [readAt EXCEPT ![r] = Len(ledger)] /\ phase[r] = "asking"
    BY <1>3 DEF CountHistory, Goto
  <2>3. Outstanding' \subseteq Outstanding
    BY <2>2 DEF Outstanding, Active, TypeInv, TypeOK
  <2>4. peak' \in Nat /\ Cardinality(Outstanding') <= peak'
    BY <2>2, <2>3, OutstandingShrinks
  <2>5. QED
    BY <1>0, <2>1, <2>2, <2>4 DEF TypeInv, TypeOK, Phases
<1>4. ASSUME NEW r \in Requests, ListAndCheck(r) \/ Reject(r) \/ GiveUp(r) PROVE TypeInv'
  <2>1. /\ phase[r] \in {"counted", "passed", "calling"} /\ peak' = peak
        /\ phase' = [phase EXCEPT ![r] = "done"]
             \/ phase' = [phase EXCEPT ![r] = "passed"]
        /\ outrun' \in {outrun, outrun \cup {r}}
        /\ UNCHANGED <<claim, counted, readAt, calls, ledger, old, redeliveries>>
    BY <1>4 DEF ListAndCheck, Reject, GiveUp, Goto
  <2>2. Outstanding' \subseteq Outstanding
    BY <2>1 DEF Outstanding, Active, TypeInv, TypeOK
  <2>3. peak' \in Nat /\ Cardinality(Outstanding') <= peak'
    BY <2>1, <2>2, OutstandingShrinks
  <2>4. QED
    BY <2>1, <2>3 DEF TypeInv, TypeOK, Phases
<1>5. ASSUME NEW r \in Requests, Approve(r) PROVE TypeInv'
  <2>1. /\ phase[r] = "passed" /\ phase' = [phase EXCEPT ![r] = "calling"] /\ peak' = peak
        /\ calls' = calls \cup {[request |-> r, readAt |-> readAt[r]]}
        /\ UNCHANGED <<claim, counted, readAt, ledger, old, outrun, redeliveries>>
    BY <1>5 DEF Approve, Goto
  <2>2. Outstanding' \subseteq Outstanding
    BY <2>1 DEF Outstanding, Active, TypeInv, TypeOK
  <2>3. peak' \in Nat /\ Cardinality(Outstanding') <= peak'
    BY <2>1, <2>2, OutstandingShrinks
  <2>4. QED
    BY <2>1, <2>3 DEF TypeInv, TypeOK, Phases
<1>6. ASSUME NEW r \in Requests, Redeliver(r) PROVE TypeInv'
  <2>1. /\ phase[r] = "done" /\ phase' = [phase EXCEPT ![r] = "new"] /\ peak' = peak
        /\ redeliveries' \in 0 .. MaxRedeliveries
        /\ UNCHANGED <<claim, counted, readAt, calls, ledger, old, outrun>>
    BY <1>6, OrderRefundsAssumption DEF Redeliver, Goto, TypeInv, TypeOK
  <2>2. Outstanding' \subseteq Outstanding
    BY <2>1 DEF Outstanding, Active, TypeInv, TypeOK
  <2>3. peak' \in Nat /\ Cardinality(Outstanding') <= peak'
    BY <2>1, <2>2, OutstandingShrinks
  <2>4. QED
    BY <2>1, <2>3 DEF TypeInv, TypeOK, Phases
<1>7. ASSUME NEW call \in calls, ToolRuns(call) PROVE TypeInv'
  <2>1. /\ calls' = calls \ {call} /\ peak' = peak /\ ledger' = RecordRefund(call)
        /\ UNCHANGED <<claim, counted, readAt, old, outrun, redeliveries>>
        /\ phase' = phase \/ phase' = [phase EXCEPT ![call.request] = "done"]
    BY <1>7 DEF ToolRuns
  <2>2. Outstanding' \subseteq Outstanding /\ phase' \in [Requests -> Phases]
    <3>1. call.request \in Requests /\ phase \in [Requests -> Phases]
      BY DEF TypeInv, TypeOK
    <3>2. phase' \in [Requests -> Phases]
      BY <2>1, <3>1 DEF Phases
    <3>3. Active' \subseteq Active
      BY <2>1, <3>1 DEF Active
    <3>4. QED
      BY <2>1, <3>2, <3>3 DEF Outstanding
  <2>3. peak' \in Nat /\ Cardinality(Outstanding') <= peak'
    BY <2>1, <2>2, OutstandingShrinks
  <2>4. CASE ledger' = ledger
    BY <2>1, <2>2, <2>3, <2>4 DEF TypeInv, TypeOK
  <2>5. CASE /\ ledger' = Append(ledger, RefundRow(call))
             /\ ~ \E i \in DOMAIN ledger : ledger[i].request = call.request
    <3>1. RefundRow(call) \in NewRows /\ RefundRow(call).request = call.request
          /\ RefundRow(call).cents \in Nat /\ call.request \in Requests
      BY RowType DEF RefundRow, NewRows, TypeInv
    <3>2. /\ ledger' \in Seq(OldRows \cup NewRows)
          /\ Len(ledger') = Len(ledger) + 1
          /\ \A i \in 1 .. Len(ledger) : ledger'[i] = ledger[i]
          /\ ledger'[Len(ledger) + 1] = RefundRow(call)
      BY <2>5, <3>1, <1>0 DEF TypeInv
    <3>3. ASSUME NEW i \in DOMAIN ledger'
          PROVE  /\ ledger'[i].cents \in Nat
                 /\ i > old' => /\ ledger'[i].request \in Requests
                                /\ \A k \in 1 .. i - 1 : ledger'[k].request # ledger'[i].request
      <4>1. CASE i \in 1 .. Len(ledger)
        BY <1>0, <2>1, <3>2, <4>1 DEF TypeInv, TypeOK
      <4>2. CASE i = Len(ledger) + 1
        BY <1>0, <2>1, <2>5, <3>1, <3>2, <4>2
      <4>3. QED
        BY <1>0, <3>2, <4>1, <4>2
    <3>4. /\ old \in Nat /\ old <= Len(ledger')
          /\ \A r \in Requests : readAt[r] \in old .. Len(ledger')
          /\ \A c \in calls' : c.request \in Requests /\ c.readAt \in old .. Len(ledger')
      BY <1>0, <2>1, <3>2 DEF TypeInv, TypeOK
    <3>5. QED
      BY <2>1, <2>2, <2>3, <3>2, <3>3, <3>4 DEF TypeInv, TypeOK
  <2>6. QED
    BY <2>1, <2>4, <2>5 DEF RecordRefund
<1>8. QED
  BY <1>1, <1>2, <1>3, <1>4, <1>5, <1>6, <1>7 DEF Next

\* However late and however often the tool is called, a request has at most one
\* row on the ledger (refund_repository.py, record_refund).
THEOREM TypeCorrect == Spec => []TypeOK
<1>1. Spec => []TypeInv
  BY InitTypeInv, NextTypeInv, PTL DEF Spec
<1>2. TypeInv => TypeOK
  BY DEF TypeInv
<1>3. QED
  BY <1>1, <1>2, PTL

----------------------------------------------------------------------------
(* The rules of the evidence check.                                        *)

\* The claim of r has passed them, and its refund is within the limit.
Passed(r) ==
  /\ FollowsRules(r)
  /\ Usd(Money(claim[r].mills), claim[r].currency) <= Threshold

\* What a check found is carried by its worker, then by the call.
PassedInv ==
  /\ \A r \in Requests : phase[r] = "passed" => Passed(r)
  /\ \A c \in calls : Passed(c.request)
  /\ RefundsFollowRules

\* What is stored is what was compared with the order and the limit.
LEMMA StoredAsCompared == \A mills : Stored(mills) = Money(mills)
  BY DEF Stored, Money

LEMMA InitPassed == Init => PassedInv
<1> SUFFICES ASSUME Init PROVE PassedInv
  OBVIOUS
<1>1. \A r \in Requests : phase[r] # "passed"
  BY DEF Init
<1>2. Len(ledger) \in Nat /\ old = Len(ledger)
  BY InitTypeInv DEF Init, TypeInv
<1>3. old + 1 .. Len(ledger) = {}
  BY <1>2
<1>4. QED
  BY <1>1, <1>3 DEF Init, PassedInv, RefundsFollowRules

LEMMA NextPassed == TypeInv /\ PassedInv /\ [Next]_vars => PassedInv'
<1> SUFFICES ASSUME TypeInv, PassedInv, [Next]_vars PROVE PassedInv'
  OBVIOUS
<1>0. /\ Len(ledger) \in Nat /\ DOMAIN ledger = 1 .. Len(ledger)
      /\ old \in Nat /\ phase \in [Requests -> Phases]
  BY DEF TypeInv, TypeOK
<1>1. claim' = claim /\ old' = old
  BY DEF Next, vars, Start, CountHistory, ListAndCheck, Approve, Reject, GiveUp,
         Redeliver, ToolRuns
<1>2. CASE UNCHANGED vars
  BY <1>2 DEF vars, PassedInv, Passed, FollowsRules, RefundsFollowRules
<1>3. ASSUME NEW r \in Requests, Start(r) \/ CountHistory(r) \/ Reject(r) \/ GiveUp(r)
                                   \/ Redeliver(r)
      PROVE  PassedInv'
  <2>1. /\ UNCHANGED <<calls, ledger>>
        /\ \A s \in Requests : phase'[s] = "passed" => phase[s] = "passed"
    BY <1>0, <1>3 DEF Start, CountHistory, Reject, GiveUp, Redeliver, Goto
  <2>2. QED
    BY <1>1, <2>1 DEF PassedInv, Passed, FollowsRules, RefundsFollowRules
<1>4. ASSUME NEW r \in Requests, ListAndCheck(r) PROVE PassedInv'
  <2>1. UNCHANGED <<calls, ledger>>
    BY <1>4 DEF ListAndCheck
  <2>2. \A s \in Requests \ {r} : phase'[s] = phase[s]
    BY <1>0, <1>4 DEF ListAndCheck, Goto
  <2>3. ASSUME phase'[r] = "passed" PROVE Passed(r)
    <3>1. EvidencePasses(r, counted[r], Listed(claim[r].user))
      BY <1>0, <1>4, <2>3 DEF ListAndCheck, Goto
    <3>2. QED
      BY <3>1 DEF EvidencePasses, Passed, FollowsRules
  <2>4. \A s \in Requests : phase'[s] = "passed" => Passed(s)
    BY <2>2, <2>3 DEF PassedInv
  <2>5. QED
    BY <1>1, <2>1, <2>4 DEF PassedInv, Passed, FollowsRules, RefundsFollowRules
<1>5. ASSUME NEW r \in Requests, Approve(r) PROVE PassedInv'
  <2>1. /\ ledger' = ledger
        /\ calls' = calls \cup {[request |-> r, readAt |-> readAt[r]]}
        /\ \A s \in Requests : phase'[s] = "passed" => phase[s] = "passed"
    BY <1>0, <1>5 DEF Approve, Goto
  <2>2. Passed(r)
    BY <1>5 DEF Approve, PassedInv
  <2>3. \A c \in calls' : Passed(c.request)
    BY <2>1, <2>2 DEF PassedInv
  <2>4. QED
    BY <1>1, <2>1, <2>3 DEF PassedInv, Passed, FollowsRules, RefundsFollowRules
<1>6. ASSUME NEW call \in calls, ToolRuns(call) PROVE PassedInv'
  <2>1. /\ ledger' = RecordRefund(call) /\ calls' \subseteq calls
        /\ \A s \in Requests : phase'[s] = "passed" => phase[s] = "passed"
    BY <1>0, <1>6 DEF ToolRuns
  <2>2. CASE ledger' = ledger
    BY <1>1, <2>1, <2>2 DEF PassedInv, Passed, FollowsRules, RefundsFollowRules
  <2>3. CASE ledger' = Append(ledger, RefundRow(call))
    <3> DEFINE row == RefundRow(call)
    <3>1. ledger \in Seq(OldRows \cup NewRows) /\ row \in OldRows \cup NewRows
      BY RowType DEF TypeInv
    <3>2. /\ Len(ledger') = Len(ledger) + 1
          /\ \A i \in 1 .. Len(ledger) : ledger'[i] = ledger[i]
          /\ ledger'[Len(ledger) + 1] = row
      BY <2>3, <3>1
    <3>3. /\ FollowsRules(row.request)
          /\ row.order = claim[row.request].order /\ row.currency = claim[row.request].currency
          /\ Usd(row.cents, row.currency) <= Threshold
      BY StoredAsCompared DEF RefundRow, PassedInv, Passed
    <3>4. RefundsFollowRules'
      <4> DEFINE Obeys(x) == /\ FollowsRules(x.request)
                             /\ x.order = claim[x.request].order
                             /\ x.currency = claim[x.request].currency
                             /\ Usd(x.cents, x.currency) <= Threshold
      <4>1. \A i \in old + 1 .. Len(ledger) : Obeys(ledger[i])
        BY DEF PassedInv, RefundsFollowRules
      <4>2. Obeys(row)
        BY <3>3
      <4>3. ASSUME NEW i \in old' + 1 .. Len(ledger') PROVE Obeys(ledger'[i])
        <5> HIDE DEF Obeys, row
        <5>1. QED
          BY <1>0, <1>1, <3>2, <4>1, <4>2
      <4>4. QED
        BY <1>1, <4>3 DEF RefundsFollowRules, FollowsRules, Usd
    <3>5. QED
      BY <1>1, <2>1, <3>4 DEF PassedInv, Passed, FollowsRules
  <2>4. QED
    BY <2>1, <2>2, <2>3 DEF RecordRefund
<1>7. QED
  BY <1>2, <1>3, <1>4, <1>5, <1>6 DEF Next

\* A refund obeys the rules of the evidence check whatever happens between the
\* check and the tool: a late call, a redelivery, other workers
\* (evidence_check.py against mcp_server.py and refund_repository.py).
THEOREM RulesFollowed == Spec => []RefundsFollowRules
<1>1. Spec => [](TypeInv /\ PassedInv)
  BY InitTypeInv, NextTypeInv, InitPassed, NextPassed, PTL DEF Spec
<1>2. PassedInv => RefundsFollowRules
  BY DEF PassedInv
<1>3. QED
  BY <1>1, <1>2, PTL

----------------------------------------------------------------------------
(* What the check has seen still fits.                                     *)

LEMMA Least ==
  ASSUME NEW T, T \subseteq Nat, T # {}
  PROVE  \E n \in T : \A m \in T : n <= m
<1> DEFINE R == {ss \in Nat \X Nat : ss[1] < ss[2]}
<1>1. IsWellFoundedOn(R, Nat)
  BY NatLessThanWellFounded DEF OpToRel
<1>2. PICK n \in T : \A m \in T : <<m, n>> \notin R
  <2> HIDE DEF R
  <2>1. QED
    BY <1>1, WFMin
<1>3. ASSUME NEW m \in T PROVE n <= m
  <2>1. m \in Nat /\ n \in Nat /\ <<m, n>> \notin R
    BY <1>2
  <2>2. QED
    BY <2>1
<1>4. QED
  BY <1>3

\* A list of at most n rows is not cut.
LEMMA NotCut ==
  ASSUME NEW rows, rows \subseteq Nat, IsFiniteSet(rows), NEW n \in Nat, Cardinality(rows) <= n
  PROVE  Newest(rows, n) = rows
<1>1. ASSUME NEW i \in rows PROVE Cardinality({k \in rows : k > i}) < n
  <2>1. /\ IsFiniteSet(rows \ {i}) /\ Cardinality(rows \ {i}) = Cardinality(rows) - 1
        /\ Cardinality(rows) \in Nat
    BY FS_RemoveElement, FS_CardinalityType
  <2>2. {k \in rows : k > i} \in SUBSET (rows \ {i})
    OBVIOUS
  <2>3. /\ Cardinality({k \in rows : k > i}) <= Cardinality(rows \ {i})
        /\ Cardinality({k \in rows : k > i}) \in Nat
    BY <2>1, <2>2, FS_Subset, FS_CardinalityType
  <2>4. QED
    BY <2>1, <2>3
<1>2. QED
  BY <1>1 DEF Newest

\* A list that has as many rows as there are has them all.
LEMMA WholeList ==
  ASSUME NEW rows, rows \subseteq Nat, IsFiniteSet(rows), NEW n \in Nat, NEW count \in Nat,
         Cardinality(rows) <= count \/ Cardinality(rows) <= n,
         Complete(count, Newest(rows, n))
  PROVE  Newest(rows, n) = rows
<1>1. CASE Cardinality(rows) <= n
  BY <1>1, NotCut
<1>2. CASE Cardinality(rows) <= count
  <2>1. Newest(rows, n) \in SUBSET rows
    BY DEF Newest
  <2>2. /\ Cardinality(Newest(rows, n)) <= Cardinality(rows)
        /\ Cardinality(Newest(rows, n)) \in Nat /\ Cardinality(rows) \in Nat
        /\ Cardinality(rows) = Cardinality(Newest(rows, n)) => rows = Newest(rows, n)
    BY <2>1, FS_Subset, FS_CardinalityType
  <2>3. QED
    BY <1>2, <2>2 DEF Complete
<1>3. QED
  BY <1>1, <1>2

\* A longer list is cut: its oldest row is gone.
LEMMA Cut ==
  ASSUME NEW rows, rows \subseteq Nat, IsFiniteSet(rows), NEW n \in Nat, Cardinality(rows) > n
  PROVE  Cardinality(Newest(rows, n)) < Cardinality(rows)
<1>1. Cardinality(rows) \in Nat /\ rows # {}
  BY FS_CardinalityType, FS_EmptySet
<1>2. PICK m \in rows : \A k \in rows : m <= k
  BY <1>1, Least
<1>3. {k \in rows : k > m} = rows \ {m}
  <2>1. \A k \in rows : k > m <=> k # m
    BY <1>2
  <2>2. QED
    BY <2>1
<1>4. Cardinality(rows \ {m}) = Cardinality(rows) - 1
  BY FS_RemoveElement
<1>5. m \notin Newest(rows, n)
  BY <1>1, <1>3, <1>4 DEF Newest
<1>6. Newest(rows, n) \in SUBSET rows /\ Newest(rows, n) # rows
  BY <1>5 DEF Newest
<1>7. /\ Cardinality(Newest(rows, n)) <= Cardinality(rows)
      /\ Cardinality(Newest(rows, n)) \in Nat
      /\ Cardinality(Newest(rows, n)) # Cardinality(rows)
  BY <1>6, FS_Subset, FS_CardinalityType
<1>8. QED
  BY <1>1, <1>7

\* The refunds of a claim's order that its check at p counts.
Seen(r, p) == {k \in OnOrder(claim[r].order, 1, p) : ledger[k].request # r}

\* The refund of r fits in its order with what the ledger had at p.
Fits(r, p) ==
  LET order  == Order[claim[r].order]
      amount == Money(claim[r].mills)
  IN
  /\ amount <= order.cents
  /\ r \notin outrun =>
       /\ \A k \in Seen(r, p) : ledger[k].currency = order.currency
       /\ amount > 0 => amount + Total(ledger, Seen(r, p)) <= order.cents

\* Carried from the check to the call and from the call to the row.
FitInv ==
  /\ \A r \in Requests : phase[r] = "passed" => Fits(r, readAt[r])
  /\ \A c \in calls : Fits(c.request, c.readAt)
  /\ \A i \in old + 1 .. Len(ledger) :
       /\ Fits(ledger[i].request, ledger[i].readAt)
       /\ ledger[i].cents = Money(claim[ledger[i].request].mills)
       /\ ledger[i].readAt \in old .. i - 1

\* Rows are added at the end, and a history once outrun stays so.
LEMMA OnlyGrows ==
  ASSUME TypeInv, [Next]_vars
  PROVE  /\ claim' = claim /\ old' = old /\ outrun \subseteq outrun'
         /\ Len(ledger) \in Nat /\ Len(ledger') \in Nat /\ Len(ledger') >= Len(ledger)
         /\ \A i \in 1 .. Len(ledger) : ledger'[i] = ledger[i]
<1>1. claim' = claim /\ old' = old /\ outrun \subseteq outrun'
  BY DEF Next, vars, Start, CountHistory, ListAndCheck, Approve, Reject, GiveUp,
         Redeliver, ToolRuns
<1>2. ledger \in Seq(OldRows \cup NewRows)
  BY DEF TypeInv
<1>3. ledger' = ledger \/ \E call \in calls : ledger' = RecordRefund(call)
  BY DEF Next, vars, Start, CountHistory, ListAndCheck, Approve, Reject, GiveUp,
         Redeliver, ToolRuns
<1>4. ASSUME NEW call \in calls, ledger' = Append(ledger, RefundRow(call))
      PROVE  /\ Len(ledger') = Len(ledger) + 1
             /\ \A i \in 1 .. Len(ledger) : ledger'[i] = ledger[i]
  <2>1. RefundRow(call) \in OldRows \cup NewRows
    BY RowType
  <2>2. QED
    BY <1>2, <1>4, <2>1
<1>5. ledger' = ledger \/ \E call \in calls : ledger' = Append(ledger, RefundRow(call))
  BY <1>3 DEF RecordRefund
<1>6. QED
  BY <1>1, <1>2, <1>4, <1>5

\* Rows of the ledger up to p, and their amounts.
LEMMA RowsTo ==
  ASSUME TypeInv, NEW p \in 0 .. Len(ledger)
  PROVE  /\ IsFiniteSet(1 .. p)
         /\ \A k \in 1 .. p : k \in Nat /\ k \in DOMAIN ledger /\ ledger[k].cents \in Nat
<1>1. Len(ledger) \in Nat /\ DOMAIN ledger = 1 .. Len(ledger)
  BY DEF TypeInv
<1>2. IsFiniteSet(1 .. p)
  BY <1>1, FS_Interval
<1>3. \A k \in DOMAIN ledger : ledger[k].cents \in Nat
  BY DEF TypeInv, TypeOK
<1>4. \A k \in 1 .. p : k \in Nat /\ k \in DOMAIN ledger
  BY <1>1
<1>5. QED
  BY <1>2, <1>3, <1>4

LEMMA FitsStays ==
  ASSUME TypeInv, [Next]_vars, NEW r, NEW p \in 0 .. Len(ledger), Fits(r, p)
  PROVE  Fits(r, p)'
<1>1. /\ claim' = claim /\ outrun \subseteq outrun' /\ Len(ledger) \in Nat
      /\ \A i \in 1 .. Len(ledger) : ledger'[i] = ledger[i]
  BY OnlyGrows
<1>2. \A k \in 1 .. p : ledger'[k] = ledger[k]
  BY <1>1
<1>3. Seen(r, p)' = Seen(r, p)
  BY <1>1, <1>2 DEF Seen, OnOrder
<1>4. Total(ledger', Seen(r, p)) = Total(ledger, Seen(r, p))
  <2>1. Seen(r, p) \in SUBSET (1 .. p)
    BY DEF Seen, OnOrder
  <2>2. IsFiniteSet(Seen(r, p)) /\ \A k \in Seen(r, p) : ledger'[k].cents = ledger[k].cents
    BY <1>2, <2>1, RowsTo, FS_Subset
  <2>3. QED
    BY <2>2, TotalSame
<1>5. \A k \in Seen(r, p) : ledger'[k].currency = ledger[k].currency
  BY <1>2 DEF Seen, OnOrder
<1>6. Total(ledger, Seen(r, p))' = Total(ledger', Seen(r, p))
  BY <1>3
<1>7. QED
  BY <1>1, <1>3, <1>4, <1>5, <1>6 DEF Fits, Money

\* What a passed check has found, if the list had every refund.
LEMMA CheckFinds ==
  ASSUME TypeInv, NEW r \in Requests, NEW count,
         EvidencePasses(r, count, UserRefunds(claim[r].user))
  PROVE  /\ \A k \in Seen(r, Len(ledger)) :
              ledger[k].currency = Order[claim[r].order].currency
         /\ Money(claim[r].mills) > 0 =>
              Money(claim[r].mills) + Total(ledger, Seen(r, Len(ledger)))
                <= Order[claim[r].order].cents
<1> DEFINE listed   == UserRefunds(claim[r].user)
           previous == {i \in listed : Counts(r, ledger[i])}
           cents    == Order[claim[r].order].cents
           amount   == Money(claim[r].mills)
           refunded == Total(ledger, previous)
<1>0. Len(ledger) \in Nat /\ DOMAIN ledger = 1 .. Len(ledger)
  BY DEF TypeInv
<1>1. /\ claim[r].order \in DOMAIN Order /\ Order[claim[r].order].user = claim[r].user
      /\ \A i \in previous : ledger[i].currency = Order[claim[r].order].currency
      /\ amount <= Remaining(cents, refunded)
  BY DEF EvidencePasses
<1>2. previous = Seen(r, Len(ledger))
  BY <1>0, <1>1 DEF Seen, OnOrder, Counts, UserRefunds, IsOf
<1>3. refunded \in Nat
  <2>1. previous \in SUBSET (1 .. Len(ledger))
    BY <1>0 DEF UserRefunds
  <2>2. IsFiniteSet(1 .. Len(ledger)) /\ \A k \in 1 .. Len(ledger) : ledger[k].cents \in Nat
    BY <1>0, RowsTo
  <2> HIDE DEF previous
  <2>3. QED
    BY <2>1, <2>2, TotalSubset
<1>4. cents \in Nat
  BY <1>1, OrderRefundsAssumption
<1>5. amount \in Nat
  <2>1. claim[r] \in Claims
    BY DEF TypeInv, TypeOK
  <2>2. claim[r].mills \in Nat
    BY <2>1, OrderRefundsAssumption
  <2>3. QED
    BY <2>2 DEF Money
<1> HIDE DEF amount, cents, refunded
<1>6. amount > 0 => amount + refunded <= cents
  BY <1>1, <1>3, <1>4, <1>5 DEF Remaining
<1>7. QED
  BY <1>1, <1>2, <1>6 DEF amount, cents, refunded

\* A check that passes on a list as long as the ledger's rows has seen them all.
LEMMA CheckFits ==
  ASSUME TypeInv, [Next]_vars, NEW r \in Requests, ListAndCheck(r), phase'[r] = "passed"
  PROVE  Fits(r, readAt[r])'
<1> DEFINE rows   == UserRefunds(claim[r].user)
           listed == Listed(claim[r].user)
           cents  == Order[claim[r].order].cents
           amount == Money(claim[r].mills)
           p      == readAt[r]
<1>0. Len(ledger) \in Nat /\ DOMAIN ledger = 1 .. Len(ledger) /\ p \in 0 .. Len(ledger)
  BY DEF TypeInv, TypeOK
<1>1. /\ UNCHANGED <<claim, ledger, readAt>> /\ phase[r] = "counted"
      /\ EvidencePasses(r, counted[r], listed)
      /\ r \notin outrun' => RefundCount(claim[r].user) <= Max({counted[r], HistoryLimit})
  <2>1. RefundCount(claim[r].user) > Max({counted[r], HistoryLimit}) => r \in outrun'
    BY DEF ListAndCheck
  <2>2. RefundCount(claim[r].user) \in Nat
    <3>1. IsFiniteSet(rows)
      BY <1>0, RowsTo, FS_Subset DEF UserRefunds
    <3>2. QED
      BY <3>1, FS_CardinalityType DEF RefundCount
  <2>3. Max({counted[r], HistoryLimit}) \in Nat
    BY MaxOfTwo, OrderRefundsAssumption DEF TypeInv, TypeOK
  <2>4. UNCHANGED <<claim, ledger, readAt>> /\ phase[r] = "counted" /\ phase \in [Requests -> Phases]
    BY DEF ListAndCheck, TypeInv, TypeOK
  <2>5. EvidencePasses(r, counted[r], listed)
    BY <2>4 DEF ListAndCheck, Goto
  <2>6. QED
    BY <2>1, <2>2, <2>3, <2>4, <2>5
<1>2. amount \in Nat /\ cents \in Nat
  <2>1. claim[r] \in Claims /\ claim[r].order \in DOMAIN Order
    BY <1>1 DEF TypeInv, TypeOK, EvidencePasses
  <2>2. claim[r].mills \in Nat
    BY <2>1, OrderRefundsAssumption
  <2>3. QED
    BY <2>1, <2>2, OrderRefundsAssumption DEF Money
<1>3. amount <= cents
  <2> DEFINE refunded == Total(ledger, {i \in listed : Counts(r, ledger[i])})
  <2>1. amount <= Remaining(cents, refunded)
    BY <1>1 DEF EvidencePasses
  <2>2. refunded \in Nat
    <3>1. {i \in listed : Counts(r, ledger[i])} \in SUBSET (1 .. Len(ledger))
      BY <1>0 DEF UserRefunds, Listed, Newest
    <3>2. IsFiniteSet(1 .. Len(ledger)) /\ \A k \in 1 .. Len(ledger) : ledger[k].cents \in Nat
      BY <1>0, RowsTo
    <3> HIDE DEF listed
    <3>3. QED
      BY <3>1, <3>2, TotalSubset
  <2> HIDE DEF amount, cents, refunded
  <2>3. QED
    BY <1>2, <2>1, <2>2 DEF Remaining
<1>4. ASSUME r \notin outrun'
      PROVE  /\ \A k \in Seen(r, p) : ledger[k].currency = Order[claim[r].order].currency
             /\ amount > 0 => amount + Total(ledger, Seen(r, p)) <= cents
  <2>1. rows \in SUBSET (1 .. Len(ledger)) /\ IsFiniteSet(rows) /\ rows \subseteq Nat
    <3>1. rows \in SUBSET (1 .. Len(ledger))
      BY <1>0 DEF UserRefunds
    <3>2. QED
      BY <1>0, <3>1, RowsTo, FS_Subset
  <2>2. Cardinality(rows) <= counted[r] \/ Cardinality(rows) <= HistoryLimit
    <3>1. Cardinality(rows) <= Max({counted[r], HistoryLimit})
      BY <1>1, <1>4 DEF RefundCount
    <3>2. Max({counted[r], HistoryLimit}) \in {counted[r], HistoryLimit}
      BY MaxOfTwo, OrderRefundsAssumption DEF TypeInv, TypeOK
    <3>3. QED
      BY <3>1, <3>2
  <2>3. Complete(counted[r], listed)
    BY <1>1 DEF EvidencePasses
  <2>4. listed = rows
    <3>1. counted[r] \in Nat /\ HistoryLimit \in Nat
      BY OrderRefundsAssumption DEF TypeInv, TypeOK
    <3>2. listed = Newest(rows, HistoryLimit)
      BY DEF Listed
    <3> HIDE DEF rows, listed
    <3>3. QED
      BY <2>1, <2>2, <2>3, <3>1, <3>2, WholeList
  <2>5. EvidencePasses(r, counted[r], rows)
    BY <1>1, <2>4
  <2>6. /\ \A k \in Seen(r, Len(ledger)) :
             ledger[k].currency = Order[claim[r].order].currency
        /\ amount > 0 => amount + Total(ledger, Seen(r, Len(ledger))) <= cents
    BY <2>5, CheckFinds
  <2>7. Seen(r, p) \in SUBSET Seen(r, Len(ledger))
    BY <1>0 DEF Seen, OnOrder
  <2>8. /\ IsFiniteSet(Seen(r, Len(ledger)))
        /\ \A k \in Seen(r, Len(ledger)) : ledger[k].cents \in Nat
    <3>1. Seen(r, Len(ledger)) \in SUBSET (1 .. Len(ledger)) /\ Len(ledger) \in 0 .. Len(ledger)
      BY <1>0 DEF Seen, OnOrder
    <3>2. QED
      BY <3>1, RowsTo, FS_Subset
  <2>9. /\ Total(ledger, Seen(r, Len(ledger))) \in Nat /\ Total(ledger, Seen(r, p)) \in Nat
        /\ Total(ledger, Seen(r, p)) <= Total(ledger, Seen(r, Len(ledger)))
    BY <2>7, <2>8, TotalSubset
  <2> HIDE DEF amount, cents
  <2>10. QED
    BY <1>2, <2>6, <2>7, <2>9
<1>5. Fits(r, p)' <=> /\ amount <= cents
                      /\ r \notin outrun' =>
                           /\ \A k \in Seen(r, p) : ledger[k].currency = Order[claim[r].order].currency
                           /\ amount > 0 => amount + Total(ledger, Seen(r, p)) <= cents
  <2>1. Seen(r, p)' = Seen(r, p)
    BY <1>1 DEF Seen, OnOrder
  <2>2. QED
    BY <1>1, <2>1 DEF Fits, Money
<1>6. QED
  BY <1>3, <1>4, <1>5

LEMMA InitFit == Init => FitInv
<1> SUFFICES ASSUME Init PROVE FitInv
  OBVIOUS
<1>1. \A r \in Requests : phase[r] # "passed"
  BY DEF Init
<1>2. Len(ledger) \in Nat /\ old = Len(ledger) /\ calls = {}
  BY InitTypeInv DEF Init, TypeInv
<1>3. old + 1 .. Len(ledger) = {}
  BY <1>2
<1>4. QED
  BY <1>1, <1>2, <1>3 DEF FitInv

LEMMA NextFit == TypeInv /\ FitInv /\ [Next]_vars => FitInv'
<1> SUFFICES ASSUME TypeInv, FitInv, [Next]_vars PROVE FitInv'
  OBVIOUS
<1>0. /\ Len(ledger) \in Nat /\ old \in Nat /\ old <= Len(ledger)
      /\ phase \in [Requests -> Phases]
      /\ \A r \in Requests : readAt[r] \in old .. Len(ledger)
      /\ \A c \in calls : c.request \in Requests /\ c.readAt \in old .. Len(ledger)
  BY DEF TypeInv, TypeOK
<1>1. /\ claim' = claim /\ old' = old
      /\ \A i \in 1 .. Len(ledger) : ledger'[i] = ledger[i]
  BY OnlyGrows
\* What fitted still fits: so do the rows there are ...
<1>2. ASSUME NEW i \in old + 1 .. Len(ledger)
      PROVE  /\ Fits(ledger[i].request, ledger[i].readAt)'
             /\ ledger'[i].cents = Money(claim'[ledger'[i].request].mills)
             /\ ledger'[i].readAt \in old' .. i - 1
  <2>1. ledger[i].readAt \in 0 .. Len(ledger) /\ i \in 1 .. Len(ledger)
    BY <1>0 DEF FitInv
  <2>2. Fits(ledger[i].request, ledger[i].readAt)
    BY DEF FitInv
  <2>3. \A r, p : r = ledger[i].request /\ p = ledger[i].readAt => Fits(r, p)'
    BY <2>1, <2>2, FitsStays
  <2>4. ledger'[i] = ledger[i]
    BY <1>1, <2>1
  <2>5. Fits(ledger[i].request, ledger[i].readAt)'
    BY <2>3, <2>4
  <2>6. QED
    BY <1>1, <2>4, <2>5 DEF FitInv
\* ... the calls ...
<1>3. ASSUME NEW c \in calls PROVE Fits(c.request, c.readAt)'
  <2>1. c.readAt \in 0 .. Len(ledger) /\ Fits(c.request, c.readAt)
    BY <1>0 DEF FitInv
  <2>2. QED
    BY <2>1, FitsStays
\* ... and the claims that have passed.
<1>4. ASSUME NEW r \in Requests, phase[r] = "passed", readAt'[r] = readAt[r]
      PROVE  Fits(r, readAt[r])'
  <2>1. readAt[r] \in 0 .. Len(ledger) /\ Fits(r, readAt[r])
    BY <1>0, <1>4 DEF FitInv
  <2>2. \A p : p = readAt[r] => Fits(r, p)'
    BY <2>1, FitsStays
  <2>3. QED
    BY <1>4, <2>2
<1>5. CASE UNCHANGED vars
  <2>1. UNCHANGED <<phase, readAt, calls, ledger, old>>
    BY <1>5 DEF vars
  <2>2. QED
    BY <1>1, <1>2, <1>3, <1>4, <2>1 DEF FitInv
<1>6. ASSUME NEW r \in Requests, Start(r) \/ Reject(r) \/ GiveUp(r) \/ Redeliver(r)
      PROVE  FitInv'
  <2>1. /\ UNCHANGED <<calls, ledger, readAt>>
        /\ \A s \in Requests : phase'[s] = "passed" => phase[s] = "passed"
    BY <1>0, <1>6 DEF Start, Reject, GiveUp, Redeliver, Goto
  <2>2. QED
    BY <1>1, <1>2, <1>3, <1>4, <2>1 DEF FitInv
<1>7. ASSUME NEW r \in Requests, CountHistory(r) PROVE FitInv'
  <2>1. /\ UNCHANGED <<calls, ledger>>
        /\ \A s \in Requests : phase'[s] = "passed" => phase[s] = "passed" /\ s # r
        /\ \A s \in Requests \ {r} : readAt'[s] = readAt[s]
    BY <1>0, <1>7 DEF CountHistory, Goto, TypeInv
  <2>2. QED
    BY <1>1, <1>2, <1>3, <1>4, <2>1 DEF FitInv
<1>8. ASSUME NEW r \in Requests, ListAndCheck(r) PROVE FitInv'
  <2>1. /\ UNCHANGED <<calls, ledger, readAt>>
        /\ \A s \in Requests \ {r} : phase'[s] = phase[s]
    BY <1>0, <1>8 DEF ListAndCheck, Goto
  <2>2. phase'[r] = "passed" => Fits(r, readAt[r])'
    BY <1>8, CheckFits
  <2>3. \A s \in Requests : phase'[s] = "passed" => Fits(s, readAt[s])'
    BY <1>4, <2>1, <2>2
  <2>4. QED
    BY <1>1, <1>2, <1>3, <2>1, <2>3 DEF FitInv
<1>9. ASSUME NEW r \in Requests, Approve(r) PROVE FitInv'
  <2>1. /\ UNCHANGED <<ledger, readAt>> /\ phase[r] = "passed"
        /\ calls' = calls \cup {[request |-> r, readAt |-> readAt[r]]}
        /\ \A s \in Requests : phase'[s] = "passed" => phase[s] = "passed"
    BY <1>0, <1>9 DEF Approve, Goto
  <2>2. \A c \in calls' : Fits(c.request, c.readAt)'
    <3>1. Fits(r, readAt[r])'
      BY <1>4, <2>1
    <3>2. ASSUME NEW c, c = [request |-> r, readAt |-> readAt[r]] PROVE Fits(c.request, c.readAt)'
      <4>1. c.request = r /\ c.readAt = readAt[r] /\ readAt' = readAt
        BY <2>1, <3>2
      <4>2. QED
        BY <3>1, <4>1
    <3>3. QED
      BY <1>3, <2>1, <3>2
  <2>3. QED
    BY <1>1, <1>2, <1>4, <2>1, <2>2 DEF FitInv
<1>10. ASSUME NEW call \in calls, ToolRuns(call) PROVE FitInv'
  <2>1. /\ ledger' = RecordRefund(call) /\ calls' \subseteq calls /\ readAt' = readAt
        /\ \A s \in Requests : phase'[s] = "passed" => phase[s] = "passed"
    BY <1>0, <1>10 DEF ToolRuns
  <2>2. \A i \in old' + 1 .. Len(ledger') :
          /\ Fits(ledger[i].request, ledger[i].readAt)'
          /\ ledger'[i].cents = Money(claim'[ledger'[i].request].mills)
          /\ ledger'[i].readAt \in old' .. i - 1
    <3>1. CASE ledger' = ledger
      BY <1>1, <1>2, <3>1
    <3>2. CASE ledger' = Append(ledger, RefundRow(call))
      <4> DEFINE n == Len(ledger) + 1
      <4>1. ledger \in Seq(OldRows \cup NewRows) /\ RefundRow(call) \in OldRows \cup NewRows
        BY RowType DEF TypeInv
      <4>2. Len(ledger') = n /\ ledger'[n] = RefundRow(call)
        BY <3>2, <4>1
      <4>3. /\ ledger'[n].request = call.request /\ ledger'[n].readAt = call.readAt
            /\ ledger'[n].cents = Money(claim[call.request].mills)
        BY <4>2, StoredAsCompared DEF RefundRow
      <4>4. ASSUME NEW i, i = Len(ledger) + 1 PROVE Fits(ledger[i].request, ledger[i].readAt)'
        BY <1>3, <4>2, <4>3, <4>4
      <4>5. QED
        BY <1>0, <1>1, <1>2, <4>2, <4>3, <4>4
    <3>3. QED
      BY <2>1, <3>1, <3>2 DEF RecordRefund
  <2>3. QED
    BY <1>1, <1>3, <1>4, <2>1, <2>2 DEF FitInv
<1>11. QED
  BY <1>5, <1>6, <1>7, <1>8, <1>9, <1>10 DEF Next

\* A refund fitted in its order with all that its check could see, however many
\* workers check and refund meanwhile and however late the call is
\* (evidence_check.py, check_refund_evidence; refund_repository.py).
THEOREM RefundsFit == Spec => []RefundsFitTheirCheck
<1>1. Spec => [](TypeInv /\ PassedInv /\ FitInv)
  BY InitTypeInv, NextTypeInv, InitPassed, NextPassed, InitFit, NextFit, PTL DEF Spec
<1>2. PassedInv /\ FitInv => RefundsFitTheirCheck
  <2> SUFFICES ASSUME PassedInv, FitInv, NEW i \in old + 1 .. Len(ledger),
                      ledger[i].cents > 0, ledger[i].request \notin outrun
               PROVE  LET x    == ledger[i]
                          seen == {k \in OnOrder(x.order, 1, x.readAt) :
                                     ledger[k].request # x.request}
                      IN x.cents + Total(ledger, seen) <= Order[x.order].cents
    BY DEF RefundsFitTheirCheck
  <2>1. ledger[i].order = claim[ledger[i].request].order
    BY DEF PassedInv, RefundsFollowRules
  <2>2. /\ Fits(ledger[i].request, ledger[i].readAt)
        /\ ledger[i].cents = Money(claim[ledger[i].request].mills)
    BY DEF FitInv
  <2>3. QED
    BY <2>1, <2>2 DEF Fits, Seen
<1>3. QED
  BY <1>1, <1>2, PTL

LEMMA UserRows ==
  ASSUME TypeInv, NEW u
  PROVE  /\ UserRefunds(u) \subseteq Nat /\ IsFiniteSet(UserRefunds(u))
         /\ RefundCount(u) \in Nat
<1>1. Len(ledger) \in Nat /\ UserRefunds(u) \in SUBSET (1 .. Len(ledger))
  BY DEF TypeInv, UserRefunds
<1>2. IsFiniteSet(1 .. Len(ledger)) /\ \A i \in 1 .. Len(ledger) : i \in Nat
  BY <1>1, RowsTo
<1>3. IsFiniteSet(UserRefunds(u)) /\ UserRefunds(u) \subseteq Nat
  BY <1>1, <1>2, FS_Subset
<1>4. QED
  BY <1>3, FS_CardinalityType DEF RefundCount

\* Nobody's refunds grow fewer.
LEMMA CountGrows ==
  ASSUME TypeInv, TypeInv', [Next]_vars, NEW u
  PROVE  /\ RefundCount(u) \in Nat /\ RefundCount(u)' \in Nat
         /\ RefundCount(u) <= RefundCount(u)'
<1>1. /\ Len(ledger) \in Nat /\ Len(ledger') \in Nat /\ Len(ledger') >= Len(ledger)
      /\ \A i \in 1 .. Len(ledger) : ledger'[i] = ledger[i]
      /\ DOMAIN ledger = 1 .. Len(ledger) /\ DOMAIN ledger' = 1 .. Len(ledger')
  BY OnlyGrows DEF TypeInv
<1>2. UserRefunds(u) \in SUBSET UserRefunds(u)'
  <2>1. ASSUME NEW i \in UserRefunds(u) PROVE i \in UserRefunds(u)'
    <3>1. i \in 1 .. Len(ledger) /\ i \in 1 .. Len(ledger') /\ IsOf(u, ledger[i])
      BY <1>1 DEF UserRefunds
    <3>2. IsOf(u, ledger'[i])
      BY <1>1, <3>1
    <3>3. QED
      BY <1>1, <3>1, <3>2 DEF UserRefunds, IsOf
  <2>2. QED
    BY <2>1
<1>3. UserRefunds(u)' \in SUBSET (1 .. Len(ledger'))
  BY <1>1 DEF UserRefunds
<1>4. IsFiniteSet(UserRefunds(u)')
  <2>1. IsFiniteSet(1 .. Len(ledger'))
    BY <1>1, FS_Interval
  <2>2. QED
    BY <1>3, <2>1, FS_Subset
<1>5. QED
  BY <1>2, <1>4, FS_Subset, FS_CardinalityType DEF RefundCount

\* A history that was outrun is longer than the list, and stays so.
OutrunInv == \A r \in outrun : RefundCount(claim[r].user) > HistoryLimit

LEMMA NextOutrun == TypeInv /\ OutrunInv /\ [Next]_vars => OutrunInv'
<1> SUFFICES ASSUME TypeInv, OutrunInv, [Next]_vars, NEW r \in outrun'
             PROVE  (RefundCount(claim[r].user))' > HistoryLimit
  BY DEF OutrunInv
<1>1. claim' = claim /\ TypeInv' /\ HistoryLimit \in Nat
  BY OnlyGrows, NextTypeInv, OrderRefundsAssumption
<1>2. PICK u : u = claim[r].user
  OBVIOUS
<1>3. /\ RefundCount(u) \in Nat /\ RefundCount(u)' \in Nat
      /\ RefundCount(u) <= RefundCount(u)'
  BY <1>1, CountGrows
<1>4. (RefundCount(claim[r].user))' = RefundCount(u)'
  <2>1. claim'[r].user = u
    BY <1>1, <1>2
  <2>2. QED
    BY <2>1 DEF RefundCount, UserRefunds, IsOf
<1>5. RefundCount(u) > HistoryLimit
  <2>1. CASE r \in outrun
    BY <1>2, <2>1 DEF OutrunInv
  <2>2. CASE r \notin outrun
    <3>1. PICK q \in Requests : ListAndCheck(q)
      BY <2>2 DEF Next, vars, Start, CountHistory, Approve, Reject, GiveUp, Redeliver, ToolRuns
    <3>2. r \in Requests /\ RefundCount(u) > Max({counted[r], HistoryLimit})
      BY <1>2, <2>2, <3>1 DEF ListAndCheck
    <3>3. counted[r] \in Nat
      BY <3>2 DEF TypeInv, TypeOK
    <3>4. /\ Max({counted[r], HistoryLimit}) >= HistoryLimit
          /\ Max({counted[r], HistoryLimit}) \in Nat
      BY <1>1, <3>3, MaxOfTwo
    <3>5. QED
      BY <1>1, <1>3, <3>2, <3>4
  <2>3. QED
    BY <2>1, <2>2
<1>6. QED
  BY <1>1, <1>3, <1>4, <1>5

\* A refund that was made still fits, and its claim's check finds so if the list
\* it is shown has all of its user's refunds.
LEMMA StillPasses ==
  ASSUME TypeInv, PassedInv, FitInv, NEW i \in old + 1 .. Len(ledger),
         {k \in OnOrder(ledger[i].order, ledger[i].readAt + 1, Len(ledger)) : k # i} = {},
         ledger[i].request \notin outrun
  PROVE  LET r == ledger[i].request
         IN EvidencePasses(r, RefundCount(claim[r].user), UserRefunds(claim[r].user))
<1> DEFINE r        == ledger[i].request
           p        == ledger[i].readAt
           order    == Order[claim[r].order]
           rows     == UserRefunds(claim[r].user)
           previous == {k \in rows : Counts(r, ledger[k])}
           amount   == Money(claim[r].mills)
           refunded == Total(ledger, previous)
<1>0. /\ Len(ledger) \in Nat /\ DOMAIN ledger = 1 .. Len(ledger) /\ old \in Nat
      /\ i \in 1 .. Len(ledger) /\ r \in Requests
      /\ \A k \in 1 .. i - 1 : ledger[k].request # r
  BY DEF TypeInv, TypeOK
<1>1. FollowsRules(r) /\ ledger[i].order = claim[r].order /\ ledger[i].cents = amount
  BY DEF PassedInv, RefundsFollowRules, FitInv
<1>2. Fits(r, p) /\ p \in old .. i - 1
  BY DEF FitInv
<1>3. Usd(amount, claim[r].currency) <= Threshold
  BY <1>1 DEF PassedInv, RefundsFollowRules
<1>4. previous = Seen(r, p)
  <2>1. ASSUME NEW k \in previous PROVE k \in Seen(r, p)
    <3>1. k \in 1 .. Len(ledger) /\ ledger[k].order = claim[r].order /\ ledger[k].request # r
      BY <1>0 DEF UserRefunds, Counts
    <3>2. k # i
      BY <3>1
    <3>3. ~(k \in p + 1 .. Len(ledger))
      BY <1>1, <3>1, <3>2 DEF OnOrder
    <3>4. k \in 1 .. p
      BY <1>0, <1>2, <3>1, <3>3
    <3>5. QED
      BY <3>1, <3>4 DEF Seen, OnOrder
  <2>2. ASSUME NEW k \in Seen(r, p) PROVE k \in previous
    <3>1. k \in 1 .. Len(ledger) /\ ledger[k].order = claim[r].order /\ ledger[k].request # r
      BY <1>0, <1>2 DEF Seen, OnOrder
    <3>2. QED
      BY <1>0, <1>1, <3>1 DEF UserRefunds, Counts, IsOf, FollowsRules
  <2>3. QED
    BY <2>1, <2>2
<1>5. IsFiniteSet(rows) /\ IsFiniteSet(previous) /\ refunded \in Nat
  <2>1. rows \in SUBSET (1 .. Len(ledger)) /\ previous \in SUBSET (1 .. Len(ledger))
    BY <1>0 DEF UserRefunds
  <2>2. IsFiniteSet(1 .. Len(ledger)) /\ \A k \in 1 .. Len(ledger) : ledger[k].cents \in Nat
    BY <1>0, RowsTo
  <2> HIDE DEF rows, previous
  <2>3. QED
    BY <2>1, <2>2, FS_Subset, TotalSubset
<1>6. Complete(RefundCount(claim[r].user), rows)
  <2>1. Cardinality(rows) \in Nat
    BY <1>5, FS_CardinalityType
  <2>2. QED
    BY <2>1 DEF Complete, RefundCount
<1>7. amount \in Nat /\ order.cents \in Nat
  <2>1. ledger[i].cents \in Nat
    BY <1>0 DEF TypeInv, TypeOK
  <2>2. QED
    BY <1>1, <2>1, OrderRefundsAssumption DEF FollowsRules
<1>8. amount <= Remaining(order.cents, refunded)
  <2> DEFINE cents == order.cents
  <2>1. amount > 0 => amount + refunded <= cents
    BY <1>2, <1>4 DEF Fits
  <2>2. cents \in Nat /\ amount \in Nat /\ refunded \in Nat
    BY <1>5, <1>7
  <2> HIDE DEF amount, cents, refunded
  <2>3. amount <= Remaining(cents, refunded)
    BY <2>1, <2>2 DEF Remaining
  <2>4. QED
    BY <2>3 DEF cents
<1>9. \A k \in previous : ledger[k].currency = order.currency
  BY <1>2, <1>4 DEF Fits
<1>10. QED
  BY <1>1, <1>3, <1>6, <1>8, <1>9 DEF EvidencePasses, FollowsRules

\* A claim that comes again after its own refund, with nobody else refunded on
\* its order since its check, passes the check again exactly while the refunds
\* of its user fit in the list get_refund_history returns: below that its own
\* refund does not count against it, above it the history is incomplete
\* (evidence_check.py, check_refund_evidence; mcp_server.py, get_refund_history).
THEOREM RecheckAlwaysAgrees == Spec => []RecheckAgrees
<1>1. Init => OutrunInv
  BY DEF Init, OutrunInv
<1>2. Spec => [](TypeInv /\ PassedInv /\ FitInv /\ OutrunInv)
  BY <1>1, InitTypeInv, NextTypeInv, InitPassed, NextPassed, InitFit, NextFit, NextOutrun, PTL
  DEF Spec
<1>3. TypeInv /\ PassedInv /\ FitInv /\ OutrunInv => RecheckAgrees
  <2> SUFFICES ASSUME TypeInv, PassedInv, FitInv, OutrunInv, NEW i \in old + 1 .. Len(ledger),
                      {k \in OnOrder(ledger[i].order, ledger[i].readAt + 1, Len(ledger)) : k # i} = {}
               PROVE  LET r    == ledger[i].request
                          user == claim[r].user
                      IN EvidencePasses(r, RefundCount(user), Listed(user))
                           <=> RefundCount(user) <= HistoryLimit
    BY DEF RecheckAgrees
  <2> DEFINE r    == ledger[i].request
             user == claim[r].user
             rows == UserRefunds(user)
  <2>1. /\ rows \subseteq Nat /\ IsFiniteSet(rows) /\ RefundCount(user) = Cardinality(rows)
        /\ RefundCount(user) \in Nat /\ HistoryLimit \in Nat
        /\ Listed(user) = Newest(rows, HistoryLimit)
    BY UserRows, OrderRefundsAssumption DEF RefundCount, Listed
  <2>2. CASE RefundCount(user) <= HistoryLimit
    <3>1. Listed(user) = rows
      <4> HIDE DEF rows
      <4>1. QED
        BY <2>1, <2>2, NotCut
    <3>2. r \notin outrun
      BY <2>1, <2>2 DEF OutrunInv
    <3>3. EvidencePasses(r, RefundCount(user), rows)
      BY <3>2, StillPasses
    <3>4. QED
      BY <2>2, <3>1, <3>3
  <2>3. CASE ~(RefundCount(user) <= HistoryLimit)
    <3>1. Cardinality(Listed(user)) < Cardinality(rows)
      <4> HIDE DEF rows
      <4>1. Cardinality(rows) > HistoryLimit
        BY <2>1, <2>3
      <4>2. QED
        BY <2>1, <4>1, Cut
    <3>2. Cardinality(Listed(user)) \in Nat
      <4> HIDE DEF rows
      <4>1. Listed(user) \in SUBSET rows
        BY <2>1 DEF Newest
      <4>2. QED
        BY <2>1, <4>1, FS_Subset, FS_CardinalityType
    <3>3. ~Complete(RefundCount(user), Listed(user))
      <4> HIDE DEF rows, user
      <4>1. QED
        BY <2>1, <3>1, <3>2 DEF Complete
    <3>4. QED
      BY <2>3, <3>3 DEF EvidencePasses
  <2>4. QED
    BY <2>2, <2>3
<1>4. QED
  BY <1>2, <1>3, PTL

----------------------------------------------------------------------------
(* How much an order is refunded at most.                                  *)

\* Requests on their way when the ledger had p rows: their check has not seen
\* more than these, and their refund is later or still to come.
Straddle(p) ==
  {ledger[i].request : i \in {k \in p + 1 .. Len(ledger) : ledger[k].readAt <= p}}
    \cup {c.request : c \in {d \in calls : d.readAt <= p}}
    \cup {r \in Requests : phase[r] \in {"counted", "passed", "calling"} /\ readAt[r] <= p}

\* They were all outstanding at that time.
PeakInv == \A p \in old .. Len(ledger) : Cardinality(Straddle(p)) <= peak

LEMMA StraddleOfRequests ==
  ASSUME TypeInv, NEW p \in old .. Len(ledger)
  PROVE  Straddle(p) \subseteq Requests
<1>1. /\ Len(ledger) \in Nat /\ old \in Nat
      /\ \A i \in old + 1 .. Len(ledger) : ledger[i].request \in Requests
      /\ \A c \in calls : c.request \in Requests
  BY DEF TypeInv, TypeOK
<1>2. \A i \in p + 1 .. Len(ledger) : i \in old + 1 .. Len(ledger)
  BY <1>1
<1>3. QED
  BY <1>1, <1>2 DEF Straddle

LEMMA StraddleOutstanding ==
  ASSUME TypeInv
  PROVE  Cardinality(Straddle(Len(ledger))) <= peak
<1>1. {k \in Len(ledger) + 1 .. Len(ledger) : ledger[k].readAt <= Len(ledger)} = {}
  BY DEF TypeInv
<1>2. Straddle(Len(ledger)) \subseteq Outstanding
  BY <1>1 DEF Straddle, Outstanding, Active
<1>3. Outstanding \subseteq Requests
  BY DEF Outstanding, Active, TypeInv, TypeOK
<1>4. /\ Cardinality(Straddle(Len(ledger))) \in Nat /\ Cardinality(Outstanding) \in Nat
      /\ Cardinality(Straddle(Len(ledger))) <= Cardinality(Outstanding)
  BY <1>2, <1>3, FewerOutstanding, OrderRefundsAssumption
<1>5. QED
  BY <1>4 DEF TypeInv, TypeOK

\* Whoever comes later has read the ledger later.
LEMMA StraddleShrinks ==
  ASSUME TypeInv, [Next]_vars, NEW p \in old .. Len(ledger), p < Len(ledger')
  PROVE  Straddle(p)' \subseteq Straddle(p)
<1>0. /\ Len(ledger) \in Nat /\ old \in Nat /\ p \in Nat /\ Len(ledger') \in Nat
      /\ phase \in [Requests -> Phases] /\ readAt \in [Requests -> Nat]
      /\ \A i \in 1 .. Len(ledger) : ledger'[i] = ledger[i]
  BY OnlyGrows DEF TypeInv, TypeOK
<1>1. CASE UNCHANGED vars
  BY <1>1 DEF vars, Straddle
<1>2. ASSUME NEW r \in Requests,
             Start(r) \/ ListAndCheck(r) \/ Reject(r) \/ GiveUp(r) \/ Redeliver(r)
      PROVE  Straddle(p)' \subseteq Straddle(p)
  <2>1. /\ UNCHANGED <<calls, ledger, readAt>>
        /\ \A s \in Requests : phase'[s] \in {"counted", "passed", "calling"}
                                 => phase[s] \in {"counted", "passed", "calling"}
    BY <1>0, <1>2 DEF Start, ListAndCheck, Reject, GiveUp, Redeliver, Goto
  <2>2. QED
    BY <2>1 DEF Straddle
<1>3. ASSUME NEW r \in Requests, CountHistory(r) PROVE Straddle(p)' \subseteq Straddle(p)
  <2>1. /\ UNCHANGED <<calls, ledger>> /\ readAt'[r] = Len(ledger)
        /\ \A s \in Requests \ {r} : phase'[s] = phase[s] /\ readAt'[s] = readAt[s]
    BY <1>0, <1>3 DEF CountHistory, Goto
  <2>2. ~(readAt'[r] <= p)
    BY <1>0, <2>1
  <2>3. QED
    BY <2>1, <2>2 DEF Straddle
<1>4. ASSUME NEW r \in Requests, Approve(r) PROVE Straddle(p)' \subseteq Straddle(p)
  <2>1. /\ UNCHANGED <<ledger, readAt>> /\ phase[r] = "passed"
        /\ calls' = calls \cup {[request |-> r, readAt |-> readAt[r]]}
        /\ \A s \in Requests : phase'[s] \in {"counted", "passed", "calling"}
                                 => phase[s] \in {"counted", "passed", "calling"}
    BY <1>0, <1>4 DEF Approve, Goto
  <2>2. \A c \in calls' : c.readAt <= p => c.request \in Straddle(p)
    <3>1. ASSUME NEW c \in calls', c.readAt <= p PROVE c.request \in Straddle(p)
      <4>1. CASE c \in calls
        BY <3>1, <4>1 DEF Straddle
      <4>2. CASE c = [request |-> r, readAt |-> readAt[r]]
        BY <2>1, <3>1, <4>2 DEF Straddle
      <4>3. QED
        BY <2>1, <4>1, <4>2
    <3>2. QED
      BY <3>1
  <2>3. QED
    BY <2>1, <2>2 DEF Straddle
<1>5. ASSUME NEW call \in calls, ToolRuns(call) PROVE Straddle(p)' \subseteq Straddle(p)
  <2>1. /\ ledger' = RecordRefund(call) /\ calls' \subseteq calls /\ readAt' = readAt
        /\ \A s \in Requests : phase'[s] \in {"counted", "passed", "calling"}
                                 => phase[s] \in {"counted", "passed", "calling"}
    BY <1>0, <1>5 DEF ToolRuns
  <2>2. ASSUME NEW i \in p + 1 .. Len(ledger'), ledger'[i].readAt <= p
        PROVE  ledger'[i].request \in Straddle(p)
    <3>1. CASE i <= Len(ledger)
      <4>1. i \in p + 1 .. Len(ledger) /\ ledger'[i] = ledger[i]
        BY <1>0, <3>1
      <4>2. QED
        BY <2>2, <4>1 DEF Straddle
    <3>2. CASE ~(i <= Len(ledger))
      <4>1. ledger' = Append(ledger, RefundRow(call))
        BY <1>0, <2>1, <3>2 DEF RecordRefund
      <4>2. ledger \in Seq(OldRows \cup NewRows) /\ RefundRow(call) \in OldRows \cup NewRows
        BY RowType DEF TypeInv
      <4>3. i = Len(ledger) + 1 /\ ledger'[i] = RefundRow(call)
        BY <1>0, <3>2, <4>1, <4>2
      <4>4. ledger'[i].request = call.request /\ call.readAt <= p
        BY <2>2, <4>3 DEF RefundRow
      <4>5. QED
        BY <4>4 DEF Straddle
    <3>3. QED
      BY <3>1, <3>2
  <2>3. QED
    BY <2>1, <2>2 DEF Straddle
<1>6. QED
  BY <1>1, <1>2, <1>3, <1>4, <1>5 DEF Next

LEMMA InitPeak == Init => PeakInv
<1> SUFFICES ASSUME Init PROVE PeakInv
  OBVIOUS
<1>1. TypeInv /\ old = Len(ledger)
  BY InitTypeInv DEF Init
<1>2. \A p \in old .. Len(ledger) : p = Len(ledger)
  BY <1>1 DEF TypeInv
<1>3. QED
  BY <1>1, <1>2, StraddleOutstanding DEF PeakInv

LEMMA NextPeak == TypeInv /\ PeakInv /\ [Next]_vars => PeakInv'
<1> SUFFICES ASSUME TypeInv, PeakInv, [Next]_vars, NEW p \in old' .. Len(ledger')
             PROVE  (Cardinality(Straddle(p)) <= peak)'
  BY DEF PeakInv
<1>1. TypeInv'
  BY NextTypeInv
<1>2. old' = old /\ Len(ledger) \in Nat /\ Len(ledger') \in Nat /\ old \in Nat
  BY OnlyGrows DEF TypeInv
<1>3. CASE p = Len(ledger')
  <2>1. (Cardinality(Straddle(Len(ledger))) <= peak)'
    BY <1>1, StraddleOutstanding, PTL
  <2>2. QED
    BY <1>3, <2>1
<1>4. CASE p < Len(ledger')
  <2>1. p \in old .. Len(ledger)
    <3>1. Len(ledger') <= Len(ledger) + 1
      <4>1. ledger' = ledger \/ \E call \in calls : ledger' = Append(ledger, RefundRow(call))
        BY DEF Next, vars, Start, CountHistory, ListAndCheck, Approve, Reject, GiveUp,
               Redeliver, ToolRuns, RecordRefund
      <4>2. ledger \in Seq(OldRows \cup NewRows) /\ \A call \in calls : RefundRow(call) \in NewRows
        BY RowType DEF TypeInv
      <4>3. QED
        BY <1>2, <4>1, <4>2
    <3>2. QED
      BY <1>2, <1>4, <3>1
  <2>2. Straddle(p)' \subseteq Straddle(p) /\ Straddle(p) \subseteq Requests
    BY <1>4, <2>1, StraddleShrinks, StraddleOfRequests
  <2>3. /\ Cardinality(Straddle(p)') \in Nat /\ Cardinality(Straddle(p)) \in Nat
        /\ Cardinality(Straddle(p)') <= Cardinality(Straddle(p))
    BY <2>2, FewerOutstanding, OrderRefundsAssumption
  <2>4. Cardinality(Straddle(p)) <= peak
    BY <2>1 DEF PeakInv
  <2>5. peak \in Nat /\ peak' \in Nat /\ peak <= peak'
    <3>1. peak \in Nat /\ peak' \in Nat
      BY <1>1 DEF TypeInv, TypeOK
    <3>2. peak' = peak \/ \E r \in Requests : Start(r)
      BY DEF Next, vars, CountHistory, ListAndCheck, Approve, Reject, GiveUp, Redeliver, ToolRuns
    <3>3. ASSUME NEW r \in Requests, Start(r) PROVE peak <= peak'
      <4>1. Outstanding \cup {r} \subseteq Requests
        BY DEF Outstanding, Active, TypeInv, TypeOK
      <4>2. Cardinality(Outstanding \cup {r}) \in Nat
        BY <4>1, FewerOutstanding, OrderRefundsAssumption
      <4>3. peak' = Max({peak, Cardinality(Outstanding \cup {r})})
        BY <3>3 DEF Start
      <4>4. QED
        BY <3>1, <4>2, <4>3, MaxOfTwo
    <3>4. QED
      BY <3>1, <3>2, <3>3
  <2>6. QED
    BY <2>3, <2>4, <2>5
<1>5. QED
  BY <1>2, <1>3, <1>4

\* New rows have requests of their own, so there are no more rows than requests.
LEMMA DistinctRequests ==
  ASSUME TypeInv, NEW S, S \subseteq old + 1 .. Len(ledger), NEW R, IsFiniteSet(R),
         \A i \in S : ledger[i].request \in R
  PROVE  IsFiniteSet(S) /\ Cardinality(S) \in Nat /\ Cardinality(S) <= Cardinality(R)
<1> DEFINE f == [i \in S |-> ledger[i].request]
<1>0. Len(ledger) \in Nat /\ old \in Nat /\ DOMAIN ledger = 1 .. Len(ledger)
  BY DEF TypeInv
<1>1. ASSUME NEW i \in S, NEW k \in S, i < k PROVE f[i] # f[k]
  <2>1. i \in 1 .. k - 1 /\ k \in DOMAIN ledger /\ k > old
    BY <1>0, <1>1
  <2>2. QED
    BY <2>1 DEF TypeInv, TypeOK
<1>2. \A i, k \in S : i = k \/ i < k \/ k < i
  BY <1>0
<1>3. f \in Injection(S, R)
  BY <1>1, <1>2 DEF Injection, IsInjective
<1>4. QED
  BY <1>3, FS_Injection, FS_CardinalityType

\* One of them has read the ledger last.
LEMMA LatestRead ==
  ASSUME TypeInv, FitInv, NEW S, S \subseteq old + 1 .. Len(ledger), S # {}
  PROVE  \E j \in S : \A i \in S : ledger[i].readAt <= ledger[j].readAt
<1> DEFINE Later(i) == {k \in 1 .. Len(ledger) : k > ledger[i].readAt}
           F        == {Later(i) : i \in S}
<1>0. /\ Len(ledger) \in Nat /\ old \in Nat /\ Len(ledger) \in 0 .. Len(ledger)
      /\ \A i \in S : ledger[i].readAt \in old .. i - 1 /\ i \in old + 1 .. Len(ledger)
  BY DEF TypeInv, FitInv
<1>1. PICK T \in F : \A U \in F : U \subseteq T => U = T
  <2> DEFINE rows == 1 .. Len(ledger)
  <2>1. F # {} /\ F \subseteq SUBSET rows /\ IsFiniteSet(rows)
    BY <1>0, RowsTo
  <2> HIDE DEF F, rows
  <2>2. QED
    BY <2>1, SmallestSubset
<1>2. PICK j \in S : T = Later(j)
  BY <1>1
<1>3. ASSUME NEW i \in S PROVE ledger[i].readAt <= ledger[j].readAt
  <2> DEFINE a == ledger[i].readAt
             b == ledger[j].readAt
  <2>1. a \in Nat /\ b \in Nat /\ a <= Len(ledger)
    BY <1>0
  <2>2. CASE a > b
    <3>1. Later(i) = Later(j)
      <4>1. Later(i) \in F /\ Later(i) \subseteq Later(j)
        BY <2>1, <2>2
      <4>2. QED
        BY <1>1, <1>2, <4>1
    <3>2. b + 1 \in Later(j) /\ b + 1 \notin Later(i)
      <4>1. b + 1 \in 1 .. Len(ledger) /\ b + 1 > b /\ ~(b + 1 > a)
        <5>1. Len(ledger) \in Nat
          BY <1>0
        <5> HIDE DEF a, b
        <5>2. QED
          BY <2>1, <2>2, <5>1
      <4>2. b + 1 \in {k \in 1 .. Len(ledger) : k > b} /\ b + 1 \notin {k \in 1 .. Len(ledger) : k > a}
        <5> HIDE DEF a, b
        <5>1. QED
          BY <4>1
      <4>3. QED
        BY <4>2
    <3>3. QED
      BY <3>1, <3>2
  <2>3. QED
    BY <2>1, <2>2
<1>4. QED
  BY <1>3

\* Rows that are late in a history that was cut, or without an amount, add the
\* amount of the order once for every such history.
LEMMA LateRows ==
  ASSUME TypeInv, NEW S, S \subseteq old + 1 .. Len(ledger), NEW c \in Nat,
         \A i \in S : ledger[i].cents <= c,
         \A i \in S : ledger[i].request \in outrun \/ ledger[i].cents = 0
  PROVE  Total(ledger, S) \in Nat /\ Total(ledger, S) <= Cardinality(outrun) * c
<1> DEFINE late == {i \in S : ledger[i].request \in outrun}
           zero == S \ late
<1>0. Len(ledger) \in Nat /\ old \in Nat /\ DOMAIN ledger = 1 .. Len(ledger)
  BY DEF TypeInv
<1>1. \A i \in S : ledger[i].cents \in Nat
  <2>1. \A i \in S : i \in DOMAIN ledger
    BY <1>0
  <2>2. QED
    BY <2>1 DEF TypeInv, TypeOK
<1>2. IsFiniteSet(S)
  <2>1. S \in SUBSET (1 .. Len(ledger)) /\ IsFiniteSet(1 .. Len(ledger))
    BY <1>0, RowsTo
  <2>2. QED
    BY <2>1, FS_Subset
<1>3. /\ IsFiniteSet(late) /\ IsFiniteSet(zero) /\ late \cup zero = S /\ late \cap zero = {}
      /\ \A i \in late \cup zero : ledger[i].cents \in Nat
  BY <1>1, <1>2, FS_Subset
<1>4. /\ Total(ledger, late) \in Nat /\ Total(ledger, zero) \in Nat
      /\ Total(ledger, late \cup zero) = Total(ledger, late) + Total(ledger, zero)
  <2> HIDE DEF late, zero
  <2>1. QED
    BY <1>3, TotalUnion
<1>5. Total(ledger, zero) = 0
  <2>1. \A i \in zero : ledger[i].cents \in Nat /\ ledger[i].cents <= 0
    OBVIOUS
  <2>2. Cardinality(zero) \in Nat
    BY <1>3, FS_CardinalityType
  <2> HIDE DEF zero
  <2>3. Total(ledger, zero) <= Cardinality(zero) * 0
    BY <1>3, <2>1, TotalAtMost
  <2>4. QED
    BY <1>4, <2>2, <2>3
<1>6. /\ Cardinality(late) \in Nat /\ Cardinality(outrun) \in Nat
      /\ Cardinality(late) <= Cardinality(outrun)
  <2>1. IsFiniteSet(outrun)
    BY FS_Subset, OrderRefundsAssumption DEF TypeInv, TypeOK
  <2>2. late \subseteq old + 1 .. Len(ledger) /\ \A i \in late : ledger[i].request \in outrun
    OBVIOUS
  <2> HIDE DEF late
  <2>3. QED
    BY <2>1, <2>2, DistinctRequests, FS_CardinalityType
<1>7. Total(ledger, late) <= Cardinality(late) * c
  <2>1. \A i \in late : ledger[i].cents \in Nat /\ ledger[i].cents <= c
    BY <1>1
  <2> HIDE DEF late
  <2>2. QED
    BY <1>3, <2>1, TotalAtMost
<1>8. Cardinality(late) * c <= Cardinality(outrun) * c
  <2>1. \A a, b \in Nat : a <= b => a * c <= b * c
    OBVIOUS
  <2>2. QED
    BY <1>6, <2>1
<1>9. Total(ledger, S) = Total(ledger, late)
  <2>1. Total(ledger, S) = Total(ledger, late) + Total(ledger, zero)
    BY <1>3, <1>4
  <2> DEFINE sum == Total(ledger, late)
  <2>2. sum \in Nat /\ Total(ledger, S) = sum + 0
    BY <1>4, <1>5, <2>1
  <2> HIDE DEF sum
  <2>3. Total(ledger, S) = sum
    BY <2>2
  <2>4. QED
    BY <2>3 DEF sum
<1>10. Cardinality(late) * c \in Nat /\ Cardinality(outrun) * c \in Nat
  BY <1>6
<1>11. QED
  BY <1>4, <1>7, <1>8, <1>9, <1>10

\* The rows of an order before and after a place in the ledger.
LEMMA SplitAt ==
  ASSUME TypeInv, NEW o, NEW p \in old .. Len(ledger)
  PROVE  /\ Total(ledger, OnOrder(o, 1, p)) \in Nat
         /\ Total(ledger, OnOrder(o, p + 1, Len(ledger))) \in Nat
         /\ IsFiniteSet(OnOrder(o, p + 1, Len(ledger)))
         /\ Total(ledger, OnOrder(o, 1, Len(ledger))) =
              Total(ledger, OnOrder(o, 1, p)) + Total(ledger, OnOrder(o, p + 1, Len(ledger)))
<1> DEFINE first == OnOrder(o, 1, p)
           later == OnOrder(o, p + 1, Len(ledger))
<1>0. Len(ledger) \in Nat /\ old \in Nat /\ Len(ledger) \in 0 .. Len(ledger)
  BY DEF TypeInv
<1>1. /\ first \cup later = OnOrder(o, 1, Len(ledger)) /\ first \cap later = {}
      /\ first \in SUBSET (1 .. Len(ledger)) /\ later \in SUBSET (1 .. Len(ledger))
  BY <1>0 DEF OnOrder
<1> HIDE DEF first, later
<1>2. /\ IsFiniteSet(first) /\ IsFiniteSet(later)
      /\ \A i \in first \cup later : ledger[i].cents \in Nat
  BY <1>0, <1>1, RowsTo, FS_Subset
<1>3. /\ Total(ledger, first) \in Nat /\ Total(ledger, later) \in Nat
      /\ Total(ledger, first \cup later) = Total(ledger, first) + Total(ledger, later)
  BY <1>1, <1>2, TotalUnion
<1>4. Total(ledger, OnOrder(o, 1, Len(ledger))) = Total(ledger, first) + Total(ledger, later)
  BY <1>1, <1>3
<1>5. QED
  BY <1>2, <1>3, <1>4 DEF first, later

\* No new row alone is more than its order.
LEMMA NewRowsFit ==
  ASSUME TypeInv, PassedInv, FitInv, NEW o, NEW i \in OnOrder(o, old + 1, Len(ledger))
  PROVE  ledger[i].cents \in Nat /\ ledger[i].cents <= Order[o].cents
<1>1. i \in old + 1 .. Len(ledger) /\ ledger[i].order = o
  BY DEF OnOrder
<1>2. ledger[i].order = claim[ledger[i].request].order
  BY <1>1 DEF PassedInv, RefundsFollowRules
<1>3. ledger[i].cents <= Order[ledger[i].order].cents
  BY <1>1, <1>2 DEF FitInv, Fits
<1>4. i \in DOMAIN ledger
  BY <1>1 DEF TypeInv
<1>5. QED
  BY <1>1, <1>3, <1>4 DEF TypeInv, TypeOK

\* Behind the last row that read the ledger at p, all rows but the late ones
\* were on their way together.
LEMMA AfterLatestRead ==
  ASSUME TypeInv, PassedInv, FitInv, PeakInv, NEW o \in DOMAIN Order,
         NEW j \in OnOrder(o, old + 1, Len(ledger)),
         ledger[j].request \notin outrun, ledger[j].cents > 0,
         \A i \in OnOrder(o, old + 1, Len(ledger)) :
           ledger[i].request \notin outrun /\ ledger[i].cents > 0
             => ledger[i].readAt <= ledger[j].readAt
  PROVE  Total(ledger, OnOrder(o, 1, Len(ledger)))
           <= peak * Order[o].cents + Cardinality(outrun) * Order[o].cents
<1> DEFINE c     == Order[o].cents
           p     == ledger[j].readAt
           later == OnOrder(o, p + 1, Len(ledger))
           good  == {i \in later : ledger[i].request \notin outrun /\ ledger[i].cents > 0}
           rest  == later \ good
           x     == ledger[j].cents
<1>0. /\ Len(ledger) \in Nat /\ old \in Nat /\ c \in Nat /\ peak \in Nat
      /\ j \in old + 1 .. Len(ledger) /\ p \in old .. j - 1 /\ ledger[j].order = o
  <2>1. j \in old + 1 .. Len(ledger) /\ ledger[j].order = o
    BY DEF OnOrder
  <2>2. p \in old .. j - 1
    BY <2>1 DEF FitInv
  <2>3. QED
    BY <2>1, <2>2, OrderRefundsAssumption DEF TypeInv, TypeOK
<1>1. p \in old .. Len(ledger) /\ p \in Nat
  BY <1>0
<1>2. /\ later \subseteq OnOrder(o, old + 1, Len(ledger)) /\ j \in later
      /\ OnOrder(o, old + 1, Len(ledger)) \subseteq old + 1 .. Len(ledger)
  BY <1>0, <1>1 DEF OnOrder
<1>3. \A i \in later : ledger[i].cents \in Nat /\ ledger[i].cents <= c
  BY <1>2, NewRowsFit
\* What was there when it read fits with it.
<1>4. Total(ledger, OnOrder(o, 1, p)) \in Nat /\ x + Total(ledger, OnOrder(o, 1, p)) <= c
  <2>1. /\ Fits(ledger[j].request, p) /\ x = Money(claim[ledger[j].request].mills)
        /\ claim[ledger[j].request].order = o
    BY <1>0 DEF FitInv, PassedInv, RefundsFollowRules
  <2>2. \A k \in 1 .. p : ledger[k].request # ledger[j].request
    <3>1. \A k \in 1 .. j - 1 : ledger[k].request # ledger[j].request
      <4>1. j \in DOMAIN ledger /\ j > old
        BY <1>0 DEF TypeInv
      <4>2. QED
        BY <4>1 DEF TypeInv, TypeOK
    <3>2. \A k \in 1 .. p : k \in 1 .. j - 1
      BY <1>0
    <3>3. QED
      BY <3>1, <3>2
  <2>3. Seen(ledger[j].request, p) = OnOrder(o, 1, p)
    BY <2>1, <2>2 DEF Seen, OnOrder
  <2>4. x + Total(ledger, OnOrder(o, 1, p)) <= c
    BY <2>1, <2>3 DEF Fits
  <2>5. QED
    BY <1>1, <2>4, SplitAt
<1>5. /\ Total(ledger, later) \in Nat /\ IsFiniteSet(later)
      /\ Total(ledger, OnOrder(o, 1, Len(ledger))) =
           Total(ledger, OnOrder(o, 1, p)) + Total(ledger, later)
  BY <1>1, SplitAt
\* At most peak rows were on their way together with it ...
<1>6. IsFiniteSet(good) /\ Cardinality(good) \in Nat /\ Cardinality(good) <= peak
  <2>1. good \subseteq old + 1 .. Len(ledger)
    BY <1>2
  <2>2. \A i \in good : ledger[i].request \in Straddle(p)
    <3>1. ASSUME NEW i \in good PROVE i \in p + 1 .. Len(ledger) /\ ledger[i].readAt <= p
      BY <1>2 DEF OnOrder
    <3>2. QED
      BY <3>1 DEF Straddle
  <2>3. Straddle(p) \subseteq Requests
    BY <1>1, StraddleOfRequests
  <2>4. IsFiniteSet(Straddle(p)) /\ Cardinality(Straddle(p)) \in Nat
    BY <2>3, FS_Subset, FS_CardinalityType, OrderRefundsAssumption
  <2> HIDE DEF good, p
  <2>5. /\ IsFiniteSet(good) /\ Cardinality(good) \in Nat
        /\ Cardinality(good) <= Cardinality(Straddle(p))
    BY <2>1, <2>2, <2>4, DistinctRequests
  <2>6. Cardinality(Straddle(p)) <= peak
    BY <1>1 DEF PeakInv
  <2>7. QED
    BY <1>0, <2>4, <2>5, <2>6
\* ... and each adds the amount of the order at most.
<1>7. /\ Total(ledger, good) \in Nat
      /\ Total(ledger, good) <= x + (Cardinality(good) - 1) * c
      /\ Cardinality(good) >= 1
  <2>1. j \in good /\ \A i \in good : ledger[i].cents \in Nat /\ ledger[i].cents <= c
    BY <1>2, <1>3
  <2> HIDE DEF good
  <2> DEFINE others == good \ {j}
  <2>2. IsFiniteSet(others) /\ Cardinality(others) = Cardinality(good) - 1
        /\ Cardinality(others) \in Nat
    BY <1>6, <2>1, FS_RemoveElement, FS_CardinalityType
  <2>3. Total(ledger, good) = x + Total(ledger, others) /\ Total(ledger, good) \in Nat
    BY <1>6, <2>1, TotalRemove
  <2>4. \A i \in others : ledger[i].cents \in Nat /\ ledger[i].cents <= c
    BY <2>1
  <2> HIDE DEF others
  <2>5. Total(ledger, others) <= Cardinality(others) * c /\ Total(ledger, others) \in Nat
    <3>1. c \in Nat
      BY <1>0
    <3> HIDE DEF c
    <3>2. QED
      BY <2>2, <2>4, <3>1, TotalAtMost, TotalRemove
  <2>6. x \in Nat
    BY <2>1
  <2>7. Cardinality(others) * c = (Cardinality(good) - 1) * c
    BY <2>2
  <2>8. Total(ledger, others) <= (Cardinality(good) - 1) * c /\ (Cardinality(good) - 1) * c \in Nat
    <3>1. Cardinality(others) * c \in Nat
      BY <1>0, <2>2
    <3>2. QED
      BY <2>5, <2>7, <3>1
  <2>9. Cardinality(good) >= 1
    BY <1>6, <2>2
  <2> HIDE DEF x, c
  <2>10. QED
    BY <2>3, <2>5, <2>6, <2>8, <2>9
<1>8. /\ Total(ledger, rest) \in Nat
      /\ Total(ledger, rest) <= Cardinality(outrun) * c
  <2>1. /\ rest \subseteq old + 1 .. Len(ledger)
        /\ \A i \in rest : ledger[i].cents <= c
        /\ \A i \in rest : ledger[i].request \in outrun \/ ledger[i].cents = 0
    BY <1>2, <1>3
  <2>2. c \in Nat
    BY <1>0
  <2> HIDE DEF rest, c
  <2>3. QED
    BY <2>1, <2>2, LateRows
<1>9. Total(ledger, later) = Total(ledger, good) + Total(ledger, rest)
  <2>1. good \cup rest = later /\ good \cap rest = {} /\ IsFiniteSet(rest)
    BY <1>5, FS_Subset
  <2>2. \A i \in good \cup rest : ledger[i].cents \in Nat
    BY <1>3
  <2> HIDE DEF good, rest, later
  <2>3. Total(ledger, good \cup rest) = Total(ledger, good) + Total(ledger, rest)
    BY <1>6, <2>1, <2>2, TotalUnion
  <2>4. QED
    BY <2>1, <2>3
<1>10. Cardinality(outrun) \in Nat
  BY FS_Subset, FS_CardinalityType, OrderRefundsAssumption DEF TypeInv, TypeOK
<1>11. QED
  <2> DEFINE n     == Cardinality(good)
             late  == Cardinality(outrun) * c
             seen  == Total(ledger, OnOrder(o, 1, p))
             gsum  == Total(ledger, good)
             rsum  == Total(ledger, rest)
             now   == Total(ledger, OnOrder(o, 1, Len(ledger)))
  <2>1. /\ n \in Nat /\ n >= 1 /\ n <= peak /\ peak \in Nat /\ c \in Nat /\ x \in Nat
        /\ seen \in Nat /\ gsum \in Nat /\ rsum \in Nat /\ late \in Nat
    <3>1. x \in Nat
      BY <1>2, <1>3
    <3>2. c \in Nat /\ peak \in Nat
      BY <1>0
    <3> HIDE DEF c, x
    <3>3. late \in Nat
      BY <1>10, <3>2
    <3> HIDE DEF late
    <3>4. QED
      BY <1>4, <1>6, <1>7, <1>8, <3>1, <3>2, <3>3
  <2>2. x + seen <= c /\ gsum <= x + (n - 1) * c /\ rsum <= late
    BY <1>4, <1>7, <1>8
  <2>3. now = seen + (gsum + rsum)
    BY <1>5, <1>9
  <2> HIDE DEF n, late, seen, gsum, rsum, now, x, c
  <2>4. (n - 1) * c + c = n * c /\ n * c <= peak * c
    BY <2>1
  <2>5. (n - 1) * c \in Nat /\ n * c \in Nat /\ peak * c \in Nat
    BY <2>1
  <2>6. now <= peak * c + late
    BY <2>1, <2>2, <2>3, <2>4, <2>5
  <2>7. QED
    BY <2>6 DEF now, c, late

LEMMA BoundHolds ==
  ASSUME TypeInv, PassedInv, FitInv, PeakInv
  PROVE  OverRefundBounded
<1> SUFFICES ASSUME NEW o \in DOMAIN Order
             PROVE  Total(ledger, OnOrder(o, 1, Len(ledger)))
                      <= Max({Total(ledger, OnOrder(o, 1, old)), peak * Order[o].cents})
                           + Cardinality(outrun) * Order[o].cents
  BY DEF OverRefundBounded
<1> DEFINE c      == Order[o].cents
           before == Total(ledger, OnOrder(o, 1, old))
           now    == Total(ledger, OnOrder(o, 1, Len(ledger)))
           late   == Cardinality(outrun) * c
           new    == OnOrder(o, old + 1, Len(ledger))
           clean  == {i \in new : ledger[i].request \notin outrun /\ ledger[i].cents > 0}
<1>1. /\ Len(ledger) \in Nat /\ old \in Nat /\ old \in old .. Len(ledger)
      /\ c \in Nat /\ peak \in Nat
  BY OrderRefundsAssumption DEF TypeInv, TypeOK
<1>2. Cardinality(outrun) \in Nat
  BY FS_Subset, FS_CardinalityType, OrderRefundsAssumption DEF TypeInv, TypeOK
<1>3. before \in Nat /\ Total(ledger, new) \in Nat /\ now = before + Total(ledger, new)
  BY <1>1, SplitAt
<1>4. new \subseteq old + 1 .. Len(ledger)
  BY DEF OnOrder
<1>5. late \in Nat /\ peak * c \in Nat
  <2>1. c \in Nat /\ peak \in Nat
    BY <1>1
  <2> HIDE DEF c
  <2>2. QED
    BY <1>2, <2>1
<1>6. /\ Max({before, peak * c}) \in Nat
      /\ Max({before, peak * c}) >= before /\ Max({before, peak * c}) >= peak * c
  <2> HIDE DEF before, c
  <2>1. QED
    BY <1>3, <1>5, MaxOfTwo
<1>7. CASE clean = {}
  <2>1. \A i \in new : ledger[i].cents <= c /\ ledger[i].cents \in Nat
    BY NewRowsFit
  <2>2. \A i \in new : ledger[i].request \in outrun \/ ledger[i].cents = 0
    BY <1>7, <2>1
  <2> HIDE DEF new
  <2>3. Total(ledger, new) <= late
    <3>1. c \in Nat
      BY <1>1
    <3> HIDE DEF c
    <3>2. QED
      BY <1>4, <2>1, <2>2, <3>1, LateRows
  <2> HIDE DEF before, late, now, c
  <2>4. now <= Max({before, peak * c}) + late
    BY <1>3, <1>5, <1>6, <2>3
  <2>5. QED
    BY <2>4 DEF before, late, now, c
<1>8. CASE clean # {}
  <2>1. clean \subseteq old + 1 .. Len(ledger)
    BY <1>4
  <2>2. PICK j \in clean : \A i \in clean : ledger[i].readAt <= ledger[j].readAt
    <3> HIDE DEF clean
    <3>1. QED
      BY <1>8, <2>1, LatestRead
  <2>3. now <= peak * c + late
    BY <2>2, AfterLatestRead
  <2>4. now \in Nat
    BY <1>3
  <2> HIDE DEF before, late, now, c
  <2>5. now <= Max({before, peak * c}) + late
    BY <1>5, <1>6, <2>3, <2>4
  <2>6. QED
    BY <2>5 DEF before, late, now, c
<1>9. QED
  BY <1>7, <1>8

\* Refunds that miss each other are bounded by the requests on their way at the
\* same time, calls their workers have given up included, and each history that
\* is cut adds the order once (evidence_check.py, check_refund_evidence;
\* mcp_server.py, execute_refund).
THEOREM OverRefundAlwaysBounded == Spec => []OverRefundBounded
<1>1. Spec => [](TypeInv /\ PassedInv /\ FitInv /\ PeakInv)
  BY InitTypeInv, NextTypeInv, InitPassed, NextPassed, InitFit, NextFit,
     InitPeak, NextPeak, PTL DEF Spec
<1>2. QED
  BY <1>1, BoundHolds, PTL
=============================================================================
