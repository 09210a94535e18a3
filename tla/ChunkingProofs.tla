--------------------------- MODULE ChunkingProofs ---------------------------
(***************************************************************************)
(* Proofs about Chunking, for documents of any number and length of        *)
(* paragraphs, and any chunk size and overlap.                             *)
(***************************************************************************)
EXTENDS Chunking, FiniteSetTheorems, WellFoundedInduction, TLAPS

----------------------------------------------------------------------------
(* Lengths of chunks.  Induction over positions is by a smallest           *)
(* counterexample.                                                         *)

\* A set of subsets of a finite set has one that contains no other of them.
LEMMA SmallestSubset ==
  ASSUME NEW S, IsFiniteSet(S), NEW F, F \subseteq SUBSET S, F # {}
  PROVE  \E T \in F : \A U \in F : U \subseteq T => U = T
<1>1. IsWellFoundedOn(StrictSubsetOrdering(S), SUBSET S)
  BY FS_StrictSubsetOrderingWellFounded, FS_FiniteSubsetsOfFinite
<1>2. PICK T \in F : \A U \in F : <<U, T>> \notin StrictSubsetOrdering(S)
  BY <1>1, WFMin
<1>3. ASSUME NEW U \in F, U \subseteq T PROVE U = T
  BY <1>2, <1>3 DEF StrictSubsetOrdering
<1>4. QED
  BY <1>3

\* Places in a sequence, or some of them.
Places(S) == IsFiniteSet(S) /\ S \subseteq Nat

LEMMA Positions ==
  ASSUME NEW n \in Nat
  PROVE  Places(1 .. n)
BY FS_Interval DEF Places

LEMMA FewerPlaces ==
  ASSUME NEW S, Places(S), NEW T \in SUBSET S
  PROVE  Places(T)
BY FS_Subset DEF Places

\* One of several things has the greatest measure.
LEMMA Greatest ==
  ASSUME NEW S, IsFiniteSet(S), S # {}, NEW size \in [S -> Nat]
  PROVE  \E j \in S : \A i \in S : size[i] <= size[j]
<1> DEFINE Above(i) == {k \in S : size[k] > size[i]}
           F        == {Above(i) : i \in S}
<1>1. PICK T \in F : \A U \in F : U \subseteq T => U = T
  <2>1. F # {} /\ F \subseteq SUBSET S
    <3>1. \A i \in S : Above(i) \in SUBSET S
      OBVIOUS
    <3> HIDE DEF Above
    <3>2. QED
      BY <3>1
  <2> HIDE DEF F
  <2>2. QED
    BY <2>1, SmallestSubset
<1>2. PICK j \in S : T = Above(j)
  BY <1>1
<1>3. ASSUME NEW i \in S, size[i] > size[j] PROVE FALSE
  <2>1. Above(i) \in F /\ Above(i) \subseteq Above(j)
    BY <1>3
  <2>2. Above(i) = Above(j)
    BY <1>1, <1>2, <2>1
  <2>3. i \in Above(j) /\ i \notin Above(i)
    BY <1>3
  <2>4. QED
    BY <2>2, <2>3
<1>4. ASSUME NEW i \in S PROVE size[i] <= size[j]
  BY <1>3
<1>5. QED
  BY <1>4

LEMMA MaxIsIn ==
  ASSUME NEW S, Places(S), S # {}
  PROVE  Max(S) \in S /\ \A x \in S : x <= Max(S)
<1>0. S \subseteq Nat /\ IsFiniteSet(S)
  BY DEF Places
<1>1. \E m \in S : \A x \in S : x <= m
  <2> DEFINE size == [i \in S |-> i]
  <2>1. size \in [S -> Nat]
    BY <1>0
  <2>2. \E j \in S : \A i \in S : size[i] <= size[j]
    <3> HIDE DEF size
    <3>1. QED
      BY <1>0, <2>1, Greatest
  <2>3. QED
    BY <2>2
<1>2. PICK m \in S : \A x \in S : m >= x
  BY <1>1
<1>3. Max(S) \in S /\ \A x \in S : Max(S) >= x
  BY <1>2 DEF Max
<1>4. QED
  BY <1>0, <1>3

\* What the fold computes over sets of positions.
Adds(pieces, S, g) ==
  g = [s \in SUBSET S |-> IF s = {} THEN 0 ELSE g[s \ {Max(s)}] + pieces[Max(s)].len]

Sum(pieces, S) == (CHOOSE g : Adds(pieces, S, g))[S]

LEMMA LengthIs ==
  ASSUME NEW pieces
  PROVE  Length(pieces) = Sum(pieces, DOMAIN pieces)
                            + (IF pieces = << >> THEN 0 ELSE 2 * (Len(pieces) - 1))
BY DEF Length, FoldLeft, MapThenFoldSet, Sum, Adds

LEMMA AddsOnce ==
  ASSUME NEW pieces, NEW S, Places(S),
         NEW g, NEW h, Adds(pieces, S, g), Adds(pieces, S, h)
  PROVE  g = h
<1> DEFINE Bad == {s \in SUBSET S : g[s] # h[s]}
<1>1. ASSUME NEW T \in Bad, \A U \in Bad : U \subseteq T => U = T PROVE FALSE
  <2>1. T \in SUBSET S /\ g[T] # h[T]
    OBVIOUS
  <2>2. /\ g[T] = IF T = {} THEN 0 ELSE g[T \ {Max(T)}] + pieces[Max(T)].len
        /\ h[T] = IF T = {} THEN 0 ELSE h[T \ {Max(T)}] + pieces[Max(T)].len
    BY <2>1 DEF Adds
  <2>3. T # {} /\ Max(T) \in T
    <3>1. T # {} /\ Places(T)
      BY <2>1, <2>2, FewerPlaces
    <3>2. QED
      BY <3>1, MaxIsIn
  <2>4. T \ {Max(T)} \notin Bad
    BY <1>1, <2>3
  <2>5. g[T \ {Max(T)}] = h[T \ {Max(T)}]
    BY <2>1, <2>4
  <2>6. QED
    BY <2>1, <2>2, <2>3, <2>5
<1>2. Bad = {}
  <2> HIDE DEF Bad
  <2>1. Bad \subseteq SUBSET S
    BY DEF Bad
  <2>2. IsFiniteSet(S)
    BY DEF Places
  <2>3. QED
    BY <1>1, <2>1, <2>2, SmallestSubset
<1>3. /\ g = [s \in SUBSET S |-> g[s]]
      /\ h = [s \in SUBSET S |-> h[s]]
  BY DEF Adds
<1>4. \A s \in SUBSET S : g[s] = h[s]
  BY <1>2
<1>5. QED
  BY <1>3, <1>4

LEMMA AddsLess ==
  ASSUME NEW pieces, NEW S, NEW g, Adds(pieces, S, g), NEW T \in SUBSET S
  PROVE  Adds(pieces, T, [s \in SUBSET T |-> g[s]])
<1>1. ASSUME NEW s \in SUBSET T
      PROVE  g[s] = IF s = {} THEN 0
                    ELSE [t \in SUBSET T |-> g[t]][s \ {Max(s)}] + pieces[Max(s)].len
  BY DEF Adds
<1>2. QED
  BY <1>1 DEF Adds

LEMMA AddsExist ==
  ASSUME NEW pieces, NEW S, Places(S)
  PROVE  \E g : Adds(pieces, S, g)
<1> DEFINE Bad    == {T \in SUBSET S : ~ \E g : Adds(pieces, T, g)}
           Sol(U) == CHOOSE g : Adds(pieces, U, g)
<1>1. ASSUME NEW T \in Bad, \A U \in Bad : U \subseteq T => U = T PROVE FALSE
  <2> DEFINE h == [s \in SUBSET T |-> IF s = {} THEN 0 ELSE
                     Sol(s \ {Max(s)})[s \ {Max(s)}] + pieces[Max(s)].len]
  <2>0. \A u \in SUBSET T : u # {} => Max(u) \in u
    <3>1. \A u \in SUBSET T : Places(u)
      BY FewerPlaces
    <3>2. QED
      BY <3>1, MaxIsIn
  <2>1. ASSUME NEW U \in SUBSET T, U # T
        PROVE  Adds(pieces, U, Sol(U)) /\ Places(U)
    <3>1. \E g : Adds(pieces, U, g)
      BY <1>1, <2>1
    <3>2. Places(U)
      BY FewerPlaces
    <3>3. QED
      BY <3>1, <3>2
  <2>2. ASSUME NEW u \in SUBSET T, u # T PROVE h[u] = Sol(u)[u]
    <3>1. Sol(u)[u] = IF u = {} THEN 0 ELSE Sol(u)[u \ {Max(u)}] + pieces[Max(u)].len
      <4> HIDE DEF Sol
      <4>1. QED
        BY <2>1, <2>2 DEF Adds
    <3>2. CASE u = {}
      BY <3>1, <3>2
    <3>3. CASE u # {}
      <4> DEFINE v == u \ {Max(u)}
      <4>1. v \in SUBSET u /\ v \in SUBSET T /\ v # T
        BY <2>0, <3>3
      <4>2. Adds(pieces, v, [s \in SUBSET v |-> Sol(u)[s]])
        <5> HIDE DEF Sol, v
        <5>1. QED
          BY <2>1, <2>2, <4>1, AddsLess
      <4>3. Sol(v) = [s \in SUBSET v |-> Sol(u)[s]]
        <5> HIDE DEF Sol, v
        <5>1. QED
          BY <2>1, <4>1, <4>2, AddsOnce
      <4>4. Sol(v)[v] = Sol(u)[v]
        <5> HIDE DEF Sol, v
        <5>1. QED
          BY <4>3
      <4>5. QED
        <5> HIDE DEF Sol
        <5>1. QED
          BY <3>1, <3>3, <4>4
    <3>4. QED
      BY <3>2, <3>3
  <2>3. \A s \in SUBSET T : h[s] = IF s = {} THEN 0 ELSE h[s \ {Max(s)}] + pieces[Max(s)].len
    <3>1. ASSUME NEW s \in SUBSET T, s # {}
          PROVE  h[s \ {Max(s)}] = Sol(s \ {Max(s)})[s \ {Max(s)}]
      <4>1. s \ {Max(s)} \in SUBSET T /\ s \ {Max(s)} # T
        BY <2>0, <3>1
      <4>2. QED
        <5> HIDE DEF Sol, h
        <5>1. QED
          BY <2>2, <4>1
    <3>2. QED
      <4> HIDE DEF Sol
      <4>1. QED
        BY <3>1
  <2>4. Adds(pieces, T, h)
    <3>1. h = [s \in SUBSET T |-> h[s]]
      OBVIOUS
    <3>2. QED
      <4> HIDE DEF h
      <4>1. QED
        BY <2>3, <3>1 DEF Adds
  <2>5. QED
    <3> HIDE DEF h
    <3>1. QED
      BY <2>4
<1>2. Bad = {}
  <2> HIDE DEF Bad
  <2>1. Bad \subseteq SUBSET S
    BY DEF Bad
  <2>2. IsFiniteSet(S)
    BY DEF Places
  <2>3. QED
    BY <1>1, <2>1, <2>2, SmallestSubset
<1>3. QED
  BY <1>2

\* So the sum over a chunk is that without its last piece, and this piece.
LEMMA SumUnfold ==
  ASSUME NEW pieces, NEW n \in Nat
  PROVE  Sum(pieces, 1 .. n) = IF n = 0 THEN 0 ELSE Sum(pieces, 1 .. n - 1) + pieces[n].len
<1> DEFINE Sol(U) == CHOOSE g : Adds(pieces, U, g)
           S      == 1 .. n
<1>1. Places(S) /\ S \subseteq Nat
  BY Positions DEF Places
<1>2. CASE n = 0
  <2>1. S = {}
    BY <1>2
  <2>2. Adds(pieces, S, Sol(S))
    BY <1>1, AddsExist
  <2> HIDE DEF Sol, S
  <2>3. Sol(S)[S] = 0
    BY <2>1, <2>2 DEF Adds
  <2>4. QED
    BY <1>2, <2>3 DEF Sum, Sol, S
<1>3. CASE n # 0
  <2> DEFINE R == 1 .. n - 1
  <2>1. S # {} /\ n \in S /\ \A x \in S : x <= n
    BY <1>3
  <2>2. Max(S) = n
    <3> HIDE DEF S
    <3> DEFINE m == Max(S)
    <3>1. m \in S /\ \A x \in S : x <= m
      BY <1>1, <2>1, MaxIsIn
    <3> HIDE DEF m
    <3>2. m \in Nat /\ m <= n /\ n <= m
      BY <1>1, <2>1, <3>1
    <3>3. m = n
      BY <3>2
    <3>4. QED
      BY <3>3 DEF m
  <2>3. S \ {n} = R /\ R \in SUBSET S /\ Places(R)
    <3>1. S \ {n} = R /\ R \in SUBSET S
      BY <1>3
    <3>2. QED
      BY <1>1, <3>1, FewerPlaces
  <2>4. Adds(pieces, S, Sol(S)) /\ Adds(pieces, R, Sol(R))
    <3> HIDE DEF S, R
    <3>1. QED
      BY <1>1, <2>3, AddsExist
  <2> HIDE DEF Sol, S, R
  <2>5. Sol(R) = [s \in SUBSET R |-> Sol(S)[s]]
    <3>1. Adds(pieces, R, [s \in SUBSET R |-> Sol(S)[s]])
      BY <2>3, <2>4, AddsLess
    <3>2. QED
      BY <2>3, <2>4, <3>1, AddsOnce
  <2>6. Sol(R)[R] = Sol(S)[R]
    BY <2>5
  <2>7. Sol(S)[S] = Sol(S)[R] + pieces[n].len
    BY <2>1, <2>2, <2>3, <2>4 DEF Adds
  <2>8. Sol(S)[S] = Sol(R)[R] + pieces[n].len
    BY <2>6, <2>7
  <2>9. QED
    BY <1>3, <2>8 DEF Sum, Sol, S, R
<1>4. QED
  BY <1>2, <1>3

----------------------------------------------------------------------------
(* What the steps do to the length of a chunk.                             *)

LEMMA Least ==
  ASSUME NEW T, T \subseteq Nat, T # {}
  PROVE  \E n \in T : \A m \in T : n <= m
<1> DEFINE R == {ss \in Nat \X Nat : ss[1] < ss[2]}
<1>1. IsWellFoundedOn(R, Nat)
  BY NatLessThanWellFounded DEF OpToRel
<1>2. PICK n \in T : \A m \in T : <<m, n>> \notin R
  <2> HIDE DEF R
  <2>1. QED
    BY <1>1, WFMin
<1>3. ASSUME NEW m \in T PROVE n <= m
  <2>1. m \in Nat /\ n \in Nat /\ <<m, n>> \notin R
    BY <1>2
  <2>2. ~(m < n)
    BY <2>1
  <2>3. QED
    BY <2>1, <2>2
<1>4. QED
  BY <1>3

LEMMA SumSame ==
  ASSUME NEW p, NEW q, NEW n \in Nat, \A i \in 1 .. n : p[i] = q[i]
  PROVE  Sum(p, 1 .. n) = Sum(q, 1 .. n)
<1> DEFINE Bad == {k \in 0 .. n : Sum(p, 1 .. k) # Sum(q, 1 .. k)}
<1>1. ASSUME Bad # {} PROVE FALSE
  <2>1. PICK k \in Bad : \A j \in Bad : k <= j
    <3>1. Bad \subseteq Nat
      OBVIOUS
    <3> HIDE DEF Bad
    <3>2. QED
      BY <1>1, <3>1, Least
  <2>2. k \in 0 .. n /\ Sum(p, 1 .. k) # Sum(q, 1 .. k)
    BY <2>1
  <2>3. \A j \in 0 .. n : j < k => Sum(p, 1 .. j) = Sum(q, 1 .. j)
    BY <2>1, <2>2
  <2>4. /\ Sum(p, 1 .. k) = IF k = 0 THEN 0 ELSE Sum(p, 1 .. k - 1) + p[k].len
        /\ Sum(q, 1 .. k) = IF k = 0 THEN 0 ELSE Sum(q, 1 .. k - 1) + q[k].len
    BY <2>2, SumUnfold
  <2>5. k # 0
    BY <2>2, <2>4
  <2>6. Sum(p, 1 .. k - 1) = Sum(q, 1 .. k - 1) /\ p[k] = q[k]
    BY <2>2, <2>3, <2>5
  <2>7. QED
    BY <2>2, <2>4, <2>5, <2>6
<1>2. n \in 0 .. n
  OBVIOUS
<1>3. QED
  BY <1>1, <1>2

LEMMA SumNat ==
  ASSUME NEW p \in Seq(Pieces), NEW n \in 0 .. Len(p)
  PROVE  Sum(p, 1 .. n) \in Nat
<1> DEFINE Bad == {k \in 0 .. n : Sum(p, 1 .. k) \notin Nat}
<1>1. ASSUME Bad # {} PROVE FALSE
  <2>1. PICK k \in Bad : \A j \in Bad : k <= j
    <3>1. Bad \subseteq Nat
      OBVIOUS
    <3> HIDE DEF Bad
    <3>2. QED
      BY <1>1, <3>1, Least
  <2>2. k \in 0 .. n /\ Sum(p, 1 .. k) \notin Nat
    BY <2>1
  <2>3. \A j \in 0 .. n : j < k => Sum(p, 1 .. j) \in Nat
    BY <2>1, <2>2
  <2>4. Sum(p, 1 .. k) = IF k = 0 THEN 0 ELSE Sum(p, 1 .. k - 1) + p[k].len
    BY <2>2, SumUnfold
  <2>5. k # 0
    BY <2>2, <2>4
  <2>6. Sum(p, 1 .. k - 1) \in Nat
    BY <2>2, <2>3, <2>5
  <2>7. p[k].len \in Nat
    <3>1. k \in 1 .. Len(p)
      BY <2>2, <2>5
    <3>2. p[k] \in Pieces
      BY <3>1
    <3>3. QED
      BY <3>2 DEF Pieces
  <2>8. QED
    BY <2>2, <2>4, <2>5, <2>6, <2>7
<1>2. n \in 0 .. n
  OBVIOUS
<1>3. QED
  BY <1>1, <1>2

\* A chunk is as long as its pieces and the blank lines between them.
LEMMA LengthOf ==
  ASSUME NEW p \in Seq(Pieces)
  PROVE  /\ Length(p) = Sum(p, 1 .. Len(p)) + (IF p = << >> THEN 0 ELSE 2 * (Len(p) - 1))
         /\ Length(p) \in Nat
<1>1. DOMAIN p = 1 .. Len(p)
  OBVIOUS
<1>2. Length(p) = Sum(p, 1 .. Len(p)) + (IF p = << >> THEN 0 ELSE 2 * (Len(p) - 1))
  BY <1>1, LengthIs
<1>3. Sum(p, 1 .. Len(p)) \in Nat
  BY SumNat
<1>4. p # << >> => Len(p) - 1 \in Nat
  OBVIOUS
<1>5. QED
  BY <1>2, <1>3, <1>4

LEMMA LengthNone ==
  Length(<< >>) = 0
<1>1. << >> \in Seq(Pieces) /\ Len(<< >>) = 0
  OBVIOUS
<1>2. Sum(<< >>, 1 .. 0) = 0
  BY SumUnfold
<1>3. Length(<< >>) = Sum(<< >>, 1 .. 0) + 0
  BY <1>1, LengthOf
<1>4. QED
  BY <1>2, <1>3

LEMMA LengthAppend ==
  ASSUME NEW p \in Seq(Pieces), NEW x \in Pieces
  PROVE  Length(Append(p, x)) = IF p = << >> THEN x.len ELSE Length(p) + 2 + x.len
<1> DEFINE q == Append(p, x)
           n == Len(p)
<1>1. /\ q \in Seq(Pieces) /\ q # << >> /\ Len(q) = n + 1 /\ n \in Nat
      /\ q[n + 1] = x /\ \A i \in 1 .. n : q[i] = p[i]
  OBVIOUS
<1>2. x.len \in Nat
  BY DEF Pieces
<1> HIDE DEF q
<1>3. Sum(q, 1 .. n) = Sum(p, 1 .. n) /\ Sum(p, 1 .. n) \in Nat
  <2>1. n \in 0 .. Len(p)
    BY <1>1
  <2>2. QED
    BY <1>1, <2>1, SumSame, SumNat
<1>4. Sum(q, 1 .. n + 1) = Sum(q, 1 .. n) + x.len
  <2>1. n + 1 \in Nat /\ n + 1 # 0 /\ n + 1 - 1 = n
    BY <1>1
  <2>2. QED
    BY <1>1, <2>1, SumUnfold
<1>5. Length(q) = Sum(p, 1 .. n) + x.len + 2 * n
  BY <1>1, <1>2, <1>3, <1>4, LengthOf
<1>6. CASE p = << >>
  <2>1. n = 0 /\ Sum(p, 1 .. 0) = 0
    BY <1>6, SumUnfold
  <2>2. QED
    BY <1>2, <1>5, <1>6, <2>1 DEF q
<1>7. CASE p # << >>
  <2>1. Length(p) = Sum(p, 1 .. n) + 2 * (n - 1)
    BY <1>7, LengthOf
  <2>2. QED
    BY <1>1, <1>2, <1>3, <1>5, <1>7, <2>1 DEF q
<1>8. QED
  BY <1>6, <1>7

\* A chunk without its last piece.
LEMMA FrontIs ==
  ASSUME NEW p \in Seq(Pieces), Len(p) > 1
  PROVE  /\ Front(p) \in Seq(Pieces) /\ Front(p) # << >> /\ Len(Front(p)) = Len(p) - 1
         /\ \A i \in 1 .. Len(p) - 1 : Front(p)[i] = p[i]
         /\ Last(p) = p[Len(p)] /\ Last(p) \in Pieces
<1>1. /\ Front(p) \in Seq(Pieces) /\ Len(Front(p)) = Len(p) - 1
      /\ \A i \in 1 .. Len(p) - 1 : Front(p)[i] = p[i]
  BY DEF Front
<1>2. Front(p) # << >>
  BY <1>1
<1>3. Last(p) = p[Len(p)] /\ Last(p) \in Pieces
  BY DEF Last
<1>4. QED
  BY <1>1, <1>2, <1>3

LEMMA KeptIs ==
  ASSUME NEW p \in Seq(Pieces), p # << >>
  PROVE  /\ Kept(p) \in Seq(Pieces) /\ Kept(p) # << >>
         /\ Len(Kept(p)) = IF EndsWithHeading(p) THEN Len(p) - 1 ELSE Len(p)
         /\ \A i \in 1 .. Len(Kept(p)) : Kept(p)[i] = p[i]
         /\ Length(Kept(p)) <= Length(p)
<1>1. CASE ~EndsWithHeading(p)
  BY <1>1, LengthOf DEF Kept
<1>2. CASE EndsWithHeading(p)
  <2> DEFINE q == Front(p)
  <2>1. Len(p) > 1 /\ Kept(p) = q
    BY <1>2 DEF EndsWithHeading, Kept
  <2>2. /\ q \in Seq(Pieces) /\ q # << >> /\ Len(q) = Len(p) - 1
        /\ \A i \in 1 .. Len(p) - 1 : q[i] = p[i]
        /\ p[Len(p)] \in Pieces
    BY <2>1, FrontIs
  <2> HIDE DEF q
  <2>3. p = Append(q, p[Len(p)])
    BY <2>1, <2>2
  <2>4. Length(p) = Length(q) + 2 + p[Len(p)].len
    BY <2>2, <2>3, LengthAppend
  <2>5. Length(q) \in Nat /\ p[Len(p)].len \in Nat
    BY <2>2, LengthOf DEF Pieces
  <2>6. Length(q) <= Length(p)
    BY <2>4, <2>5
  <2>7. QED
    BY <1>2, <2>1, <2>2, <2>6
<1>3. QED
  BY <1>1, <1>2

LEMMA TailIs ==
  ASSUME NEW p \in Seq(Pieces)
  PROVE  /\ OverlapTail(p) \in Seq(Pieces)
         /\ Len(OverlapTail(p)) = IF Overlap = 0 THEN 0 ELSE 1
         /\ Overlap # 0 => OverlapTail(p)[1].kind = "tail"
         /\ Length(OverlapTail(p)) <= Overlap
<1>1. Length(p) \in Nat /\ Overlap \in Nat
  BY LengthOf, ChunkingAssumption
<1>2. CASE Overlap = 0
  BY <1>2, LengthNone DEF OverlapTail
<1>3. CASE Overlap # 0
  <2> DEFINE n == IF Length(p) < Overlap THEN Length(p) ELSE Overlap
             t == [kind |-> "tail", no |-> 0, len |-> n]
  <2>1. n \in Nat /\ n <= Overlap
    BY <1>1
  <2>2. t \in Pieces /\ t.len = n /\ t.kind = "tail"
    <3> HIDE DEF n
    <3>1. 0 \in 0 .. MaxParagraphs
      BY ChunkingAssumption
    <3>2. QED
      BY <2>1, <3>1 DEF Pieces
  <2>3. OverlapTail(p) = << t >>
    BY <1>3 DEF OverlapTail
  <2> HIDE DEF n, t
  <2>4. << t >> = Append(<< >>, t) /\ << >> \in Seq(Pieces)
    OBVIOUS
  <2>5. Length(<< t >>) = n
    BY <2>2, <2>4, LengthAppend
  <2>6. QED
    BY <1>3, <2>1, <2>2, <2>3, <2>5
<1>4. QED
  BY <1>2, <1>3

\* The chunk after a finished one: its tail, the heading it hands on, the
\* paragraph that did not fit.
LEMMA StartAfterIs ==
  ASSUME NEW p \in Seq(Pieces), p # << >>, NEW x \in Pieces
  PROVE  LET s == StartAfter(p, x)
             t == OverlapTail(Kept(p))
         IN
         /\ s \in Seq(Pieces) /\ s # << >>
         /\ Len(t) = IF Overlap = 0 THEN 0 ELSE 1
         /\ Len(s) = IF EndsWithHeading(p) THEN Len(t) + 2 ELSE Len(t) + 1
         /\ \A k \in 1 .. Len(t) : s[k] = t[k] /\ s[k].kind = "tail"
         /\ EndsWithHeading(p) => s[Len(t) + 1] = p[Len(p)]
         /\ s[Len(s)] = x
         /\ Length(s) <= Overlap + 2 + (IF EndsWithHeading(p) THEN p[Len(p)].len + 2 ELSE 0)
                           + x.len
<1> SUFFICES ASSUME NEW s, s = StartAfter(p, x), NEW t, t = OverlapTail(Kept(p))
             PROVE  /\ s \in Seq(Pieces) /\ s # << >>
                    /\ Len(t) = IF Overlap = 0 THEN 0 ELSE 1
                    /\ Len(s) = IF EndsWithHeading(p) THEN Len(t) + 2 ELSE Len(t) + 1
                    /\ \A k \in 1 .. Len(t) : s[k] = t[k] /\ s[k].kind = "tail"
                    /\ EndsWithHeading(p) => s[Len(t) + 1] = p[Len(p)]
                    /\ s[Len(s)] = x
                    /\ Length(s) <= Overlap + 2 + (IF EndsWithHeading(p) THEN p[Len(p)].len + 2 ELSE 0)
                                      + x.len
  OBVIOUS
<1>1. /\ t \in Seq(Pieces) /\ Len(t) = IF Overlap = 0 THEN 0 ELSE 1
      /\ \A k \in 1 .. Len(t) : t[k].kind = "tail"
      /\ Length(t) \in Nat /\ Length(t) <= Overlap /\ Overlap \in Nat /\ x.len \in Nat
  <2>1. Kept(p) \in Seq(Pieces)
    BY KeptIs
  <2>2. /\ t \in Seq(Pieces) /\ Len(t) = IF Overlap = 0 THEN 0 ELSE 1
        /\ Overlap # 0 => t[1].kind = "tail"
        /\ Length(t) <= Overlap
    BY <2>1, TailIs
  <2>3. Length(t) \in Nat /\ Overlap \in Nat /\ x.len \in Nat
    BY <2>2, LengthOf, ChunkingAssumption DEF Pieces
  <2>4. \A k \in 1 .. Len(t) : t[k].kind = "tail"
    BY <2>2
  <2>5. QED
    BY <2>2, <2>3, <2>4
<1>2. CASE ~EndsWithHeading(p)
  <2>1. s = t \o << >> \o << x >>
    BY <1>2 DEF StartAfter, Carried
  <2>2. s = Append(t, x)
    BY <1>1, <2>1
  <2>3. /\ s \in Seq(Pieces) /\ Len(s) = Len(t) + 1 /\ s[Len(s)] = x
        /\ \A k \in 1 .. Len(t) : s[k] = t[k]
    BY <1>1, <2>2
  <2>4. Length(s) <= Overlap + 2 + x.len
    <3>1. Length(s) = IF t = << >> THEN x.len ELSE Length(t) + 2 + x.len
      BY <1>1, <2>2, LengthAppend
    <3>2. QED
      BY <1>1, <3>1
  <2>5. s # << >>
    BY <1>1, <2>3
  <2>6. QED
    BY <1>1, <1>2, <2>3, <2>4, <2>5
<1>3. CASE EndsWithHeading(p)
  <2> DEFINE h == p[Len(p)]
             u == Append(t, h)
  <2>1. h \in Pieces /\ Last(p) = h
    BY DEF Last
  <2>2. h.len \in Nat
    BY <2>1 DEF Pieces
  <2>3. s = t \o << h >> \o << x >>
    BY <1>3, <2>1 DEF StartAfter, Carried
  <2> HIDE DEF h
  <2>4. /\ u \in Seq(Pieces) /\ u # << >> /\ Len(u) = Len(t) + 1 /\ u[Len(t) + 1] = h
        /\ \A k \in 1 .. Len(t) : u[k] = t[k]
    <3>1. t \in Seq(Pieces) /\ Len(t) \in Nat
      BY <1>1
    <3>2. /\ u \in Seq(Pieces) /\ Len(u) = Len(t) + 1 /\ u[Len(t) + 1] = h
          /\ \A k \in 1 .. Len(t) : u[k] = t[k]
      BY <2>1, <3>1
    <3>3. u # << >>
      BY <3>1, <3>2
    <3>4. QED
      BY <3>2, <3>3
  <2>5. s = Append(u, x)
    BY <1>1, <2>1, <2>3
  <2> HIDE DEF u
  <2>6. /\ s \in Seq(Pieces) /\ Len(s) = Len(t) + 2 /\ s[Len(s)] = x
        /\ s[Len(t) + 1] = h /\ \A k \in 1 .. Len(t) : s[k] = t[k]
    <3>1. Len(t) \in Nat
      BY <1>1
    <3>2. /\ s \in Seq(Pieces) /\ Len(s) = Len(u) + 1 /\ s[Len(s)] = x
          /\ \A k \in 1 .. Len(u) : s[k] = u[k]
      BY <2>4, <2>5
    <3>3. QED
      BY <2>4, <3>1, <3>2
  <2>7. Length(s) <= Overlap + 2 + (h.len + 2) + x.len
    <3>1. Length(u) = IF t = << >> THEN h.len ELSE Length(t) + 2 + h.len
      BY <1>1, <2>1, LengthAppend DEF u
    <3>2. Length(s) = Length(u) + 2 + x.len
      BY <2>4, <2>5, LengthAppend
    <3>3. Length(u) \in Nat /\ Length(u) <= Overlap + 2 + h.len
      <4>1. CASE t = << >>
        BY <1>1, <2>2, <3>1, <4>1
      <4>2. CASE t # << >>
        BY <1>1, <2>2, <3>1, <4>2
      <4>3. QED
        BY <4>1, <4>2
    <3>4. Overlap \in Nat /\ x.len \in Nat
      BY <1>1
    <3>5. QED
      BY <2>2, <3>2, <3>3, <3>4
  <2>8. s # << >>
    BY <1>1, <2>6
  <2>9. QED
    BY <1>1, <1>3, <2>6, <2>7, <2>8 DEF h
<1>4. QED
  BY <1>2, <1>3

----------------------------------------------------------------------------
(* The inductive invariant.                                                *)

\* Everything cut so far: the finished chunks and the one being packed.
Cut == IF finished \/ current = << >> THEN chunks ELSE Append(chunks, current)

Shape ==
  /\ paragraphs \in Seq(Pieces)
  /\ \A n \in 1 .. Len(paragraphs) : paragraphs[n].kind # "tail" /\ paragraphs[n].no = n
  /\ next \in 1 .. Len(paragraphs) + 1
  /\ current \in Seq(Pieces)
  /\ chunks \in Seq(Seq(Pieces))
  /\ \A i \in 1 .. Len(chunks) : chunks[i] # << >>
  /\ finished \in BOOLEAN
  /\ current = << >> => next = 1 /\ chunks = << >>
  /\ finished => next = Len(paragraphs) + 1

\* The pieces cut so far are the paragraphs before the next one, in order.
FromDocument ==
  \A i \in 1 .. Len(Cut) : \A k \in Own(Cut[i]) :
    /\ Cut[i][k].no \in 1 .. next - 1
    /\ Cut[i][k] = paragraphs[Cut[i][k].no]

InOrder ==
  \A i \in 1 .. Len(Cut) : \A k \in Own(Cut[i]) :
    \A j \in 1 .. i : \A m \in Own(Cut[j]) :
      j < i \/ m < k => Cut[j][m].no < Cut[i][k].no

NothingLost ==
  \A n \in 1 .. next - 1 :
    \E i \in 1 .. Len(Cut) : \E k \in Own(Cut[i]) : Cut[i][k].no = n

Overlapping ==
  \A i \in 1 .. Len(Cut) - 1 : Overlap > 0 => Cut[i + 1][1] = OverlapTail(Cut[i])[1]

Bound ==
  LET paragraph == IF Longest("text") > Longest("heading") THEN Longest("text")
                                                           ELSE Longest("heading")
      started   == Overlap + 2 + Longest("heading") + 2 + paragraph
  IN IF started > ChunkSize THEN started ELSE ChunkSize

Short == \A i \in 1 .. Len(Cut) : Length(Cut[i]) <= Bound

\* A heading that moved on starts its chunk, and while that chunk is being
\* packed something already follows it: it will not move on again.
Starts(pieces, k) ==
  /\ k \in Own(pieces) /\ pieces[k].kind = "heading"
  /\ \A m \in Own(pieces) : k <= m

MovedOn ==
  \A i \in 1 .. Len(Cut) - 1 :
    Last(Cut[i]).kind = "heading" =>
      \/ Len(Cut[i]) = 1
      \/ \E k \in Own(Cut[i + 1]) :
           /\ Starts(Cut[i + 1], k)
           /\ finished \/ i + 1 < Len(Cut) \/ k < Len(current)

LEMMA LongestIs ==
  ASSUME paragraphs \in Seq(Pieces), NEW kind
  PROVE  /\ Longest(kind) \in Nat
         /\ \A n \in 1 .. Len(paragraphs) :
              paragraphs[n].kind = kind => paragraphs[n].len <= Longest(kind)
<1> DEFINE D     == {k \in DOMAIN paragraphs : paragraphs[k].kind = kind}
           sizes == {paragraphs[i].len : i \in D}
<1>1. IsFiniteSet(D) /\ DOMAIN paragraphs = 1 .. Len(paragraphs)
  <2>1. DOMAIN paragraphs = 1 .. Len(paragraphs) /\ Len(paragraphs) \in Nat
    OBVIOUS
  <2>2. IsFiniteSet(1 .. Len(paragraphs))
    BY <2>1, Positions DEF Places
  <2>3. QED
    BY <2>1, <2>2, FS_Subset
<1>2. \A i \in D : paragraphs[i].len \in Nat
  <2>1. \A i \in D : paragraphs[i] \in Pieces
    OBVIOUS
  <2>2. QED
    BY <2>1 DEF Pieces
<1>3. \E m \in sizes \cup {0} : \A n \in sizes : n <= m
  <2>1. CASE D = {}
    BY <2>1
  <2>2. CASE D # {}
    <3> DEFINE size == [i \in D |-> paragraphs[i].len]
    <3>1. size \in [D -> Nat]
      BY <1>2
    <3>2. PICK j \in D : \A i \in D : size[i] <= size[j]
      <4> HIDE DEF size, D
      <4>1. QED
        BY <1>1, <2>2, <3>1, Greatest
    <3>3. \A i \in D : paragraphs[i].len <= paragraphs[j].len
      BY <3>2
    <3>4. QED
      BY <3>3
  <2>3. QED
    BY <2>1, <2>2
<1>4. Longest(kind) \in sizes \cup {0} /\ \A n \in sizes : n <= Longest(kind)
  <2>1. Longest(kind) = CHOOSE m \in sizes \cup {0} : \A n \in sizes : n <= m
    BY DEF Longest
  <2> HIDE DEF sizes
  <2>2. QED
    BY <1>3, <2>1
<1>5. Longest(kind) \in Nat
  BY <1>2, <1>4
<1>6. QED
  BY <1>1, <1>4, <1>5

LEMMA BoundIs ==
  ASSUME Shape
  PROVE  /\ Bound \in Nat /\ ChunkSize <= Bound
         /\ \A n \in 1 .. Len(paragraphs) : \A h \in 0 .. Longest("heading") :
              Overlap + 2 + (h + 2) + paragraphs[n].len <= Bound
<1>1. paragraphs \in Seq(Pieces)
  BY DEF Shape
<1>2. Longest("heading") \in Nat /\ Longest("text") \in Nat
  BY <1>1, LongestIs
<1> DEFINE most    == IF Longest("text") > Longest("heading") THEN Longest("text")
                                                               ELSE Longest("heading")
           started == Overlap + 2 + Longest("heading") + 2 + most
<1>3. ASSUME NEW n \in 1 .. Len(paragraphs)
      PROVE  paragraphs[n].len \in Nat /\ paragraphs[n].len <= most
  <2>1. /\ paragraphs[n].kind \in {"heading", "text"}
        /\ paragraphs[n].len \in Nat
    <3>1. paragraphs[n] \in Pieces /\ paragraphs[n].kind # "tail"
      BY DEF Shape
    <3>2. QED
      BY <3>1 DEF Pieces
  <2>2. CASE paragraphs[n].kind = "heading"
    <3>1. paragraphs[n].len <= Longest("heading")
      BY <1>1, <2>2, LongestIs
    <3>2. QED
      BY <1>2, <2>1, <3>1
  <2>3. CASE paragraphs[n].kind = "text"
    <3>1. paragraphs[n].len <= Longest("text")
      BY <1>1, <2>3, LongestIs
    <3>2. QED
      BY <1>2, <2>1, <3>1
  <2>4. QED
    BY <2>1, <2>2, <2>3
<1>4. Bound = IF started > ChunkSize THEN started ELSE ChunkSize
  BY DEF Bound
<1>5. most \in Nat
  BY <1>2
<1> HIDE DEF most
<1>6. Bound \in Nat /\ ChunkSize <= Bound /\ started <= Bound
  BY <1>2, <1>4, <1>5, ChunkingAssumption
<1>7. ASSUME NEW n \in 1 .. Len(paragraphs), NEW h \in 0 .. Longest("heading")
      PROVE  Overlap + 2 + (h + 2) + paragraphs[n].len <= started
  BY <1>2, <1>3, <1>5, ChunkingAssumption
<1>8. \A n \in 1 .. Len(paragraphs) : paragraphs[n].len \in Nat
  BY <1>3
<1>9. started \in Nat
  BY <1>2, <1>5, ChunkingAssumption
<1> HIDE DEF started
<1>10. ASSUME NEW n \in 1 .. Len(paragraphs), NEW h \in 0 .. Longest("heading")
       PROVE  Overlap + 2 + (h + 2) + paragraphs[n].len <= Bound
  <2> DEFINE e == Overlap + 2 + (h + 2) + paragraphs[n].len
  <2>1. e \in Nat /\ e <= started
    BY <1>2, <1>7, <1>8, ChunkingAssumption
  <2> HIDE DEF e
  <2>2. e <= Bound
    BY <1>6, <1>9, <2>1
  <2>3. QED
    BY <2>2 DEF e
<1>11. QED
  BY <1>6, <1>10

LEMMA InitIs ==
  ASSUME Init
  PROVE  Shape /\ Cut = << >> /\ next = 1
<1>1. PICK n \in 0 .. MaxParagraphs : paragraphs \in Documents(n)
  BY DEF Init
<1>2. PICK k \in [1 .. n -> {"heading", "text"}], l \in [1 .. n -> Lengths] :
        paragraphs = [i \in 1 .. n |-> [kind |-> k[i], len |-> l[i], no |-> i]]
  BY <1>1 DEF Documents
<1>3. ASSUME NEW i \in 1 .. n
      PROVE  /\ [kind |-> k[i], len |-> l[i], no |-> i] \in Pieces
             /\ k[i] # "tail"
  <2>1. k[i] \in {"heading", "text"} /\ l[i] \in Nat /\ i \in 0 .. MaxParagraphs
    <3>1. i \in 0 .. MaxParagraphs
      BY <1>1, ChunkingAssumption
    <3>2. k[i] \in {"heading", "text"} /\ l[i] \in Lengths
      BY <1>2
    <3>3. l[i] \in Nat
      BY <3>2, ChunkingAssumption
    <3>4. QED
      BY <3>1, <3>2, <3>3
  <2>2. QED
    BY <2>1 DEF Pieces
<1>4. paragraphs \in Seq(Pieces) /\ Len(paragraphs) = n /\ n \in Nat
  <2>1. paragraphs \in [1 .. n -> Pieces]
    BY <1>2, <1>3
  <2>2. n \in Nat
    BY <1>1, ChunkingAssumption
  <2>3. QED
    BY <2>1, <2>2
<1>5. \A i \in 1 .. Len(paragraphs) : paragraphs[i].kind # "tail" /\ paragraphs[i].no = i
  BY <1>2, <1>3, <1>4
<1>6. next = 1 /\ current = << >> /\ chunks = << >> /\ finished = FALSE
  BY DEF Init
<1>7. next \in 1 .. Len(paragraphs) + 1
  BY <1>4, <1>6
<1>8. /\ current \in Seq(Pieces) /\ chunks \in Seq(Seq(Pieces))
      /\ \A i \in 1 .. Len(chunks) : chunks[i] # << >>
  BY <1>6
<1>9. Shape
  BY <1>4, <1>5, <1>6, <1>7, <1>8 DEF Shape
<1>10. QED
  BY <1>6, <1>9 DEF Cut

\* What the step sees of the paragraph it is at.
LEMMA AtParagraph ==
  ASSUME Shape, next <= Len(paragraphs)
  PROVE  /\ next \in 1 .. Len(paragraphs)
         /\ paragraphs[next] \in Pieces /\ paragraphs[next].kind # "tail"
         /\ paragraphs[next].no = next
         /\ ~finished
<1>1. next \in 1 .. Len(paragraphs)
  BY DEF Shape
<1>2. ~finished
  BY <1>1 DEF Shape
<1>3. QED
  BY <1>1, <1>2 DEF Shape

LEMMA CutIs ==
  ASSUME Shape
  PROVE  /\ Cut \in Seq(Seq(Pieces))
         /\ \A i \in 1 .. Len(Cut) : Cut[i] # << >>
         /\ Len(chunks) <= Len(Cut) /\ \A i \in 1 .. Len(chunks) : Cut[i] = chunks[i]
         /\ ~finished /\ current # << >> => Len(Cut) = Len(chunks) + 1 /\ Cut[Len(Cut)] = current
<1>0. chunks \in Seq(Seq(Pieces)) /\ current \in Seq(Pieces)
  BY DEF Shape
<1>1. CASE finished \/ current = << >>
  <2>1. Cut = chunks
    BY <1>1 DEF Cut
  <2>2. QED
    BY <1>0, <1>1, <2>1 DEF Shape
<1>2. CASE ~(finished \/ current = << >>)
  <2>1. Cut = Append(chunks, current)
    BY <1>2 DEF Cut
  <2>2. /\ Cut \in Seq(Seq(Pieces)) /\ Len(Cut) = Len(chunks) + 1
        /\ \A i \in 1 .. Len(chunks) : Cut[i] = chunks[i]
        /\ Cut[Len(chunks) + 1] = current
    BY <1>0, <2>1
  <2>3. ASSUME NEW i \in 1 .. Len(Cut) PROVE Cut[i] # << >>
    <3>1. CASE i \in 1 .. Len(chunks)
      BY <2>2, <3>1 DEF Shape
    <3>2. CASE i = Len(chunks) + 1
      BY <1>2, <2>2, <3>2
    <3>3. QED
      BY <1>0, <2>2, <2>3, <3>1, <3>2
  <2>4. QED
    BY <1>0, <2>2, <2>3
<1>3. QED
  BY <1>1, <1>2

\* What each step does to what is cut.
LEMMA PackIs ==
  ASSUME Shape, Pack, NEW p, p = paragraphs[next], NEW m, m = Len(chunks) + 1
  PROVE  /\ Shape' /\ ~finished /\ ~finished' /\ current' = Append(current, p)
         /\ m \in Nat \ {0} /\ Len(Cut') = m
         /\ \A i \in 1 .. m - 1 : Cut'[i] = Cut[i]
         /\ Cut'[m] = Append(current, p)
         /\ current # << >> => Len(Cut) = m /\ Cut[m] = current
         /\ current = << >> => Len(Cut) = 0 /\ m = 1 /\ next = 1
<1>1. /\ next \in 1 .. Len(paragraphs) /\ p \in Pieces /\ ~finished
  BY AtParagraph DEF Pack
<1>2. /\ current' = Append(current, p) /\ next' = next + 1
      /\ paragraphs' = paragraphs /\ chunks' = chunks /\ finished' = finished
  BY DEF Pack
<1>3. chunks \in Seq(Seq(Pieces)) /\ current \in Seq(Pieces)
  BY DEF Shape
<1>4. current' \in Seq(Pieces) /\ current' # << >>
  BY <1>1, <1>2, <1>3
<1>5. next' \in 1 .. Len(paragraphs') + 1
  BY <1>1, <1>2
<1>6. Shape'
  BY <1>1, <1>2, <1>4, <1>5 DEF Shape
<1>7. Cut' = Append(chunks, Append(current, p))
  BY <1>1, <1>2, <1>4 DEF Cut
<1>8. /\ m \in Nat \ {0} /\ Len(Cut') = m /\ Cut'[m] = Append(current, p)
      /\ \A i \in 1 .. m - 1 : Cut'[i] = chunks[i]
  <2> DEFINE c == Append(current, p)
  <2>1. c \in Seq(Pieces)
    BY <1>1, <1>3
  <2> HIDE DEF c
  <2>2. /\ Len(Append(chunks, c)) = Len(chunks) + 1
        /\ Append(chunks, c)[Len(chunks) + 1] = c
        /\ \A i \in 1 .. Len(chunks) : Append(chunks, c)[i] = chunks[i]
    BY <1>3, <2>1
  <2>3. Len(chunks) \in Nat
    BY <1>3
  <2>4. QED
    BY <1>7, <2>2, <2>3 DEF c
<1>9. /\ \A i \in 1 .. m - 1 : Cut[i] = chunks[i]
      /\ current # << >> => Len(Cut) = m /\ Cut[m] = current
  <2>1. m - 1 = Len(chunks)
    BY <1>3
  <2>2. QED
    BY <1>1, <2>1, CutIs
<1>10. current = << >> => Len(Cut) = 0 /\ m = 1 /\ next = 1
  BY DEF Shape, Cut
<1>11. QED
  BY <1>1, <1>2, <1>6, <1>8, <1>9, <1>10

LEMMA BreakIs ==
  ASSUME Shape, Break, NEW p, p = paragraphs[next], NEW m, m = Len(chunks) + 1
  PROVE  /\ Shape' /\ ~finished /\ ~finished' /\ current' = StartAfter(current, p)
         /\ current \in Seq(Pieces) /\ current # << >>
         /\ m \in Nat \ {0} /\ Len(Cut') = m + 1
         /\ \A i \in 1 .. m - 1 : Cut'[i] = Cut[i]
         /\ Cut'[m] = Kept(current) /\ Cut'[m + 1] = StartAfter(current, p)
         /\ Len(Cut) = m /\ Cut[m] = current
<1>1. /\ next \in 1 .. Len(paragraphs) /\ p \in Pieces /\ ~finished
  BY AtParagraph DEF Break
<1>2. /\ chunks' = Append(chunks, Kept(current)) /\ current' = StartAfter(current, p)
      /\ next' = next + 1 /\ paragraphs' = paragraphs /\ finished' = finished
  BY DEF Break
<1>3. chunks \in Seq(Seq(Pieces)) /\ current \in Seq(Pieces)
  BY DEF Shape
<1>4. current # << >>
  BY DEF Break, Fits
<1> DEFINE k == Kept(current)
           s == StartAfter(current, p)
<1>5. k \in Seq(Pieces) /\ k # << >>
  BY <1>3, <1>4, KeptIs
<1>6. s \in Seq(Pieces) /\ s # << >>
  BY <1>1, <1>3, <1>4, StartAfterIs
<1> HIDE DEF k, s
<1>7. /\ chunks' \in Seq(Seq(Pieces)) /\ Len(chunks') = m /\ m \in Nat \ {0} /\ chunks'[m] = k
      /\ \A i \in 1 .. m - 1 : chunks'[i] = chunks[i]
  <2>1. chunks' = Append(chunks, k)
    BY <1>2 DEF k
  <2>2. QED
    BY <1>3, <1>5, <2>1
<1>8. \A i \in 1 .. Len(chunks') : chunks'[i] # << >>
  <2>1. \A i \in 1 .. m - 1 : chunks[i] # << >>
    BY <1>3 DEF Shape
  <2>2. \A i \in 1 .. m : i \in 1 .. m - 1 \/ i = m
    BY <1>7
  <2>3. QED
    BY <1>5, <1>7, <2>1, <2>2
<1>9. current' = s
  BY <1>2 DEF s
<1>10. next' \in 1 .. Len(paragraphs') + 1
  BY <1>1, <1>2
<1>11. Shape'
  BY <1>1, <1>2, <1>6, <1>7, <1>8, <1>9, <1>10 DEF Shape
<1>12. /\ Len(Cut') = m + 1 /\ Cut'[m + 1] = s
       /\ \A i \in 1 .. m : Cut'[i] = chunks'[i]
  <2>1. Cut' = Append(chunks', s)
    BY <1>1, <1>2, <1>6, <1>9 DEF Cut
  <2>2. QED
    BY <1>6, <1>7, <2>1
<1>13. /\ \A i \in 1 .. m - 1 : Cut[i] = chunks[i]
       /\ Len(Cut) = m /\ Cut[m] = current
  <2>1. m - 1 = Len(chunks)
    BY <1>3
  <2>2. QED
    BY <1>1, <1>4, <2>1, CutIs
<1>14. \A i \in 1 .. m - 1 : Cut'[i] = Cut[i]
  BY <1>7, <1>12, <1>13
<1>15. Cut'[m] = k
  BY <1>7, <1>12
<1>16. QED
  BY <1>1, <1>2, <1>3, <1>4, <1>7, <1>11, <1>12, <1>13, <1>14, <1>15 DEF k, s

LEMMA ReturnIs ==
  ASSUME Shape, Return
  PROVE  Shape' /\ Cut' = Cut /\ finished'
<1>1. /\ chunks' = WithLast /\ finished' = TRUE /\ ~finished
      /\ paragraphs' = paragraphs /\ next' = next /\ current' = current
  BY DEF Return
<1>2. Cut = WithLast /\ Cut' = chunks'
  BY <1>1 DEF Cut, WithLast
<1>3. next' = Len(paragraphs') + 1
  <2>1. /\ next > Len(paragraphs) /\ next \in 1 .. Len(paragraphs) + 1
        /\ Len(paragraphs) \in Nat
    BY DEF Return, Shape
  <2>2. next = Len(paragraphs) + 1
    BY <2>1
  <2>3. QED
    BY <1>1, <2>2
<1>4. /\ chunks' \in Seq(Seq(Pieces)) /\ \A i \in 1 .. Len(chunks') : chunks'[i] # << >>
  BY <1>1, <1>2, CutIs
<1>5. current' = << >> => chunks' = << >>
  BY <1>1 DEF Shape, WithLast
<1>6. Shape'
  BY <1>1, <1>3, <1>4, <1>5 DEF Shape
<1>7. QED
  BY <1>1, <1>2, <1>6

LEMMA StutterIs ==
  ASSUME Shape, UNCHANGED vars
  PROVE  Shape' /\ Cut' = Cut /\ finished' = finished
BY DEF Shape, Cut, vars

\* The type invariant of the runs: every piece is a paragraph or a tail, no
\* finished chunk is empty and the loop never leaves the document.
THEOREM TypeCorrect == Spec => []TypeOK
<1>1. Init => Shape
  BY InitIs
<1>2. Shape /\ [Next]_vars => Shape'
  BY PackIs, BreakIs, ReturnIs, StutterIs DEF Next
<1>3. Shape => TypeOK
  BY DEF Shape, TypeOK
<1>4. QED
  BY <1>1, <1>2, <1>3, PTL DEF Spec

----------------------------------------------------------------------------
(* Which pieces the steps put where.                                       *)

LEMMA PackPieces ==
  ASSUME Shape, Pack, NEW p, p = paragraphs[next], NEW m, m = Len(chunks) + 1,
         NEW e, e = Len(current) + 1
  PROVE  /\ \A i \in 1 .. Len(Cut') : \A k \in Own(Cut'[i]) :
              \/ i \in 1 .. Len(Cut) /\ k \in Own(Cut[i]) /\ Cut'[i][k] = Cut[i][k]
              \/ i = m /\ k = e /\ Cut'[i][k] = p
         /\ \A i \in 1 .. Len(Cut) : \A k \in Own(Cut[i]) :
              /\ i \in 1 .. Len(Cut') /\ k \in Own(Cut'[i]) /\ Cut'[i][k] = Cut[i][k]
              /\ k \in Nat /\ (i < m \/ (i = m /\ k < e))
         /\ m \in 1 .. Len(Cut') /\ e \in Own(Cut'[m]) /\ Cut'[m][e] = p /\ e \in Nat
<1>1. /\ Shape' /\ m \in Nat \ {0} /\ Len(Cut') = m
      /\ \A i \in 1 .. m - 1 : Cut'[i] = Cut[i]
      /\ Cut'[m] = Append(current, p)
      /\ current # << >> => Len(Cut) = m /\ Cut[m] = current
      /\ current = << >> => Len(Cut) = 0 /\ m = 1
  BY PackIs
<1>2. current \in Seq(Pieces) /\ p \in Pieces /\ p.kind # "tail"
  BY AtParagraph DEF Shape, Pack
<1> DEFINE a == Append(current, p)
<1>3. /\ DOMAIN a = 1 .. e /\ DOMAIN current = 1 .. e - 1 /\ e \in Nat \ {0} /\ a[e] = p
      /\ \A k \in 1 .. e - 1 : a[k] = current[k]
  BY <1>2
<1>4. Cut'[m] = a
  BY <1>1
<1> HIDE DEF a
<1>5. e \in Own(a) /\ \A k \in Own(a) : k = e \/ (k \in Own(current) /\ a[k] = current[k])
  <2>1. e \in Own(a)
    BY <1>2, <1>3 DEF Own
  <2>2. ASSUME NEW k \in Own(a)
        PROVE  k = e \/ (k \in Own(current) /\ a[k] = current[k])
    <3>1. k \in 1 .. e /\ a[k].kind # "tail"
      BY <1>3 DEF Own
    <3>2. k = e \/ k \in 1 .. e - 1
      BY <1>3, <3>1
    <3>3. CASE k \in 1 .. e - 1
      BY <1>3, <3>1, <3>3 DEF Own
    <3>4. QED
      BY <3>2, <3>3
  <2>3. QED
    BY <2>1, <2>2
<1>6. \A k \in Own(current) : k \in Own(a) /\ a[k] = current[k] /\ k \in Nat /\ k < e
  <2>1. ASSUME NEW k \in Own(current)
        PROVE  k \in Own(a) /\ a[k] = current[k] /\ k \in Nat /\ k < e
    <3>1. k \in 1 .. e - 1 /\ current[k].kind # "tail"
      BY <1>3 DEF Own
    <3>2. k \in 1 .. e /\ k \in Nat /\ k < e
      BY <1>3, <3>1
    <3>3. QED
      BY <1>3, <3>1, <3>2 DEF Own
  <2>2. QED
    BY <2>1
<1>7. ASSUME NEW i \in 1 .. Len(Cut'), NEW k \in Own(Cut'[i])
      PROVE  \/ i \in 1 .. Len(Cut) /\ k \in Own(Cut[i]) /\ Cut'[i][k] = Cut[i][k]
             \/ i = m /\ k = e /\ Cut'[i][k] = p
  <2>1. CASE i = m
    <3>1. CASE k = e
      BY <1>3, <1>4, <2>1, <3>1
    <3>2. CASE k # e
      <4>1. k \in Own(current) /\ Cut'[i][k] = current[k]
        BY <1>4, <1>5, <2>1, <3>2
      <4>2. current # << >>
        BY <4>1 DEF Own
      <4>3. QED
        BY <1>1, <2>1, <4>1, <4>2
    <3>3. QED
      BY <3>1, <3>2
  <2>2. CASE i # m
    <3>1. i \in 1 .. m - 1
      BY <1>1, <2>2
    <3>2. current # << >>
      BY <1>1, <3>1
    <3>3. i \in 1 .. Len(Cut) /\ Cut'[i] = Cut[i]
      BY <1>1, <3>1, <3>2
    <3>4. QED
      BY <3>3
  <2>3. QED
    BY <2>1, <2>2
<1>8. ASSUME NEW i \in 1 .. Len(Cut), NEW k \in Own(Cut[i])
      PROVE  /\ i \in 1 .. Len(Cut') /\ k \in Own(Cut'[i]) /\ Cut'[i][k] = Cut[i][k]
             /\ k \in Nat /\ (i < m \/ (i = m /\ k < e))
  <2>1. current # << >> /\ Len(Cut) = m /\ Cut[m] = current
    BY <1>1
  <2>2. CASE i = m
    BY <1>1, <1>4, <1>6, <2>1, <2>2
  <2>3. CASE i # m
    <3>1. i \in 1 .. m - 1 /\ i \in 1 .. Len(Cut') /\ i < m
      BY <1>1, <2>1, <2>3
    <3>2. Cut'[i] = Cut[i]
      BY <1>1, <3>1
    <3>3. k \in Nat
      <4>1. Cut[i] \in Seq(Pieces)
        BY CutIs
      <4>2. k \in DOMAIN Cut[i]
        BY DEF Own
      <4>3. QED
        BY <4>1, <4>2
    <3>4. k \in Own(Cut'[i]) /\ Cut'[i][k] = Cut[i][k]
      BY <3>2
    <3>5. QED
      BY <3>1, <3>3, <3>4
  <2>4. QED
    BY <2>2, <2>3
<1>9. m \in 1 .. Len(Cut') /\ e \in Own(Cut'[m]) /\ Cut'[m][e] = p /\ e \in Nat
  BY <1>1, <1>3, <1>4, <1>5
<1>10. QED
  BY <1>7, <1>8, <1>9

LEMMA BreakPieces ==
  ASSUME Shape, Break
  PROVE  LET p     == paragraphs[next]
             m     == Len(chunks) + 1
             l     == Len(current)
             t     == Len(OverlapTail(Kept(current)))
             e     == Len(StartAfter(current, p))
             carry == EndsWithHeading(current)
         IN
         /\ \A i \in 1 .. Len(Cut') : \A k \in Own(Cut'[i]) :
              \/ /\ i \in 1 .. m /\ k \in Own(Cut[i]) /\ Cut'[i][k] = Cut[i][k]
                 /\ i = m /\ carry => k < l
              \/ /\ i = m + 1 /\ k = t + 1 /\ carry
                 /\ l \in Own(Cut[m]) /\ Cut'[i][k] = Cut[m][l]
              \/ i = m + 1 /\ k = e /\ Cut'[i][k] = p
         /\ \A i \in 1 .. m : \A k \in Own(Cut[i]) :
              \/ i \in 1 .. Len(Cut') /\ k \in Own(Cut'[i]) /\ Cut'[i][k] = Cut[i][k]
              \/ /\ i = m /\ k = l /\ carry
                 /\ t + 1 \in Own(Cut'[m + 1]) /\ Cut'[m + 1][t + 1] = Cut[i][k]
         /\ m + 1 \in 1 .. Len(Cut') /\ e \in Own(Cut'[m + 1]) /\ Cut'[m + 1][e] = p
         /\ e \in Nat /\ t \in Nat /\ e = IF carry THEN t + 2 ELSE t + 1
         /\ Len(Cut) = m /\ m \in Nat \ {0} /\ Len(Cut') = m + 1
<1> DEFINE p     == paragraphs[next]
           m     == Len(chunks) + 1
           l     == Len(current)
           t     == Len(OverlapTail(Kept(current)))
           e     == Len(StartAfter(current, p))
           carry == EndsWithHeading(current)
           s     == StartAfter(current, p)
           o     == OverlapTail(Kept(current))
           q     == Kept(current)
<1>1. /\ Shape' /\ m \in Nat \ {0} /\ Len(Cut') = m + 1
      /\ \A i \in 1 .. m - 1 : Cut'[i] = Cut[i]
      /\ Cut'[m] = q /\ Cut'[m + 1] = s
      /\ Len(Cut) = m /\ Cut[m] = current
      /\ current \in Seq(Pieces) /\ current # << >>
  BY BreakIs
<1>2. p \in Pieces /\ p.kind # "tail"
  BY AtParagraph DEF Break
<1>3. /\ q \in Seq(Pieces) /\ Len(q) = IF carry THEN l - 1 ELSE l
      /\ \A i \in 1 .. Len(q) : q[i] = current[i]
  BY <1>1, KeptIs
<1>4. /\ s \in Seq(Pieces) /\ t \in Nat
      /\ e = IF carry THEN t + 2 ELSE t + 1
      /\ \A k \in 1 .. t : s[k].kind = "tail"
      /\ carry => s[t + 1] = current[l]
      /\ s[e] = p
  <2>1. /\ s \in Seq(Pieces) /\ Len(o) = IF Overlap = 0 THEN 0 ELSE 1
        /\ Len(s) = IF EndsWithHeading(current) THEN Len(o) + 2 ELSE Len(o) + 1
        /\ \A k \in 1 .. Len(o) : s[k].kind = "tail"
        /\ EndsWithHeading(current) => s[Len(o) + 1] = current[Len(current)]
        /\ s[Len(s)] = p
    <3> HIDE DEF s, o
    <3>1. s = StartAfter(current, p) /\ o = OverlapTail(Kept(current))
      BY DEF s, o
    <3>2. current \in Seq(Pieces) /\ current # << >> /\ p \in Pieces
      BY <1>1, <1>2
    <3>3. /\ s \in Seq(Pieces)
          /\ Len(o) = IF Overlap = 0 THEN 0 ELSE 1
          /\ Len(s) = IF EndsWithHeading(current) THEN Len(o) + 2 ELSE Len(o) + 1
      BY <3>1, <3>2, StartAfterIs
    <3>4. \A k \in 1 .. Len(o) : s[k].kind = "tail"
      BY <3>1, <3>2, StartAfterIs
    <3>5. /\ EndsWithHeading(current) => s[Len(o) + 1] = current[Len(current)]
          /\ s[Len(s)] = p
      BY <3>1, <3>2, StartAfterIs
    <3>6. QED
      BY <3>3, <3>4, <3>5
  <2>2. e = Len(s) /\ t = Len(o)
    OBVIOUS
  <2> HIDE DEF s, o
  <2>3. t \in Nat
    BY <2>1, <2>2
  <2>4. QED
    BY <2>1, <2>2, <2>3
<1>5. l \in Nat \ {0} /\ DOMAIN current = 1 .. l /\ DOMAIN q = 1 .. Len(q) /\ DOMAIN s = 1 .. e
  <2>1. e = Len(s)
    OBVIOUS
  <2> HIDE DEF s, q
  <2>2. QED
    BY <1>1, <1>3, <1>4, <2>1
<1>6. carry => current[l].kind = "heading" /\ l > 1
  BY DEF EndsWithHeading, Last
<1> HIDE DEF p, m, l, t, e, carry, s, o, q
<1>7. Own(s) = IF carry THEN {t + 1, e} ELSE {e}
  <2>1. ASSUME NEW k \in Own(s) PROVE k = e \/ (carry /\ k = t + 1)
    <3>1. k \in 1 .. e /\ s[k].kind # "tail"
      BY <1>5 DEF Own
    <3>2. k \notin 1 .. t
      BY <1>4, <3>1
    <3>3. k = t + 1 \/ (k = t + 2 /\ carry)
      <4>1. CASE carry
        BY <1>4, <3>1, <3>2, <4>1
      <4>2. CASE ~carry
        BY <1>4, <3>1, <3>2, <4>2
      <4>3. QED
        BY <4>1, <4>2
    <3>4. QED
      BY <1>4, <3>3
  <2>2. e \in Own(s)
    BY <1>2, <1>4, <1>5 DEF Own
  <2>3. carry => t + 1 \in Own(s)
    <3>1. carry => t + 1 \in 1 .. e
      BY <1>4
    <3>2. QED
      BY <1>4, <1>5, <1>6, <3>1 DEF Own
  <2>4. QED
    BY <2>1, <2>2, <2>3
<1>8. Own(q) = {k \in Own(current) : carry => k < l}
  <2>1. ASSUME NEW k \in Own(q) PROVE k \in Own(current) /\ (carry => k < l)
    <3>1. k \in 1 .. Len(q) /\ q[k].kind # "tail"
      BY <1>5 DEF Own
    <3>2. k \in 1 .. l /\ (carry => k < l) /\ q[k] = current[k]
      BY <1>3, <1>5, <3>1
    <3>3. QED
      BY <1>5, <3>1, <3>2 DEF Own
  <2>2. ASSUME NEW k \in Own(current), carry => k < l PROVE k \in Own(q)
    <3>1. k \in 1 .. l /\ current[k].kind # "tail"
      BY <1>5 DEF Own
    <3>2. k \in 1 .. Len(q)
      BY <1>3, <1>5, <2>2, <3>1
    <3>3. q[k] = current[k]
      BY <1>3, <3>2
    <3>4. QED
      BY <1>5, <3>1, <3>2, <3>3 DEF Own
  <2>3. QED
    BY <2>1, <2>2
<1>9. \A k \in Own(q) : q[k] = current[k]
  <2>1. \A k \in Own(q) : k \in 1 .. Len(q)
    BY <1>5 DEF Own
  <2>2. QED
    BY <1>3, <2>1
<1>10. carry => l \in Own(current)
  BY <1>5, <1>6 DEF Own
<1>11. ASSUME NEW i \in 1 .. Len(Cut'), NEW k \in Own(Cut'[i])
       PROVE  \/ /\ i \in 1 .. m /\ k \in Own(Cut[i]) /\ Cut'[i][k] = Cut[i][k]
                 /\ i = m /\ carry => k < l
              \/ /\ i = m + 1 /\ k = t + 1 /\ carry
                 /\ l \in Own(Cut[m]) /\ Cut'[i][k] = Cut[m][l]
              \/ i = m + 1 /\ k = e /\ Cut'[i][k] = p
  <2>1. CASE i = m
    <3>1. k \in Own(q)
      BY <1>1, <2>1
    <3>2. k \in Own(current) /\ (carry => k < l) /\ q[k] = current[k]
      BY <1>8, <1>9, <3>1
    <3>3. i \in 1 .. m
      BY <1>1, <2>1
    <3>4. QED
      BY <1>1, <2>1, <3>2, <3>3
  <2>2. CASE i = m + 1
    <3>1. k \in Own(s)
      BY <1>1, <2>2
    <3>2. CASE k = e
      BY <1>1, <1>4, <2>2, <3>2
    <3>3. CASE carry /\ k = t + 1
      BY <1>1, <1>4, <1>10, <2>2, <3>3
    <3>4. QED
      BY <1>7, <3>1, <3>2, <3>3
  <2>3. CASE i \in 1 .. m - 1
    <3>1. i \in 1 .. m /\ i # m /\ Cut'[i] = Cut[i]
      BY <1>1, <2>3
    <3>2. QED
      BY <3>1
  <2>4. QED
    BY <1>1, <2>1, <2>2, <2>3
<1>12. ASSUME NEW i \in 1 .. m, NEW k \in Own(Cut[i])
       PROVE  \/ i \in 1 .. Len(Cut') /\ k \in Own(Cut'[i]) /\ Cut'[i][k] = Cut[i][k]
              \/ /\ i = m /\ k = l /\ carry
                 /\ t + 1 \in Own(Cut'[m + 1]) /\ Cut'[m + 1][t + 1] = Cut[i][k]
  <2>1. i \in 1 .. Len(Cut')
    BY <1>1
  <2>2. CASE i # m
    <3>1. i \in 1 .. m - 1
      BY <1>1, <2>2
    <3>2. QED
      BY <1>1, <2>1, <3>1
  <2>3. CASE i = m /\ (carry => k < l)
    <3>1. k \in Own(q)
      BY <1>1, <1>8, <2>3
    <3>2. QED
      BY <1>1, <1>9, <2>1, <2>3, <3>1
  <2>4. CASE i = m /\ carry /\ ~(k < l)
    <3>1. k \in 1 .. l
      BY <1>1, <1>5, <2>4 DEF Own
    <3>2. k = l
      BY <1>5, <2>4, <3>1
    <3>3. QED
      BY <1>1, <1>4, <1>7, <2>4, <3>2
  <2>5. QED
    BY <2>2, <2>3, <2>4
<1>13. m + 1 \in 1 .. Len(Cut') /\ e \in Own(Cut'[m + 1]) /\ Cut'[m + 1][e] = p /\ e \in Nat
  BY <1>1, <1>4, <1>7
<1>14. QED
  BY <1>1, <1>4, <1>11, <1>12, <1>13 DEF p, m, l, t, e, carry

----------------------------------------------------------------------------
(* The document is kept.                                                   *)

Document == FromDocument /\ InOrder /\ NothingLost

LEMMA DocumentPacked ==
  ASSUME Shape, Document, Pack
  PROVE  Document'
<1> DEFINE p == paragraphs[next]
           m == Len(chunks) + 1
           e == Len(current) + 1
<1>0. /\ \A i \in 1 .. Len(Cut') : \A k \in Own(Cut'[i]) :
           \/ i \in 1 .. Len(Cut) /\ k \in Own(Cut[i]) /\ Cut'[i][k] = Cut[i][k]
           \/ i = m /\ k = e /\ Cut'[i][k] = p
      /\ \A i \in 1 .. Len(Cut) : \A k \in Own(Cut[i]) :
           /\ i \in 1 .. Len(Cut') /\ k \in Own(Cut'[i]) /\ Cut'[i][k] = Cut[i][k]
           /\ k \in Nat /\ (i < m \/ (i = m /\ k < e))
      /\ m \in 1 .. Len(Cut') /\ e \in Own(Cut'[m]) /\ Cut'[m][e] = p /\ e \in Nat
  BY PackPieces
<1>1. next' = next + 1 /\ paragraphs' = paragraphs
  BY DEF Pack
<1>2. next \in 1 .. Len(paragraphs) /\ p.no = next
  BY AtParagraph DEF Pack
<1>3. m \in Nat
  BY PackIs
<1> HIDE DEF p, m, e
<1>4. FromDocument'
  <2>1. ASSUME NEW i \in 1 .. Len(Cut'), NEW k \in Own(Cut'[i])
        PROVE  /\ Cut'[i][k].no \in 1 .. next' - 1
               /\ Cut'[i][k] = paragraphs'[Cut'[i][k].no]
    <3>1. CASE i \in 1 .. Len(Cut) /\ k \in Own(Cut[i]) /\ Cut'[i][k] = Cut[i][k]
      <4>1. Cut[i][k].no \in 1 .. next - 1 /\ Cut[i][k] = paragraphs[Cut[i][k].no]
        BY <3>1 DEF Document, FromDocument
      <4>2. Cut[i][k].no \in 1 .. next' - 1
        BY <1>1, <1>2, <4>1
      <4>3. QED
        BY <1>1, <3>1, <4>1, <4>2
    <3>2. CASE Cut'[i][k] = p
      <4>1. next \in 1 .. next' - 1
        BY <1>1, <1>2
      <4>2. QED
        BY <1>1, <1>2, <3>2, <4>1 DEF p
    <3>3. QED
      BY <1>0, <3>1, <3>2
  <2>2. QED
    BY <2>1 DEF FromDocument
<1>5. InOrder'
  <2>1. ASSUME NEW i \in 1 .. Len(Cut'), NEW k \in Own(Cut'[i]),
               NEW j \in 1 .. i, NEW l \in Own(Cut'[j]), j < i \/ l < k
        PROVE  Cut'[j][l].no < Cut'[i][k].no
    <3>0. j \in 1 .. Len(Cut') /\ i \in Nat /\ j \in Nat /\ j <= i
      OBVIOUS
    <3>1. CASE j \in 1 .. Len(Cut) /\ l \in Own(Cut[j]) /\ Cut'[j][l] = Cut[j][l]
      <4>1. CASE i \in 1 .. Len(Cut) /\ k \in Own(Cut[i]) /\ Cut'[i][k] = Cut[i][k]
        <5>1. Cut[j][l].no < Cut[i][k].no
          BY <2>1, <3>1, <4>1 DEF Document, InOrder
        <5>2. QED
          BY <3>1, <4>1, <5>1
      <4>2. CASE Cut'[i][k] = p
        <5>1. Cut[j][l].no \in 1 .. next - 1
          BY <3>1 DEF Document, FromDocument
        <5>2. Cut[j][l].no < next
          BY <1>2, <5>1
        <5>3. QED
          BY <1>2, <3>1, <4>2, <5>2
      <4>3. QED
        BY <1>0, <4>1, <4>2
    <3>2. CASE j = m /\ l = e
      <4>1. CASE i \in 1 .. Len(Cut) /\ k \in Own(Cut[i])
        <5>1. k \in Nat /\ (i < m \/ (i = m /\ k < e))
          BY <1>0, <4>1
        <5>2. QED
          BY <1>0, <1>3, <2>1, <3>0, <3>2, <5>1
      <4>2. CASE i = m /\ k = e
        BY <1>0, <1>3, <2>1, <3>2, <4>2
      <4>3. QED
        BY <1>0, <4>1, <4>2
    <3>3. QED
      BY <1>0, <3>0, <3>1, <3>2
  <2>2. QED
    BY <2>1 DEF InOrder
<1>6. NothingLost'
  <2>1. ASSUME NEW n \in 1 .. next' - 1
        PROVE  \E i \in 1 .. Len(Cut') : \E k \in Own(Cut'[i]) : Cut'[i][k].no = n
    <3>1. CASE n = next
      BY <1>0, <1>2, <3>1
    <3>2. CASE n # next
      <4>1. n \in 1 .. next - 1
        BY <1>1, <1>2, <3>2
      <4>2. PICK i \in 1 .. Len(Cut) : \E k \in Own(Cut[i]) : Cut[i][k].no = n
        BY <4>1 DEF Document, NothingLost
      <4>3. PICK k \in Own(Cut[i]) : Cut[i][k].no = n
        BY <4>2
      <4>4. i \in 1 .. Len(Cut') /\ k \in Own(Cut'[i]) /\ Cut'[i][k] = Cut[i][k]
        BY <1>0
      <4>5. QED
        BY <4>3, <4>4
    <3>3. QED
      BY <3>1, <3>2
  <2>2. QED
    BY <2>1 DEF NothingLost
<1>7. QED
  BY <1>4, <1>5, <1>6 DEF Document

LEMMA DocumentBroken ==
  ASSUME Shape, Document, Break
  PROVE  Document'
<1> DEFINE p     == paragraphs[next]
           m     == Len(chunks) + 1
           l     == Len(current)
           t     == Len(OverlapTail(Kept(current)))
           e     == Len(StartAfter(current, p))
           carry == EndsWithHeading(current)
           Old(i, k)   == /\ i \in 1 .. m /\ k \in Own(Cut[i]) /\ Cut'[i][k] = Cut[i][k]
                          /\ i = m /\ carry => k < l
           Moved(i, k) == /\ i = m + 1 /\ k = t + 1 /\ carry
                          /\ l \in Own(Cut[m]) /\ Cut'[i][k] = Cut[m][l]
           Added(i, k) == i = m + 1 /\ k = e /\ Cut'[i][k] = p
<1>0. /\ \A i \in 1 .. Len(Cut') : \A k \in Own(Cut'[i]) :
           Old(i, k) \/ Moved(i, k) \/ Added(i, k)
      /\ \A i \in 1 .. m : \A k \in Own(Cut[i]) :
           \/ i \in 1 .. Len(Cut') /\ k \in Own(Cut'[i]) /\ Cut'[i][k] = Cut[i][k]
           \/ /\ i = m /\ k = l /\ carry
              /\ t + 1 \in Own(Cut'[m + 1]) /\ Cut'[m + 1][t + 1] = Cut[i][k]
      /\ m + 1 \in 1 .. Len(Cut') /\ e \in Own(Cut'[m + 1]) /\ Cut'[m + 1][e] = p
      /\ e \in Nat /\ t \in Nat /\ e = IF carry THEN t + 2 ELSE t + 1
      /\ Len(Cut) = m /\ m \in Nat \ {0} /\ Len(Cut') = m + 1
  BY BreakPieces
<1>1. next' = next + 1 /\ paragraphs' = paragraphs
  BY DEF Break
<1>2. next \in 1 .. Len(paragraphs) /\ p.no = next
  BY AtParagraph DEF Break
<1> HIDE DEF p, m, l, t, e, carry
<1>3. ASSUME NEW i \in 1 .. m, NEW k \in Own(Cut[i])
      PROVE  /\ Cut[i][k].no \in 1 .. next - 1 /\ Cut[i][k] = paragraphs[Cut[i][k].no]
             /\ Cut[i][k].no \in 1 .. next' - 1 /\ Cut[i][k].no < next
  <2>1. Cut[i][k].no \in 1 .. next - 1 /\ Cut[i][k] = paragraphs[Cut[i][k].no]
    BY <1>0 DEF Document, FromDocument
  <2>2. QED
    BY <1>1, <1>2, <2>1
<1>4. FromDocument'
  <2>1. ASSUME NEW i \in 1 .. Len(Cut'), NEW k \in Own(Cut'[i])
        PROVE  /\ Cut'[i][k].no \in 1 .. next' - 1
               /\ Cut'[i][k] = paragraphs'[Cut'[i][k].no]
    <3>1. CASE Old(i, k)
      BY <1>1, <1>3, <3>1
    <3>2. CASE Moved(i, k)
      <4>1. m \in 1 .. m
        BY <1>0
      <4>2. QED
        BY <1>1, <1>3, <3>2, <4>1
    <3>3. CASE Added(i, k)
      <4>1. next \in 1 .. next' - 1
        BY <1>1, <1>2
      <4>2. QED
        BY <1>1, <1>2, <3>3, <4>1 DEF p
    <3>4. QED
      BY <1>0, <3>1, <3>2, <3>3
  <2>2. QED
    BY <2>1 DEF FromDocument
<1>5. InOrder'
  <2>1. ASSUME NEW i \in 1 .. Len(Cut'), NEW k \in Own(Cut'[i]),
               NEW j \in 1 .. i, NEW o \in Own(Cut'[j]), j < i \/ o < k
        PROVE  Cut'[j][o].no < Cut'[i][k].no
    <3>0. j \in 1 .. Len(Cut') /\ i \in Nat /\ j \in Nat /\ j <= i
      OBVIOUS
    <3>1. CASE Old(j, o)
      <4>1. CASE Old(i, k)
        <5>1. Cut[j][o].no < Cut[i][k].no
          BY <1>0, <2>1, <3>1, <4>1 DEF Document, InOrder
        <5>2. QED
          BY <3>1, <4>1, <5>1
      <4>2. CASE Moved(i, k)
        <5>1. m \in 1 .. Len(Cut) /\ l \in Own(Cut[m]) /\ j \in 1 .. m
          BY <1>0, <3>1, <4>2
        <5>2. j < m \/ o < l
          BY <1>0, <3>1, <4>2
        <5>3. Cut[j][o].no < Cut[m][l].no
          BY <3>1, <5>1, <5>2 DEF Document, InOrder
        <5>4. QED
          BY <3>1, <4>2, <5>3
      <4>3. CASE Added(i, k)
        BY <1>2, <1>3, <3>1, <4>3
      <4>4. QED
        BY <1>0, <4>1, <4>2, <4>3
    <3>2. CASE Moved(j, o)
      <4>1. i = m + 1
        BY <1>0, <3>0, <3>2
      <4>2. ~Old(i, k)
        BY <1>0, <4>1
      <4>3. ~Moved(i, k)
        BY <1>0, <2>1, <3>0, <3>2, <4>1
      <4>4. Added(i, k)
        BY <1>0, <4>2, <4>3
      <4>5. m \in 1 .. m
        BY <1>0
      <4>6. QED
        BY <1>2, <1>3, <3>2, <4>4, <4>5
    <3>3. CASE Added(j, o)
      <4>1. i = m + 1
        BY <1>0, <3>0, <3>3
      <4>2. ~Old(i, k)
        BY <1>0, <4>1
      <4>3. k = t + 1 \/ k = e
        BY <1>0, <4>2
      <4>4. o < k /\ o = e
        BY <1>0, <2>1, <3>3, <4>1
      <4>5. QED
        BY <1>0, <4>3, <4>4
    <3>4. QED
      BY <1>0, <3>0, <3>1, <3>2, <3>3
  <2>2. QED
    BY <2>1 DEF InOrder
<1>6. NothingLost'
  <2>1. ASSUME NEW n \in 1 .. next' - 1
        PROVE  \E i \in 1 .. Len(Cut') : \E k \in Own(Cut'[i]) : Cut'[i][k].no = n
    <3>1. CASE n = next
      BY <1>0, <1>2, <3>1
    <3>2. CASE n # next
      <4>1. n \in 1 .. next - 1
        BY <1>1, <1>2, <3>2
      <4>2. PICK i \in 1 .. Len(Cut) : \E k \in Own(Cut[i]) : Cut[i][k].no = n
        BY <4>1 DEF Document, NothingLost
      <4>3. PICK k \in Own(Cut[i]) : Cut[i][k].no = n
        BY <4>2
      <4>4. i \in 1 .. m
        BY <1>0
      <4>5. CASE i \in 1 .. Len(Cut') /\ k \in Own(Cut'[i]) /\ Cut'[i][k] = Cut[i][k]
        BY <4>3, <4>5
      <4>6. CASE t + 1 \in Own(Cut'[m + 1]) /\ Cut'[m + 1][t + 1] = Cut[i][k]
        BY <1>0, <4>3, <4>6
      <4>7. QED
        BY <1>0, <4>4, <4>5, <4>6
    <3>3. QED
      BY <3>1, <3>2
  <2>2. QED
    BY <2>1 DEF NothingLost
<1>7. QED
  BY <1>4, <1>5, <1>6 DEF Document

----------------------------------------------------------------------------
(* Every chunk but the first starts with the tail of the one before it.    *)

LEMMA OverlapPacked ==
  ASSUME Shape, Overlapping, Pack
  PROVE  Overlapping'
<1> DEFINE p == paragraphs[next]
           m == Len(chunks) + 1
           a == Append(current, p)
<1>1. /\ m \in Nat \ {0} /\ Len(Cut') = m
      /\ \A i \in 1 .. m - 1 : Cut'[i] = Cut[i]
      /\ Cut'[m] = a
      /\ current # << >> => Len(Cut) = m /\ Cut[m] = current
      /\ current = << >> => Len(Cut) = 0 /\ m = 1
  BY PackIs
<1>2. current # << >> => a[1] = current[1]
  <2>1. current \in Seq(Pieces) /\ p \in Pieces
    BY AtParagraph DEF Shape, Pack
  <2>2. QED
    BY <2>1
<1> HIDE DEF p, m, a
<1>3. ASSUME NEW i \in 1 .. Len(Cut') - 1, Overlap > 0
      PROVE  Cut'[i + 1][1] = OverlapTail(Cut'[i])[1]
  <2>1. i \in 1 .. m - 1 /\ current # << >>
    BY <1>1
  <2>2. Cut[i + 1][1] = OverlapTail(Cut[i])[1] /\ Cut'[i] = Cut[i]
    BY <1>1, <1>3, <2>1 DEF Overlapping
  <2>3. CASE i + 1 = m
    BY <1>1, <1>2, <2>1, <2>2, <2>3
  <2>4. CASE i + 1 # m
    <3>1. i + 1 \in 1 .. m - 1
      BY <1>1, <2>1, <2>4
    <3>2. QED
      BY <1>1, <2>2, <3>1
  <2>5. QED
    BY <2>3, <2>4
<1>4. QED
  BY <1>3 DEF Overlapping

LEMMA OverlapBroken ==
  ASSUME Shape, Overlapping, Break
  PROVE  Overlapping'
<1> DEFINE p == paragraphs[next]
           m == Len(chunks) + 1
           q == Kept(current)
           s == StartAfter(current, p)
<1>1. /\ m \in Nat \ {0} /\ Len(Cut') = m + 1
      /\ \A i \in 1 .. m - 1 : Cut'[i] = Cut[i]
      /\ Cut'[m] = q /\ Cut'[m + 1] = s
      /\ Len(Cut) = m /\ Cut[m] = current
      /\ current \in Seq(Pieces) /\ current # << >>
  BY BreakIs
<1>2. q[1] = current[1]
  <2>1. /\ q \in Seq(Pieces) /\ q # << >>
        /\ \A i \in 1 .. Len(q) : q[i] = current[i]
    BY <1>1, KeptIs
  <2> HIDE DEF q
  <2>2. 1 \in 1 .. Len(q)
    BY <2>1
  <2>3. QED
    BY <2>1, <2>2
<1>3. Overlap > 0 => s[1] = OverlapTail(q)[1]
  <2> DEFINE t == OverlapTail(Kept(current))
  <2>1. p \in Pieces
    BY AtParagraph DEF Break
  <2>2. /\ Len(t) = IF Overlap = 0 THEN 0 ELSE 1
        /\ \A k \in 1 .. Len(t) : s[k] = t[k]
    BY <1>1, <2>1, StartAfterIs
  <2> HIDE DEF t, s
  <2>3. Overlap > 0 => 1 \in 1 .. Len(t)
    BY <2>2, ChunkingAssumption
  <2>4. QED
    BY <2>2, <2>3 DEF t
<1> HIDE DEF p, m, q, s
<1>4. ASSUME NEW i \in 1 .. Len(Cut') - 1, Overlap > 0
      PROVE  Cut'[i + 1][1] = OverlapTail(Cut'[i])[1]
  <2>1. CASE i = m
    BY <1>1, <1>3, <1>4, <2>1
  <2>2. CASE i # m
    <3>1. i \in 1 .. m - 1
      BY <1>1, <2>2
    <3>2. Cut[i + 1][1] = OverlapTail(Cut[i])[1] /\ Cut'[i] = Cut[i]
      BY <1>1, <1>4, <3>1 DEF Overlapping
    <3>3. CASE i + 1 = m
      BY <1>1, <1>2, <3>2, <3>3
    <3>4. CASE i + 1 # m
      <4>1. i + 1 \in 1 .. m - 1
        BY <1>1, <3>1, <3>4
      <4>2. QED
        BY <1>1, <3>2, <4>1
    <3>5. QED
      BY <3>3, <3>4
  <2>3. QED
    BY <2>1, <2>2
<1>5. QED
  BY <1>4 DEF Overlapping

\* Nothing is lost, repeated or reordered by the cutting: without the tails
\* the chunks are the paragraphs of the document, in order, at the end all of
\* them, and each chunk but the first starts with the tail of the one before.
THEOREM DocumentKept == Spec => []ChunksAreTheDocument
<1> DEFINE Inv == Shape /\ Document /\ Overlapping
<1>1. Init => Inv
  <2> SUFFICES ASSUME Init PROVE Inv
    OBVIOUS
  <2>1. Shape /\ Cut = << >> /\ next = 1
    BY InitIs
  <2>2. Len(Cut) = 0
    BY <2>1
  <2>3. 1 .. Len(Cut) = {} /\ 1 .. Len(Cut) - 1 = {} /\ 1 .. next - 1 = {}
    BY <2>1, <2>2
  <2>4. Document /\ Overlapping
    BY <2>3 DEF Document, FromDocument, InOrder, NothingLost, Overlapping
  <2>5. QED
    BY <2>1, <2>4
<1>2. Inv /\ [Next]_vars => Inv'
  <2> SUFFICES ASSUME Inv, [Next]_vars PROVE Inv'
    OBVIOUS
  <2>1. CASE Pack
    BY <2>1, PackIs, DocumentPacked, OverlapPacked
  <2>2. CASE Break
    BY <2>2, BreakIs, DocumentBroken, OverlapBroken
  <2>3. ASSUME Shape', Cut' = Cut, next' = next, paragraphs' = paragraphs PROVE Inv'
    BY <2>3 DEF Document, FromDocument, InOrder, NothingLost, Overlapping
  <2>4. CASE Return
    <3>1. next' = next /\ paragraphs' = paragraphs
      BY <2>4 DEF Return
    <3>2. QED
      BY <2>3, <2>4, <3>1, ReturnIs
  <2>5. CASE UNCHANGED vars
    <3>1. next' = next /\ paragraphs' = paragraphs
      BY <2>5 DEF vars
    <3>2. QED
      BY <2>3, <2>5, <3>1, StutterIs
  <2>6. QED
    BY <2>1, <2>2, <2>4, <2>5 DEF Next
<1>3. Inv => ChunksAreTheDocument
  <2> SUFFICES ASSUME Inv PROVE ChunksAreTheDocument
    OBVIOUS
  <2>1. /\ chunks \in Seq(Seq(Pieces)) /\ paragraphs \in Seq(Pieces)
        /\ next \in 1 .. Len(paragraphs) + 1 /\ (finished => next = Len(paragraphs) + 1)
    BY DEF Shape
  <2>2. /\ DOMAIN chunks = 1 .. Len(chunks) /\ Len(chunks) \in Nat
        /\ DOMAIN paragraphs = 1 .. Len(paragraphs) /\ Len(paragraphs) \in Nat
    BY <2>1
  <2>3. /\ Len(chunks) <= Len(Cut) /\ Len(Cut) \in Nat
        /\ \A i \in 1 .. Len(chunks) : Cut[i] = chunks[i]
    BY CutIs
  <2>4. ASSUME NEW i \in DOMAIN chunks
        PROVE  i \in 1 .. Len(Cut) /\ Cut[i] = chunks[i] /\ i \in Nat
    BY <2>2, <2>3
  <2>5. ASSUME NEW i \in DOMAIN chunks, NEW k \in Own(chunks[i])
        PROVE  /\ chunks[i][k].no \in DOMAIN paragraphs
               /\ chunks[i][k] = paragraphs[chunks[i][k].no]
               /\ \A j \in 1 .. i : \A m \in Own(chunks[j]) :
                    j < i \/ m < k => chunks[j][m].no < chunks[i][k].no
    <3>1. i \in 1 .. Len(Cut) /\ k \in Own(Cut[i]) /\ Cut[i] = chunks[i]
      BY <2>4
    <3>2. Cut[i][k].no \in 1 .. next - 1 /\ Cut[i][k] = paragraphs[Cut[i][k].no]
      BY <3>1 DEF Document, FromDocument
    <3>3. Cut[i][k].no \in DOMAIN paragraphs
      BY <2>1, <2>2, <3>2
    <3>4. ASSUME NEW j \in 1 .. i, NEW m \in Own(chunks[j]), j < i \/ m < k
          PROVE  chunks[j][m].no < chunks[i][k].no
      <4>1. j \in DOMAIN chunks
        BY <2>2
      <4>2. Cut[j] = chunks[j]
        BY <2>4, <4>1
      <4>3. Cut[j][m].no < Cut[i][k].no
        BY <3>1, <3>4, <4>2 DEF Document, InOrder
      <4>4. QED
        BY <3>1, <4>2, <4>3
    <3>5. QED
      BY <3>1, <3>2, <3>3, <3>4
  <2>6. ASSUME finished, NEW n \in DOMAIN paragraphs
        PROVE  \E i \in DOMAIN chunks : \E k \in Own(chunks[i]) : chunks[i][k].no = n
    <3>1. n \in 1 .. next - 1 /\ Cut = chunks
      BY <2>1, <2>2, <2>6 DEF Cut
    <3>2. \E i \in 1 .. Len(Cut) : \E k \in Own(Cut[i]) : Cut[i][k].no = n
      BY <3>1 DEF Document, NothingLost
    <3>3. QED
      BY <2>2, <3>1, <3>2
  <2>7. ASSUME NEW i \in 2 .. Len(chunks), Overlap > 0
        PROVE  chunks[i][1] = OverlapTail(chunks[i - 1])[1]
    <3>1. i - 1 \in 1 .. Len(Cut) - 1 /\ i \in DOMAIN chunks /\ i - 1 \in DOMAIN chunks
      BY <2>2, <2>3
    <3>2. (i - 1) + 1 = i
      BY <2>2
    <3>3. Cut[(i - 1) + 1][1] = OverlapTail(Cut[i - 1])[1]
      BY <2>7, <3>1 DEF Overlapping
    <3>4. QED
      BY <2>4, <3>1, <3>2, <3>3
  <2>8. QED
    BY <2>5, <2>6, <2>7 DEF ChunksAreTheDocument
<1>4. QED
  BY <1>1, <1>2, <1>3, PTL DEF Spec

----------------------------------------------------------------------------
(* How long chunks get.                                                    *)

LEMMA ShortPacked ==
  ASSUME Shape, Short, Pack
  PROVE  Short'
<1> DEFINE p == paragraphs[next]
           m == Len(chunks) + 1
           a == Append(current, p)
<1>1. /\ m \in Nat \ {0} /\ Len(Cut') = m
      /\ \A i \in 1 .. m - 1 : Cut'[i] = Cut[i]
      /\ Cut'[m] = a
      /\ current # << >> => Len(Cut) = m
      /\ current = << >> => m = 1
  BY PackIs
<1>2. Bound' = Bound
  BY DEF Bound, Longest, Pack
<1>3. Length(a) <= Bound
  <2>1. /\ current \in Seq(Pieces) /\ p \in Pieces /\ next \in 1 .. Len(paragraphs)
    BY AtParagraph DEF Shape, Pack
  <2>2. Bound \in Nat /\ ChunkSize <= Bound
    BY BoundIs
  <2>3. CASE current = << >>
    <3>1. Length(a) = p.len
      BY <2>1, <2>3, LengthAppend
    <3>2. p.len \in Nat /\ Overlap \in Nat
      BY <2>1, ChunkingAssumption DEF Pieces
    <3>3. 0 \in 0 .. Longest("heading")
      <4>1. Longest("heading") \in Nat
        BY LongestIs DEF Shape
      <4>2. QED
        BY <4>1
    <3>4. Overlap + 2 + (0 + 2) + p.len <= Bound
      BY <2>1, <3>3, BoundIs
    <3> HIDE DEF p, a
    <3>5. QED
      BY <2>2, <3>1, <3>2, <3>4
  <2>4. CASE current # << >>
    <3>1. Length(a) <= ChunkSize
      BY <2>4 DEF Pack, Fits
    <3>2. a \in Seq(Pieces)
      BY <2>1
    <3>3. Length(a) \in Nat
      BY <3>2, LengthOf
    <3> HIDE DEF a
    <3>4. QED
      BY <2>2, <3>1, <3>3, ChunkingAssumption
  <2>5. QED
    BY <2>3, <2>4
<1> HIDE DEF p, m, a
<1>4. ASSUME NEW i \in 1 .. Len(Cut') PROVE Length(Cut'[i]) <= Bound'
  <2>1. CASE i = m
    BY <1>1, <1>2, <1>3, <2>1
  <2>2. CASE i # m
    <3>1. i \in 1 .. m - 1 /\ current # << >>
      BY <1>1, <2>2
    <3>2. i \in 1 .. Len(Cut) /\ Cut'[i] = Cut[i]
      BY <1>1, <3>1
    <3>3. QED
      BY <1>2, <3>2 DEF Short
  <2>3. QED
    BY <2>1, <2>2
<1>5. QED
  BY <1>4 DEF Short

LEMMA ShortBroken ==
  ASSUME Shape, FromDocument, Short, Break
  PROVE  Short'
<1> DEFINE p == paragraphs[next]
           m == Len(chunks) + 1
           q == Kept(current)
           s == StartAfter(current, p)
           h == IF EndsWithHeading(current) THEN current[Len(current)].len ELSE 0
<1>1. /\ m \in Nat \ {0} /\ Len(Cut') = m + 1
      /\ \A i \in 1 .. m - 1 : Cut'[i] = Cut[i]
      /\ Cut'[m] = q /\ Cut'[m + 1] = s
      /\ Len(Cut) = m /\ Cut[m] = current
      /\ current \in Seq(Pieces) /\ current # << >>
  BY BreakIs
<1>2. Bound' = Bound /\ Bound \in Nat
  <2>1. UNCHANGED paragraphs
    BY DEF Break
  <2>2. Bound' = Bound
    BY <2>1 DEF Bound, Longest
  <2>3. QED
    BY <2>2, BoundIs
<1>3. p \in Pieces /\ next \in 1 .. Len(paragraphs)
  BY AtParagraph DEF Break
<1>4. Length(q) <= Bound
  <2>1. q \in Seq(Pieces) /\ Length(q) <= Length(current)
    BY <1>1, KeptIs
  <2>2. Length(current) <= Bound
    <3>1. m \in 1 .. Len(Cut)
      BY <1>1
    <3>2. Length(Cut[m]) <= Bound
      BY <3>1 DEF Short
    <3>3. QED
      BY <1>1, <3>2
  <2>3. Length(q) \in Nat /\ Length(current) \in Nat
    BY <1>1, <2>1, LengthOf
  <2> HIDE DEF q
  <2>4. QED
    BY <1>2, <2>1, <2>2, <2>3
<1>5. h \in 0 .. Longest("heading")
  <2>0. Longest("heading") \in Nat
    BY LongestIs DEF Shape
  <2>1. CASE ~EndsWithHeading(current)
    BY <2>0, <2>1
  <2>2. CASE EndsWithHeading(current)
    <3> DEFINE l == Len(current)
    <3>1. l \in DOMAIN current /\ current[l].kind = "heading" /\ current[l] \in Pieces
      BY <1>1, <2>2 DEF EndsWithHeading, Last
    <3>2. l \in Own(Cut[m]) /\ m \in 1 .. Len(Cut)
      BY <1>1, <3>1 DEF Own
    <3>3. /\ Cut[m][l].no \in 1 .. next - 1
          /\ Cut[m][l] = paragraphs[Cut[m][l].no]
      BY <3>2 DEF FromDocument
    <3>4. Cut[m][l].no \in 1 .. Len(paragraphs) /\ Cut[m][l] = current[l]
      BY <1>1, <1>3, <3>3
    <3>5. current[l].len <= Longest("heading")
      <4> DEFINE n == current[l].no
      <4>1. n \in 1 .. Len(paragraphs) /\ paragraphs[n] = current[l]
        BY <3>3, <3>4
      <4> HIDE DEF n
      <4>2. paragraphs[n].len <= Longest("heading")
        BY <3>1, <4>1, LongestIs DEF Shape
      <4>3. QED
        BY <4>1, <4>2
    <3>6. current[l].len \in Nat
      BY <3>1 DEF Pieces
    <3>7. QED
      BY <2>0, <2>2, <3>5, <3>6
  <2>3. QED
    BY <2>1, <2>2
<1>6. Length(s) <= Bound
  <2>1. /\ s \in Seq(Pieces)
        /\ Length(s) <= Overlap + 2 + (IF EndsWithHeading(current)
                                       THEN current[Len(current)].len + 2 ELSE 0) + p.len
    BY <1>1, <1>3, StartAfterIs
  <2>2. Overlap + 2 + (h + 2) + p.len <= Bound
    BY <1>3, <1>5, BoundIs
  <2>3. Length(s) \in Nat /\ p.len \in Nat /\ Overlap \in Nat
    BY <1>3, <2>1, LengthOf, ChunkingAssumption DEF Pieces
  <2>4. h \in Nat
    BY <1>5, LongestIs DEF Shape
  <2>5. CASE EndsWithHeading(current)
    <3>1. Length(s) <= Overlap + 2 + (h + 2) + p.len
      BY <2>1, <2>5
    <3> HIDE DEF s, h, p
    <3>2. QED
      BY <1>2, <2>2, <2>3, <2>4, <3>1
  <2>6. CASE ~EndsWithHeading(current)
    <3>1. Length(s) <= Overlap + 2 + 0 + p.len
      BY <2>1, <2>6
    <3> HIDE DEF s, h, p
    <3>2. QED
      BY <1>2, <2>2, <2>3, <2>4, <3>1
  <2>7. QED
    BY <2>5, <2>6
<1> HIDE DEF p, m, q, s, h
<1>7. ASSUME NEW i \in 1 .. Len(Cut') PROVE Length(Cut'[i]) <= Bound'
  <2>1. CASE i = m
    BY <1>1, <1>2, <1>4, <2>1
  <2>2. CASE i = m + 1
    BY <1>1, <1>2, <1>6, <2>2
  <2>3. CASE i \in 1 .. m - 1
    <3>1. i \in 1 .. Len(Cut) /\ Cut'[i] = Cut[i]
      BY <1>1, <2>3
    <3>2. QED
      BY <1>2, <3>1 DEF Short
  <2>4. QED
    BY <1>1, <2>1, <2>2, <2>3
<1>8. QED
  BY <1>7 DEF Short

\* No chunk is longer than the size asked for, or than a tail, a carried
\* heading and one paragraph with the blank lines between them.
THEOREM ChunksAlwaysBounded == Spec => []ChunksBounded
<1> DEFINE Inv == Shape /\ Document /\ Short
<1>1. Init => Inv
  <2> SUFFICES ASSUME Init PROVE Inv
    OBVIOUS
  <2>1. Shape /\ Cut = << >> /\ next = 1
    BY InitIs
  <2>2. Len(Cut) = 0
    BY <2>1
  <2>3. 1 .. Len(Cut) = {} /\ 1 .. next - 1 = {}
    BY <2>1, <2>2
  <2>4. Document /\ Short
    BY <2>3 DEF Document, FromDocument, InOrder, NothingLost, Short
  <2>5. QED
    BY <2>1, <2>4
<1>2. Inv /\ [Next]_vars => Inv'
  <2> SUFFICES ASSUME Inv, [Next]_vars PROVE Inv'
    OBVIOUS
  <2>1. CASE Pack
    BY <2>1, PackIs, DocumentPacked, ShortPacked
  <2>2. CASE Break
    <3>1. FromDocument
      BY DEF Document
    <3>2. QED
      BY <2>2, <3>1, BreakIs, DocumentBroken, ShortBroken
  <2>3. ASSUME Shape', Cut' = Cut, next' = next, paragraphs' = paragraphs PROVE Inv'
    <3>1. Document'
      BY <2>3 DEF Document, FromDocument, InOrder, NothingLost
    <3>2. Bound' = Bound
      BY <2>3 DEF Bound, Longest
    <3>3. Short'
      BY <2>3, <3>2 DEF Short
    <3>4. QED
      BY <2>3, <3>1, <3>3
  <2>4. CASE Return
    <3>1. next' = next /\ paragraphs' = paragraphs
      BY <2>4 DEF Return
    <3>2. QED
      BY <2>3, <2>4, <3>1, ReturnIs
  <2>5. CASE UNCHANGED vars
    <3>1. next' = next /\ paragraphs' = paragraphs
      BY <2>5 DEF vars
    <3>2. QED
      BY <2>3, <2>5, <3>1, StutterIs
  <2>6. QED
    BY <2>1, <2>2, <2>4, <2>5 DEF Next
<1>3. Inv => ChunksBounded
  <2> SUFFICES ASSUME Inv PROVE \A i \in DOMAIN chunks : Length(chunks[i]) <= Bound
    BY DEF ChunksBounded, Bound
  <2>1. DOMAIN chunks = 1 .. Len(chunks) /\ Len(chunks) \in Nat
    BY DEF Shape
  <2>2. /\ Len(chunks) <= Len(Cut) /\ Len(Cut) \in Nat
        /\ \A i \in 1 .. Len(chunks) : Cut[i] = chunks[i]
    BY CutIs
  <2>3. \A i \in DOMAIN chunks : i \in 1 .. Len(Cut) /\ Cut[i] = chunks[i]
    BY <2>1, <2>2
  <2>4. QED
    BY <2>3 DEF Short
<1>4. QED
  BY <1>1, <1>2, <1>3, PTL DEF Spec

----------------------------------------------------------------------------
(* Headings move on.                                                       *)

LEMMA HeadingPacked ==
  ASSUME Shape, MovedOn, Pack
  PROVE  MovedOn'
<1> DEFINE p == paragraphs[next]
           m == Len(chunks) + 1
           e == Len(current) + 1
           a == Append(current, p)
<1>1. /\ m \in Nat \ {0} /\ Len(Cut') = m /\ ~finished /\ current' = a
      /\ \A i \in 1 .. m - 1 : Cut'[i] = Cut[i]
      /\ Cut'[m] = a
      /\ current # << >> => Len(Cut) = m /\ Cut[m] = current
      /\ current = << >> => m = 1
  BY PackIs
<1>2. /\ DOMAIN a = 1 .. e /\ DOMAIN current = 1 .. e - 1 /\ e \in Nat \ {0}
      /\ Len(a) = e /\ \A k \in 1 .. e - 1 : a[k] = current[k]
  <2>1. current \in Seq(Pieces) /\ p \in Pieces
    BY AtParagraph DEF Shape, Pack
  <2> HIDE DEF p
  <2>2. QED
    BY <2>1
<1> HIDE DEF p, m, e, a
<1>3. ASSUME NEW k, Starts(current, k) PROVE Starts(a, k) /\ k < Len(a)
  <2>1. k \in 1 .. e - 1 /\ a[k] = current[k]
    BY <1>2, <1>3 DEF Starts, Own
  <2>2. k \in 1 .. e /\ k < e /\ k <= e
    BY <1>2, <2>1
  <2>3. k \in Own(a) /\ a[k].kind = "heading"
    BY <1>2, <1>3, <2>1, <2>2 DEF Starts, Own
  <2>4. ASSUME NEW j \in Own(a) PROVE k <= j
    <3>1. j \in 1 .. e /\ a[j].kind # "tail"
      BY <1>2 DEF Own
    <3>2. CASE j = e
      BY <2>2, <3>2
    <3>3. CASE j # e
      <4>1. j \in 1 .. e - 1
        BY <1>2, <3>1, <3>3
      <4>2. j \in Own(current)
        BY <1>2, <3>1, <4>1 DEF Own
      <4>3. QED
        BY <1>3, <4>2 DEF Starts
    <3>4. QED
      BY <3>2, <3>3
  <2>5. QED
    BY <1>2, <2>2, <2>3, <2>4 DEF Starts
<1>4. ASSUME NEW i \in 1 .. Len(Cut') - 1, Last(Cut'[i]).kind = "heading", Len(Cut'[i]) # 1
      PROVE  \E k \in Own(Cut'[i + 1]) :
               /\ Starts(Cut'[i + 1], k)
               /\ finished' \/ i + 1 < Len(Cut') \/ k < Len(current')
  <2>1. i \in 1 .. m - 1 /\ current # << >> /\ Len(Cut) = m /\ Cut[m] = current
    BY <1>1
  <2>2. Cut'[i] = Cut[i]
    BY <1>1, <2>1
  <2>3. PICK k \in Own(Cut[i + 1]) : Starts(Cut[i + 1], k)
    BY <1>4, <2>1, <2>2 DEF MovedOn
  <2>4. CASE i + 1 = m
    <3>1. Starts(a, k) /\ k < Len(a)
      BY <1>3, <2>1, <2>3, <2>4
    <3>2. Cut'[i + 1] = a /\ current' = a
      BY <1>1, <2>4
    <3>3. k \in Own(a)
      BY <3>1 DEF Starts
    <3>4. QED
      BY <3>1, <3>2, <3>3
  <2>5. CASE i + 1 # m
    <3>1. i + 1 \in 1 .. m - 1 /\ i + 1 < m
      BY <1>1, <2>1, <2>5
    <3>2. Cut'[i + 1] = Cut[i + 1] /\ i + 1 < Len(Cut')
      BY <1>1, <3>1
    <3>3. QED
      BY <2>3, <3>2
  <2>6. QED
    BY <2>4, <2>5
<1>5. QED
  BY <1>4 DEF MovedOn

LEMMA HeadingBroken ==
  ASSUME Shape, MovedOn, Break
  PROVE  MovedOn'
<1> DEFINE p == paragraphs[next]
           m == Len(chunks) + 1
           l == Len(current)
           q == Kept(current)
           s == StartAfter(current, p)
           t == Len(OverlapTail(Kept(current)))
<1>1. /\ m \in Nat \ {0} /\ Len(Cut') = m + 1 /\ ~finished /\ current' = s
      /\ \A i \in 1 .. m - 1 : Cut'[i] = Cut[i]
      /\ Cut'[m] = q /\ Cut'[m + 1] = s
      /\ Len(Cut) = m /\ Cut[m] = current
      /\ current \in Seq(Pieces) /\ current # << >>
  BY BreakIs
<1>2. /\ q \in Seq(Pieces) /\ q # << >>
      /\ Len(q) = IF EndsWithHeading(current) THEN l - 1 ELSE l
      /\ \A i \in 1 .. Len(q) : q[i] = current[i]
  BY <1>1, KeptIs
<1>3. /\ s \in Seq(Pieces) /\ t \in Nat
      /\ Len(s) = IF EndsWithHeading(current) THEN t + 2 ELSE t + 1
      /\ \A k \in 1 .. t : s[k].kind = "tail"
      /\ EndsWithHeading(current) => s[t + 1] = current[l]
  <2>1. p \in Pieces
    BY AtParagraph DEF Break
  <2>2. /\ s \in Seq(Pieces) /\ t = IF Overlap = 0 THEN 0 ELSE 1
        /\ Len(s) = IF EndsWithHeading(current) THEN t + 2 ELSE t + 1
        /\ \A k \in 1 .. t : s[k].kind = "tail"
        /\ EndsWithHeading(current) => s[t + 1] = current[l]
    BY <1>1, <2>1, StartAfterIs
  <2> HIDE DEF s, t
  <2>3. t \in Nat
    BY <2>2
  <2>4. QED
    BY <2>2, <2>3
<1>4. EndsWithHeading(current) <=> l > 1 /\ current[l].kind = "heading"
  BY DEF EndsWithHeading, Last
<1>5. l \in Nat \ {0} /\ DOMAIN current = 1 .. l
  BY <1>1
<1> HIDE DEF p, m, l, q, s, t
<1>6. DOMAIN q = 1 .. Len(q) /\ DOMAIN s = 1 .. Len(s)
  BY <1>2, <1>3
\* The heading handed on starts the next chunk.
<1>7. ASSUME Last(q).kind = "heading", Len(q) # 1
      PROVE  Starts(s, t + 1) /\ t + 1 < Len(s)
  <2>1. Len(q) \in Nat \ {0}
    BY <1>2
  <2>2. EndsWithHeading(current)
    <3>1. SUFFICES ASSUME ~EndsWithHeading(current) PROVE FALSE
      OBVIOUS
    <3>2. Len(q) = l /\ l > 1 /\ Len(q) \in 1 .. Len(q)
      BY <1>2, <1>5, <1>7, <2>1, <3>1
    <3>3. q[l] = current[l]
      BY <1>2, <3>2
    <3>4. current[l].kind = "heading"
      BY <1>7, <3>2, <3>3 DEF Last
    <3>5. QED
      BY <1>4, <3>1, <3>2, <3>4
  <2>3. s[t + 1] = current[l] /\ current[l].kind = "heading" /\ Len(s) = t + 2
    BY <1>3, <1>4, <2>2
  <2>4. t + 1 \in 1 .. Len(s) /\ t + 1 < Len(s)
    BY <1>3, <2>3
  <2>5. t + 1 \in Own(s)
    BY <1>6, <2>3, <2>4 DEF Own
  <2>6. ASSUME NEW k \in Own(s) PROVE t + 1 <= k
    <3>1. k \in 1 .. Len(s) /\ s[k].kind # "tail"
      BY <1>6 DEF Own
    <3>2. k \notin 1 .. t
      BY <1>3, <3>1
    <3>3. QED
      BY <1>3, <2>3, <3>1, <3>2
  <2>7. QED
    BY <2>3, <2>4, <2>5, <2>6 DEF Starts
\* The heading handed on before stays in the chunk that is finished now.
<1>8. ASSUME NEW k, Starts(current, k), k < l PROVE Starts(q, k)
  <2>1. k \in 1 .. l /\ current[k].kind = "heading"
    BY <1>5, <1>8 DEF Starts, Own
  <2>2. k \in 1 .. Len(q)
    BY <1>2, <1>5, <1>8, <2>1
  <2>3. q[k] = current[k]
    BY <1>2, <2>2
  <2>4. k \in Own(q)
    BY <1>6, <2>1, <2>2, <2>3 DEF Own
  <2>5. ASSUME NEW j \in Own(q) PROVE j \in Own(current)
    <3>1. j \in 1 .. Len(q) /\ q[j].kind # "tail"
      BY <1>6 DEF Own
    <3>2. q[j] = current[j] /\ j \in 1 .. l
      BY <1>2, <1>5, <3>1
    <3>3. QED
      BY <1>5, <3>1, <3>2 DEF Own
  <2>6. QED
    BY <1>8, <2>1, <2>3, <2>4, <2>5 DEF Starts
<1>9. ASSUME NEW i \in 1 .. Len(Cut') - 1, Last(Cut'[i]).kind = "heading", Len(Cut'[i]) # 1
      PROVE  \E k \in Own(Cut'[i + 1]) :
               /\ Starts(Cut'[i + 1], k)
               /\ finished' \/ i + 1 < Len(Cut') \/ k < Len(current')
  <2>1. CASE i = m
    <3>1. Cut'[i] = q /\ Cut'[i + 1] = s
      BY <1>1, <2>1
    <3>2. Starts(s, t + 1) /\ t + 1 < Len(s)
      BY <1>7, <1>9, <3>1
    <3>3. t + 1 \in Own(s)
      BY <3>2 DEF Starts
    <3>4. QED
      BY <1>1, <3>1, <3>2, <3>3
  <2>2. CASE i # m
    <3>1. i \in 1 .. m - 1 /\ i + 1 < Len(Cut')
      BY <1>1, <2>2
    <3>2. Cut'[i] = Cut[i]
      BY <1>1, <3>1
    <3>3. i \in 1 .. Len(Cut) - 1
      BY <1>1, <3>1
    <3>4. PICK k \in Own(Cut[i + 1]) : /\ Starts(Cut[i + 1], k)
                                       /\ finished \/ i + 1 < Len(Cut) \/ k < Len(current)
      BY <1>9, <3>2, <3>3 DEF MovedOn
    <3>5. CASE i + 1 = m
      <4>1. Cut[i + 1] = current /\ Cut'[i + 1] = q
        BY <1>1, <3>5
      <4>2. k < l
        BY <1>1, <3>4, <3>5 DEF l
      <4>3. Starts(q, k)
        BY <1>8, <3>4, <4>1, <4>2
      <4>4. k \in Own(q)
        BY <4>3 DEF Starts
      <4>5. QED
        BY <3>1, <4>1, <4>3, <4>4
    <3>6. CASE i + 1 # m
      <4>1. i + 1 \in 1 .. m - 1
        BY <1>1, <3>1, <3>6
      <4>2. Cut'[i + 1] = Cut[i + 1]
        BY <1>1, <4>1
      <4>3. QED
        BY <3>1, <3>4, <4>2
    <3>7. QED
      BY <3>5, <3>6
  <2>3. QED
    BY <2>1, <2>2
<1>10. QED
  BY <1>9 DEF MovedOn

\* A heading at the end of a finished chunk is alone in it, or was followed
\* by another heading, which moved on to start the next chunk.
THEOREM HeadingAlwaysMovesOn == Spec => []HeadingMovesOn
<1> DEFINE Inv == Shape /\ MovedOn
<1>1. Init => Inv
  <2> SUFFICES ASSUME Init PROVE Inv
    OBVIOUS
  <2>1. Shape /\ Cut = << >>
    BY InitIs
  <2>2. Len(Cut) = 0
    BY <2>1
  <2>3. 1 .. Len(Cut) - 1 = {}
    BY <2>2
  <2>4. MovedOn
    BY <2>3 DEF MovedOn
  <2>5. QED
    BY <2>1, <2>4
<1>2. Inv /\ [Next]_vars => Inv'
  <2> SUFFICES ASSUME Inv, [Next]_vars PROVE Inv'
    OBVIOUS
  <2>1. CASE Pack
    BY <2>1, PackIs, HeadingPacked
  <2>2. CASE Break
    BY <2>2, BreakIs, HeadingBroken
  <2>3. ASSUME Shape', Cut' = Cut, finished' \/ (finished' = finished /\ current' = current)
        PROVE  Inv'
    BY <2>3 DEF MovedOn
  <2>4. CASE Return
    BY <2>3, <2>4, ReturnIs
  <2>5. CASE UNCHANGED vars
    <3>1. current' = current
      BY <2>5 DEF vars
    <3>2. QED
      BY <2>3, <2>5, <3>1, StutterIs
  <2>6. QED
    BY <2>1, <2>2, <2>4, <2>5 DEF Next
<1>3. Inv => HeadingMovesOn
  <2> SUFFICES ASSUME Inv, NEW i \in 1 .. Len(chunks) - 1,
                      Last(chunks[i]).kind = "heading", Len(chunks[i]) # 1
               PROVE  \E k \in Own(chunks[i + 1]) :
                        /\ chunks[i + 1][k].kind = "heading"
                        /\ \A m \in Own(chunks[i + 1]) : k <= m
    BY DEF HeadingMovesOn
  <2>1. Len(chunks) \in Nat
    BY DEF Shape
  <2>2. /\ Len(chunks) <= Len(Cut) /\ Len(Cut) \in Nat
        /\ \A n \in 1 .. Len(chunks) : Cut[n] = chunks[n]
    BY CutIs
  <2>3. /\ i \in 1 .. Len(chunks) /\ i + 1 \in 1 .. Len(chunks) /\ i \in 1 .. Len(Cut) - 1
    BY <2>1, <2>2
  <2>4. Cut[i] = chunks[i] /\ Cut[i + 1] = chunks[i + 1]
    BY <2>2, <2>3
  <2>5. \E k \in Own(Cut[i + 1]) : Starts(Cut[i + 1], k)
    BY <2>3, <2>4 DEF MovedOn
  <2>6. QED
    BY <2>4, <2>5 DEF Starts
<1>4. QED
  BY <1>1, <1>2, <1>3, PTL DEF Spec
=============================================================================
