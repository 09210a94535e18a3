--------------------------- MODULE McpRetryProofs ---------------------------
(***************************************************************************)
(* Proofs about McpRetry, for any number of workers and attempts, and any  *)
(* times.                                                                  *)
(***************************************************************************)
EXTENDS McpRetry, FiniteSetTheorems, WellFoundedInduction, TLAPS

----------------------------------------------------------------------------
(* Powers of two.  Induction is by a least counterexample.                 *)

LEMMA Least ==
  ASSUME NEW T, T \subseteq Nat, T # {}
  PROVE  \E n \in T : \A m \in T : n <= m
<1> DEFINE R == {ss \in Nat \X Nat : ss[1] < ss[2]}
<1>1. IsWellFoundedOn(R, Nat)
  BY NatLessThanWellFounded DEF OpToRel
<1>2. PICK n \in T : \A m \in T : <<m, n>> \notin R
  <2> HIDE DEF R
  <2>1. QED
    BY <1>1, WFMin
<1>3. ASSUME NEW m \in T PROVE n <= m
  <2>1. m \in Nat /\ n \in Nat /\ <<m, n>> \notin R
    BY <1>2
  <2>2. ~(m < n)
    BY <2>1
  <2>3. QED
    BY <2>1, <2>2
<1>4. QED
  BY <1>3

\* What the recursion computes up to n.
Doubles(g, n) == g = [m \in 0 .. n |-> IF m = 0 THEN 1 ELSE 2 * g[m - 1]]

LEMMA DoublesOnce ==
  ASSUME NEW n \in Nat, NEW g, NEW h, Doubles(g, n), Doubles(h, n)
  PROVE  g = h
<1> DEFINE Bad == {m \in 0 .. n : g[m] # h[m]}
<1>1. ASSUME NEW m \in Bad, \A k \in Bad : m <= k PROVE FALSE
  <2>1. m \in 0 .. n /\ g[m] # h[m]
    OBVIOUS
  <2>2. /\ g[m] = IF m = 0 THEN 1 ELSE 2 * g[m - 1]
        /\ h[m] = IF m = 0 THEN 1 ELSE 2 * h[m - 1]
    BY <2>1 DEF Doubles
  <2>3. m # 0 /\ m - 1 \in 0 .. n /\ ~(m <= m - 1)
    BY <2>1, <2>2
  <2>4. m - 1 \notin Bad
    BY <1>1, <2>3
  <2>5. g[m - 1] = h[m - 1]
    BY <2>3, <2>4
  <2>6. QED
    BY <2>1, <2>2, <2>5
<1>2. Bad = {}
  <2> HIDE DEF Bad
  <2>1. Bad \subseteq Nat
    BY DEF Bad
  <2>2. QED
    BY <1>1, <2>1, Least
<1>3. g = [m \in 0 .. n |-> g[m]] /\ h = [m \in 0 .. n |-> h[m]]
  BY DEF Doubles
<1>4. QED
  BY <1>2, <1>3

LEMMA DoublesExist ==
  ASSUME NEW n \in Nat
  PROVE  \E g : Doubles(g, n)
<1> DEFINE Bad == {m \in Nat : ~ \E g : Doubles(g, m)}
<1>1. ASSUME NEW m \in Bad, \A k \in Bad : m <= k PROVE FALSE
  <2>1. m \in Nat /\ ~ \E g : Doubles(g, m)
    OBVIOUS
  <2>2. CASE m = 0
    <3> DEFINE g == [k \in 0 .. 0 |-> 1]
    <3>1. Doubles(g, 0)
      BY DEF Doubles
    <3>2. QED
      BY <2>1, <2>2, <3>1
  <2>3. CASE m # 0
    <3>1. m - 1 \in Nat /\ ~(m <= m - 1)
      BY <2>1, <2>3
    <3>2. PICK g : Doubles(g, m - 1)
      BY <1>1, <3>1
    <3> DEFINE h == [k \in 0 .. m |-> IF k = m THEN 2 * g[m - 1] ELSE g[k]]
    <3>3. \A k \in 0 .. m - 1 : g[k] = IF k = 0 THEN 1 ELSE 2 * g[k - 1]
      BY <3>2 DEF Doubles
    <3>4. \A k \in 0 .. m : h[k] = IF k = 0 THEN 1 ELSE 2 * h[k - 1]
      <4>1. ASSUME NEW k \in 0 .. m - 1 PROVE h[k] = g[k] /\ k \in 0 .. m /\ k # m
        BY <2>1
      <4>2. ASSUME NEW k \in 0 .. m PROVE h[k] = IF k = 0 THEN 1 ELSE 2 * h[k - 1]
        <5>1. CASE k = m
          <6>1. h[k] = 2 * g[m - 1] /\ k # 0 /\ k - 1 \in 0 .. m - 1 /\ k - 1 = m - 1
            BY <2>1, <2>3, <5>1
          <6>2. h[k - 1] = g[k - 1]
            BY <4>1, <6>1
          <6> HIDE DEF h
          <6>3. QED
            BY <6>1, <6>2
        <5>2. CASE k # m /\ k # 0
          <6>1. k \in 0 .. m - 1 /\ k - 1 \in 0 .. m - 1
            BY <2>1, <5>2
          <6>2. h[k] = g[k] /\ h[k - 1] = g[k - 1]
            BY <4>1, <6>1
          <6> HIDE DEF h
          <6>3. QED
            BY <3>3, <5>2, <6>1, <6>2
        <5>3. CASE k = 0 /\ k # m
          <6>1. k \in 0 .. m - 1
            BY <2>1, <5>3
          <6>2. h[k] = g[k]
            BY <4>1, <6>1
          <6> HIDE DEF h
          <6>3. QED
            BY <3>3, <5>3, <6>1, <6>2
        <5>4. QED
          BY <5>1, <5>2, <5>3
      <4>3. QED
        BY <4>2
    <3>5. h = [k \in 0 .. m |-> h[k]]
      OBVIOUS
    <3>6. Doubles(h, m)
      <4> HIDE DEF h
      <4>1. QED
        BY <3>4, <3>5 DEF Doubles
    <3>7. QED
      BY <2>1, <3>6
  <2>4. QED
    BY <2>2, <2>3
<1>2. Bad = {}
  <2> HIDE DEF Bad
  <2>1. Bad \subseteq Nat
    BY DEF Bad
  <2>2. QED
    BY <1>1, <2>1, Least
<1>3. QED
  BY <1>2

\* The recursion has a solution, and TwoTo is one.
LEMMA TwoToIs ==
  TwoTo = [n \in Nat |-> IF n = 0 THEN 1 ELSE 2 * TwoTo[n - 1]]
<1> DEFINE Sol(n) == CHOOSE g : Doubles(g, n)
           h      == [n \in Nat |-> Sol(n)[n]]
<1>1. \A n \in Nat : Doubles(Sol(n), n)
  BY DoublesExist
<1>2. ASSUME NEW n \in Nat PROVE h[n] = IF n = 0 THEN 1 ELSE 2 * h[n - 1]
  <2>1. Sol(n)[n] = IF n = 0 THEN 1 ELSE 2 * Sol(n)[n - 1]
    <3> HIDE DEF Sol
    <3>1. QED
      BY <1>1 DEF Doubles
  <2>2. ASSUME n # 0 PROVE Sol(n)[n - 1] = Sol(n - 1)[n - 1]
    <3> DEFINE k == n - 1
               s == Sol(n)
               t == Sol(k)
               r == [m \in 0 .. k |-> s[m]]
    <3>1. k \in Nat /\ k \in 0 .. n /\ \A m \in 0 .. k : m \in 0 .. n /\ (m # 0 => m - 1 \in 0 .. k)
      BY <2>2
    <3>2. Doubles(s, n) /\ Doubles(t, k)
      <4> HIDE DEF Sol
      <4>1. QED
        BY <1>1, <3>1
    <3> HIDE DEF s, t, k
    <3>3. \A m \in 0 .. k : r[m] = IF m = 0 THEN 1 ELSE 2 * r[m - 1]
      BY <3>1, <3>2 DEF Doubles
    <3>4. r = [m \in 0 .. k |-> r[m]]
      OBVIOUS
    <3>5. Doubles(r, k)
      <4> HIDE DEF r
      <4>1. QED
        BY <3>3, <3>4 DEF Doubles
    <3>6. r = t /\ k \in 0 .. k
      <4> HIDE DEF r
      <4>1. QED
        BY <3>1, <3>2, <3>5, DoublesOnce
    <3>7. s[k] = t[k]
      BY <3>6
    <3>8. QED
      BY <3>7 DEF s, t, k
  <2>3. CASE n = 0
    BY <2>1, <2>3
  <2>4. CASE n # 0
    <3>1. n - 1 \in Nat
      BY <2>4
    <3>2. h[n - 1] = Sol(n - 1)[n - 1]
      <4> HIDE DEF Sol
      <4>1. QED
        BY <3>1
    <3> HIDE DEF Sol
    <3>3. QED
      BY <2>1, <2>2, <2>4, <3>2
  <2>5. QED
    BY <2>3, <2>4
<1>3. h = [n \in Nat |-> IF n = 0 THEN 1 ELSE 2 * h[n - 1]]
  <2>1. h = [n \in Nat |-> h[n]]
    OBVIOUS
  <2> HIDE DEF h
  <2>2. QED
    BY <1>2, <2>1
<1>4. \E g : g = [n \in Nat |-> IF n = 0 THEN 1 ELSE 2 * g[n - 1]]
  <2> HIDE DEF h
  <2>1. QED
    BY <1>3
<1>5. QED
  BY <1>4 DEF TwoTo

LEMMA TwoToStep ==
  /\ TwoTo[0] = 1
  /\ \A n \in Nat : TwoTo[n + 1] = 2 * TwoTo[n]
<1>1. \A n \in Nat : TwoTo[n] = IF n = 0 THEN 1 ELSE 2 * TwoTo[n - 1]
  BY TwoToIs
<1>2. QED
  BY <1>1

LEMMA TwoToType ==
  ASSUME NEW n \in Nat
  PROVE  TwoTo[n] \in Nat /\ TwoTo[n] >= 1
<1> DEFINE Bad == {m \in Nat : ~(TwoTo[m] \in Nat /\ TwoTo[m] >= 1)}
<1>1. ASSUME NEW m \in Bad, \A k \in Bad : m <= k PROVE FALSE
  <2>1. m \in Nat /\ ~(TwoTo[m] \in Nat /\ TwoTo[m] >= 1)
    OBVIOUS
  <2>2. m # 0
    BY <2>1, TwoToStep
  <2>3. m - 1 \in Nat /\ ~(m <= m - 1) /\ m = (m - 1) + 1
    BY <2>1, <2>2
  <2>4. TwoTo[m - 1] \in Nat /\ TwoTo[m - 1] >= 1
    BY <1>1, <2>3
  <2>5. TwoTo[m] = 2 * TwoTo[m - 1]
    BY <2>3, TwoToStep
  <2>6. QED
    BY <2>1, <2>4, <2>5
<1>2. Bad = {}
  <2> HIDE DEF Bad
  <2>1. Bad \subseteq Nat
    BY DEF Bad
  <2>2. QED
    BY <1>1, <2>1, Least
<1>3. QED
  BY <1>2

----------------------------------------------------------------------------
(* How long a call has been held.                                          *)

\* The longest it takes to come to attempt a.
Spent(a) == (a - 1) * PerAttempt + BackoffBase * (TwoTo[a - 1] - 1)

\* ... and what the attempt may take from there until the end of a step.
Share(s) ==
  IF s = "backoff" THEN 0
  ELSE IF s = "connecting" THEN SdkTimeout
  ELSE IF s = "opening" THEN SdkTimeout + Timeout
  ELSE PerAttempt

\* What is held and what the timer may add stays within both.
HeldInv ==
  \A w \in Workers :
    /\ step[w] = "idle" => attempt[w] = 0 /\ timer[w] = 0 /\ held[w] = 0
    /\ step[w] # "idle" => /\ attempt[w] >= 1
                           /\ held[w] + timer[w] <= Spent(attempt[w]) + Share(step[w])

TypeInv ==
  /\ step \in [Workers -> Steps]
  /\ attempt \in [Workers -> 0 .. MaxRetries]
  /\ timer \in [Workers -> Nat]
  /\ held \in [Workers -> 0 .. MaxHeld]
  /\ late \in 0 .. MaxLate
  /\ rows \in [0 .. Window -> Counts]

LEMMA Waiting ==
  /\ Timeout \in Nat /\ SdkTimeout \in Nat /\ PerAttempt \in Nat
  /\ PerAttempt = SdkTimeout + Timeout + Timeout
  BY McpRetryAssumption DEF PerAttempt

LEMMA SpentFirst == Spent(1) = 0
<1>1. TwoTo[1 - 1] = 1 /\ 1 - 1 = 0
  BY TwoToStep
<1>2. (1 - 1) * PerAttempt = 0 /\ BackoffBase * (TwoTo[1 - 1] - 1) = 0
  BY <1>1, Waiting, McpRetryAssumption
<1>3. QED
  BY <1>2 DEF Spent

\* Another attempt costs its three waits and its backoff.
LEMMA SpentNext ==
  ASSUME NEW a \in Nat, a >= 1
  PROVE  /\ Spent(a) \in Nat /\ Spent(a + 1) \in Nat /\ Backoff(a) \in Nat
         /\ Spent(a + 1) = Spent(a) + PerAttempt + Backoff(a)
<1> DEFINE t == TwoTo[a - 1]
<1>1. /\ t \in Nat /\ t >= 1 /\ TwoTo[(a + 1) - 1] = 2 * t
      /\ PerAttempt \in Nat /\ BackoffBase \in Nat
  <2>1. a - 1 \in Nat /\ (a + 1) - 1 = (a - 1) + 1
    OBVIOUS
  <2>2. QED
    BY <2>1, TwoToStep, TwoToType, Waiting, McpRetryAssumption
<1> HIDE DEF t
<1>2. /\ BackoffBase * (t - 1) \in Nat /\ BackoffBase * t \in Nat
      /\ BackoffBase * (2 * t - 1) \in Nat
      /\ BackoffBase * (2 * t - 1) = BackoffBase * (t - 1) + BackoffBase * t
  <2>1. t - 1 \in Nat /\ 2 * t - 1 \in Nat /\ 2 * t - 1 = (t - 1) + t
    BY <1>1
  <2>2. \A x, y, b \in Nat : b * (x + y) = b * x + b * y
    OBVIOUS
  <2>3. \A x, b \in Nat : b * x \in Nat
    OBVIOUS
  <2>4. QED
    BY <1>1, <2>1, <2>2, <2>3
<1>3. /\ (a - 1) * PerAttempt \in Nat /\ ((a + 1) - 1) * PerAttempt \in Nat
      /\ ((a + 1) - 1) * PerAttempt = (a - 1) * PerAttempt + PerAttempt
  <2>1. \A x, p \in Nat : x * p \in Nat /\ (x + 1) * p = x * p + p
    OBVIOUS
  <2>2. a - 1 \in Nat /\ (a + 1) - 1 = (a - 1) + 1
    OBVIOUS
  <2>3. QED
    BY <1>1, <2>1, <2>2
<1>4. /\ Spent(a) = (a - 1) * PerAttempt + BackoffBase * (t - 1)
      /\ Spent(a + 1) = ((a + 1) - 1) * PerAttempt + BackoffBase * (2 * t - 1)
      /\ Backoff(a) = BackoffBase * t
  BY <1>1 DEF Spent, Backoff, t
<1>5. QED
  BY <1>1, <1>2, <1>3, <1>4

\* Later attempts come later.
LEMMA SpentGrows ==
  ASSUME NEW a \in Nat, a >= 1, NEW b \in Nat, a <= b
  PROVE  Spent(a) <= Spent(b)
<1> DEFINE Bad == {m \in Nat : a <= m /\ ~(Spent(a) <= Spent(m))}
<1>1. ASSUME NEW m \in Bad, \A k \in Bad : m <= k PROVE FALSE
  <2>1. m \in Nat /\ a <= m /\ ~(Spent(a) <= Spent(m)) /\ Spent(a) \in Nat
    BY SpentNext
  <2>2. m # a
    BY <2>1
  <2>3. /\ m - 1 \in Nat /\ m - 1 >= 1 /\ a <= m - 1 /\ ~(m <= m - 1)
        /\ m = (m - 1) + 1
    BY <2>1, <2>2
  <2>4. Spent(a) <= Spent(m - 1)
    BY <1>1, <2>3
  <2>5. /\ Spent(m - 1) \in Nat /\ Spent((m - 1) + 1) \in Nat /\ Backoff(m - 1) \in Nat
        /\ Spent((m - 1) + 1) = Spent(m - 1) + PerAttempt + Backoff(m - 1)
    BY <2>3, SpentNext
  <2>6. Spent(m) = Spent(m - 1) + PerAttempt + Backoff(m - 1)
    BY <2>3, <2>5
  <2>7. PerAttempt \in Nat
    BY Waiting
  <2>8. QED
    BY <2>1, <2>4, <2>5, <2>6, <2>7
<1>2. Bad = {}
  <2> HIDE DEF Bad
  <2>1. Bad \subseteq Nat
    BY DEF Bad
  <2>2. QED
    BY <1>1, <2>1, Least
<1>3. QED
  BY <1>2

\* No attempt goes beyond the longest a call may take.
LEMMA WithinMaxHeld ==
  ASSUME NEW a \in 1 .. MaxRetries
  PROVE  /\ MaxHeld \in Nat /\ Spent(a) \in Nat
         /\ Spent(a) + PerAttempt <= MaxHeld
<1>1. MaxRetries \in Nat /\ MaxRetries >= 1 /\ PerAttempt \in Nat /\ BackoffBase \in Nat
  BY Waiting, McpRetryAssumption
<1>2. Spent(a) \in Nat /\ Spent(MaxRetries) \in Nat /\ Spent(a) <= Spent(MaxRetries)
  BY <1>1, SpentNext, SpentGrows
<1>3. MaxHeld = Spent(MaxRetries) + PerAttempt
  <2> DEFINE b == BackoffBase * (TwoTo[MaxRetries - 1] - 1)
  <2>1. b \in Nat
    <3>1. MaxRetries - 1 \in Nat
      BY <1>1
    <3>2. TwoTo[MaxRetries - 1] - 1 \in Nat
      BY <3>1, TwoToType
    <3>3. QED
      BY <1>1, <3>2
  <2>2. /\ MaxRetries * PerAttempt = (MaxRetries - 1) * PerAttempt + PerAttempt
        /\ (MaxRetries - 1) * PerAttempt \in Nat
    <3>1. \A x, p \in Nat : x * p \in Nat /\ (x + 1) * p = x * p + p
      OBVIOUS
    <3>2. MaxRetries - 1 \in Nat /\ MaxRetries = (MaxRetries - 1) + 1
      BY <1>1
    <3>3. QED
      BY <1>1, <3>1, <3>2
  <2> HIDE DEF b
  <2>4. MaxRetries * PerAttempt + b = ((MaxRetries - 1) * PerAttempt + b) + PerAttempt
    BY <1>1, <2>1, <2>2
  <2>5. QED
    BY <2>4 DEF MaxHeld, Spent, b
<1>4. QED
  BY <1>1, <1>2, <1>3

----------------------------------------------------------------------------
(* Steps.                                                                  *)

LEMMA InitInv == Init => TypeInv /\ HeldInv
<1>1. MaxHeld \in Nat /\ 0 \in 0 .. MaxRetries /\ 0 \in 0 .. MaxLate /\ 0 \in 0 .. Limit
  BY WithinMaxHeld, McpRetryAssumption
<1>2. QED
  BY <1>1 DEF Init, TypeInv, HeldInv, Steps, Counts

LEMMA WriteRowType ==
  ASSUME TypeInv, NEW decision \in {"allowed", "denied"}, WriteRow(decision)
  PROVE  rows' \in [0 .. Window -> Counts]
<1>1. 0 \in 0 .. Window /\ Limit \in Nat
  BY McpRetryAssumption
<1> DEFINE row  == rows[0]
           more == [row EXCEPT ![decision] = IF @ < Limit THEN @ + 1 ELSE @]
<1>2. row \in Counts
  BY <1>1 DEF TypeInv
<1>3. more \in Counts
  <2> HIDE DEF row
  <2>1. QED
    BY <1>1, <1>2 DEF Counts
<1>4. rows' = [rows EXCEPT ![0] = more]
  BY DEF WriteRow
<1> HIDE DEF more
<1>5. QED
  BY <1>1, <1>3, <1>4 DEF TypeInv

\* A step of one worker, for what it makes of this worker.
LEMMA WorkerStep ==
  ASSUME TypeInv, HeldInv, NEW w \in Workers,
         NEW s \in Steps, NEW t \in Nat, NEW a \in 0 .. MaxRetries, NEW h \in 0 .. MaxHeld,
         step' = [step EXCEPT ![w] = s], timer' = [timer EXCEPT ![w] = t],
         attempt' = [attempt EXCEPT ![w] = a], held' = [held EXCEPT ![w] = h],
         s = "idle" => a = 0 /\ t = 0 /\ h = 0,
         s # "idle" => a >= 1 /\ h + t <= Spent(a) + Share(s),
         late' \in 0 .. MaxLate, rows' \in [0 .. Window -> Counts]
  PROVE  TypeInv' /\ HeldInv'
<1>1. TypeInv'
  BY DEF TypeInv
<1>2. /\ step'[w] = s /\ timer'[w] = t /\ attempt'[w] = a /\ held'[w] = h
      /\ \A v \in Workers \ {w} : /\ step'[v] = step[v] /\ timer'[v] = timer[v]
                                  /\ attempt'[v] = attempt[v] /\ held'[v] = held[v]
  BY DEF TypeInv
<1>3. ASSUME NEW v \in Workers
      PROVE  /\ step'[v] = "idle" => attempt'[v] = 0 /\ timer'[v] = 0 /\ held'[v] = 0
             /\ step'[v] # "idle" => /\ attempt'[v] >= 1
                                     /\ held'[v] + timer'[v] <= Spent(attempt'[v]) + Share(step'[v])
  <2>1. CASE v = w
    BY <1>2, <2>1
  <2>2. CASE v # w
    BY <1>2, <2>2 DEF HeldInv
  <2>3. QED
    BY <2>1, <2>2
<1>4. QED
  BY <1>1, <1>3 DEF HeldInv, Spent, Share

\* What is known of a worker in a call.
LEMMA BusyWorker ==
  ASSUME TypeInv, HeldInv, NEW w \in Workers, step[w] # "idle"
  PROVE  /\ attempt[w] \in 1 .. MaxRetries /\ timer[w] \in Nat /\ held[w] \in 0 .. MaxHeld
         /\ PerAttempt \in Nat /\ MaxHeld \in Nat /\ Spent(attempt[w]) \in Nat
         /\ held[w] + timer[w] <= Spent(attempt[w]) + Share(step[w])
         /\ Share(step[w]) \in 0 .. PerAttempt
         /\ Spent(attempt[w]) + PerAttempt <= MaxHeld
<1>1. MaxRetries \in Nat /\ PerAttempt \in Nat
  BY Waiting, McpRetryAssumption
<1>2. /\ attempt[w] \in 0 .. MaxRetries /\ attempt[w] >= 1 /\ timer[w] \in Nat
      /\ held[w] \in 0 .. MaxHeld
      /\ held[w] + timer[w] <= Spent(attempt[w]) + Share(step[w])
  BY DEF TypeInv, HeldInv
<1>3. attempt[w] \in 1 .. MaxRetries
  BY <1>1, <1>2
<1>4. Share(step[w]) \in 0 .. PerAttempt
  BY Waiting DEF Share
<1>5. QED
  BY <1>1, <1>2, <1>3, <1>4, WithinMaxHeld

\* The end of a call, and of an attempt.
LEMMA Ends ==
  ASSUME TypeInv, HeldInv, NEW w \in Workers, step[w] \notin {"idle", "backoff"},
         Conclude(w) \/ AttemptFails(w),
         late' \in 0 .. MaxLate, rows' \in [0 .. Window -> Counts]
  PROVE  TypeInv' /\ HeldInv'
<1>1. /\ attempt[w] \in 1 .. MaxRetries /\ timer[w] \in Nat /\ held[w] \in 0 .. MaxHeld
      /\ PerAttempt \in Nat /\ MaxHeld \in Nat /\ Spent(attempt[w]) \in Nat
      /\ held[w] + timer[w] <= Spent(attempt[w]) + Share(step[w])
      /\ Share(step[w]) \in 0 .. PerAttempt /\ MaxRetries \in Nat
  BY BusyWorker, McpRetryAssumption
<1>3. CASE Conclude(w)
  <2>1. /\ step' = [step EXCEPT ![w] = "idle"] /\ timer' = [timer EXCEPT ![w] = 0]
        /\ attempt' = [attempt EXCEPT ![w] = 0] /\ held' = [held EXCEPT ![w] = 0]
    BY <1>3 DEF Conclude, Goto
  <2>2. "idle" \in Steps /\ 0 \in Nat /\ 0 \in 0 .. MaxRetries /\ 0 \in 0 .. MaxHeld
    BY <1>1 DEF Steps
  <2>3. QED
    BY <1>1, <2>1, <2>2, WorkerStep
<1>4. CASE AttemptFails(w) /\ attempt[w] < MaxRetries
  <2>1. /\ step' = [step EXCEPT ![w] = "backoff"]
        /\ timer' = [timer EXCEPT ![w] = Backoff(attempt[w])]
        /\ attempt' = [attempt EXCEPT ![w] = attempt[w] + 1]
        /\ held' = [held EXCEPT ![w] = held[w]]
    BY <1>4 DEF AttemptFails, Goto
  <2>2. /\ Backoff(attempt[w]) \in Nat /\ Spent(attempt[w] + 1) \in Nat
        /\ Spent(attempt[w] + 1) = Spent(attempt[w]) + PerAttempt + Backoff(attempt[w])
    <3>1. attempt[w] \in Nat /\ attempt[w] >= 1
      BY <1>1
    <3>2. QED
      BY <3>1, SpentNext
  <2>3. attempt[w] + 1 \in 0 .. MaxRetries /\ attempt[w] + 1 >= 1
    BY <1>1, <1>4
  <2>4. held[w] + Backoff(attempt[w]) <= Spent(attempt[w] + 1) + Share("backoff")
    <3>1. held[w] <= Spent(attempt[w]) + PerAttempt /\ Share("backoff") = 0
      BY <1>1 DEF Share
    <3>2. QED
      BY <1>1, <2>2, <3>1
  <2>5. "backoff" \in Steps
    BY DEF Steps
  <2>6. QED
    BY <1>1, <2>1, <2>2, <2>3, <2>4, <2>5, WorkerStep
<1>5. QED
  BY <1>3, <1>4 DEF AttemptFails

\* The worker waits on, for what time is left or for another timeout.
LEMMA Waits ==
  ASSUME TypeInv, HeldInv, NEW w \in Workers, step[w] # "idle",
         NEW s \in Steps \ {"idle"}, NEW t \in Nat, Goto(w, s, t),
         held[w] + t <= Spent(attempt[w]) + Share(s),
         UNCHANGED attempt,
         late' \in 0 .. MaxLate, rows' \in [0 .. Window -> Counts]
  PROVE  TypeInv' /\ HeldInv'
<1>1. /\ attempt[w] \in 1 .. MaxRetries /\ held[w] \in 0 .. MaxHeld /\ MaxRetries \in Nat
  BY BusyWorker, McpRetryAssumption
<1>2. /\ held' = [held EXCEPT ![w] = held[w]] /\ attempt' = [attempt EXCEPT ![w] = attempt[w]]
      /\ step' = [step EXCEPT ![w] = s] /\ timer' = [timer EXCEPT ![w] = t]
  BY DEF TypeInv, Goto
<1>3. attempt[w] \in 0 .. MaxRetries /\ attempt[w] >= 1
  BY <1>1
<1>4. QED
  BY <1>1, <1>2, <1>3, WorkerStep

\* An answer of the boundary is heard, or it is not.
LEMMA RefusedStep ==
  ASSUME TypeInv, HeldInv, NEW w \in Workers, step[w] = "sent", NEW permanent \in BOOLEAN,
         Refused(w, permanent), UNCHANGED late, rows' \in [0 .. Window -> Counts]
  PROVE  TypeInv' /\ HeldInv'
<1>1. late' \in 0 .. MaxLate
  BY DEF TypeInv
<1>2. CASE Conclude(w) \/ AttemptFails(w)
  BY <1>1, <1>2, Ends
<1>3. CASE Goto(w, "unanswered", timer[w]) /\ UNCHANGED attempt
  <2>1. /\ timer[w] \in Nat
        /\ held[w] + timer[w] <= Spent(attempt[w]) + Share("unanswered")
    BY BusyWorker DEF Share
  <2>2. "unanswered" \in Steps \ {"idle"}
    BY DEF Steps
  <2>3. QED
    BY <1>1, <1>3, <2>1, <2>2, Waits
<1>4. QED
  BY <1>2, <1>3 DEF Refused

\* Time is what a timer loses and the call has been held for.
LEMMA TickStep ==
  ASSUME TypeInv, HeldInv, Tick
  PROVE  TypeInv' /\ HeldInv'
<1>1. /\ UNCHANGED <<step, attempt, late>> /\ Window \in Nat /\ Limit \in Nat
      /\ timer' = [w \in Workers |-> IF timer[w] > 0 THEN timer[w] - 1 ELSE 0]
      /\ held' = [w \in Workers |-> IF Busy(w) /\ held[w] <= MaxHeld THEN held[w] + 1 ELSE held[w]]
  BY McpRetryAssumption DEF Tick
<1>2. ASSUME NEW w \in Workers
      PROVE  /\ timer'[w] \in Nat /\ held'[w] \in 0 .. MaxHeld
             /\ step[w] = "idle" => timer'[w] = 0 /\ held'[w] = 0
             /\ step[w] # "idle" => held'[w] + timer'[w] = held[w] + timer[w]
  <2>1. timer[w] \in Nat /\ held[w] \in 0 .. MaxHeld
    BY DEF TypeInv
  <2>2. CASE step[w] = "idle"
    <3>1. timer[w] = 0 /\ timer'[w] = 0 /\ held[w] = 0 /\ held'[w] = held[w]
      BY <1>1, <2>2 DEF HeldInv, Busy
    <3>2. QED
      BY <2>1, <2>2, <3>1
  <2>3. CASE step[w] # "idle"
    <3>1. /\ timer[w] \in Nat /\ held[w] \in 0 .. MaxHeld /\ MaxHeld \in Nat
          /\ Spent(attempt[w]) \in Nat /\ PerAttempt \in Nat
          /\ held[w] + timer[w] <= Spent(attempt[w]) + Share(step[w])
          /\ Share(step[w]) \in 0 .. PerAttempt
          /\ Spent(attempt[w]) + PerAttempt <= MaxHeld
      BY <2>3, BusyWorker
    <3>2. timer[w] > 0
      <4>1. ~Due(w) /\ step[w] \in Steps
        BY DEF Tick, TypeInv
      <4>2. timer[w] # 0
        BY <2>3, <4>1 DEF Due, WaitingForAnswer, Steps
      <4>3. QED
        BY <2>1, <4>2
    <3>3. held[w] + timer[w] <= MaxHeld
      BY <3>1
    <3>4. timer'[w] = timer[w] - 1 /\ held'[w] = held[w] + 1
      BY <1>1, <2>3, <3>1, <3>2 DEF Busy
    <3>5. QED
      BY <2>3, <3>1, <3>2, <3>3, <3>4
  <2>4. QED
    BY <2>2, <2>3
<1>3. rows' \in [0 .. Window -> Counts]
  <2>1. [allowed |-> 0, denied |-> 0] \in Counts
    BY <1>1 DEF Counts
  <2>2. \A age \in 0 .. Window : age # 0 => rows[age - 1] \in Counts
    BY <1>1 DEF TypeInv
  <2>3. rows' = [age \in 0 .. Window |->
                   IF age = 0 THEN [allowed |-> 0, denied |-> 0] ELSE rows[age - 1]]
    BY DEF Tick
  <2>4. QED
    BY <2>1, <2>2, <2>3
<1>4. timer' \in [Workers -> Nat] /\ held' \in [Workers -> 0 .. MaxHeld]
  <2>1. timer' = [w \in Workers |-> timer'[w]] /\ held' = [w \in Workers |-> held'[w]]
    BY <1>1
  <2>2. QED
    BY <1>2, <2>1
<1>5. TypeInv'
  BY <1>1, <1>3, <1>4 DEF TypeInv
<1>6. ASSUME NEW w \in Workers
      PROVE  /\ step'[w] = "idle" => attempt'[w] = 0 /\ timer'[w] = 0 /\ held'[w] = 0
             /\ step'[w] # "idle" => /\ attempt'[w] >= 1
                                     /\ held'[w] + timer'[w] <= Spent(attempt'[w]) + Share(step'[w])
  BY <1>1, <1>2 DEF HeldInv
<1>7. QED
  BY <1>5, <1>6 DEF HeldInv, Spent, Share

LEMMA NextInv == TypeInv /\ HeldInv /\ [Next]_vars => TypeInv' /\ HeldInv'
<1> SUFFICES ASSUME TypeInv, HeldInv, [Next]_vars PROVE TypeInv' /\ HeldInv'
  OBVIOUS
<1>0. /\ late \in 0 .. MaxLate /\ rows \in [0 .. Window -> Counts]
      /\ Timeout \in Nat /\ SdkTimeout \in Nat /\ MaxLate \in Nat
      /\ MaxRetries \in Nat /\ MaxRetries >= 1
  BY McpRetryAssumption DEF TypeInv
<1>1. CASE UNCHANGED vars
  BY <1>1 DEF vars, TypeInv, HeldInv, Spent, Share
<1>2. ASSUME NEW w \in Workers, Call(w) PROVE TypeInv' /\ HeldInv'
  <2>1. /\ step[w] = "idle" /\ UNCHANGED <<late, rows>>
        /\ step' = [step EXCEPT ![w] = "connecting"]
        /\ timer' = [timer EXCEPT ![w] = SdkTimeout]
        /\ attempt' = [attempt EXCEPT ![w] = 1] /\ held' = [held EXCEPT ![w] = held[w]]
    BY <1>2 DEF Call, Goto
  <2>2. /\ "connecting" \in Steps /\ held[w] = 0
        /\ held[w] + SdkTimeout <= Spent(1) + Share("connecting")
    BY <1>0, <2>1, SpentFirst DEF Steps, Share, HeldInv
  <2>3. held[w] \in 0 .. MaxHeld /\ 1 \in 0 .. MaxRetries /\ 1 >= 1 /\ "connecting" # "idle"
    BY <1>0 DEF TypeInv
  <2>4. late' \in 0 .. MaxLate /\ rows' \in [0 .. Window -> Counts]
    BY <1>0, <2>1
  <2>5. QED
    BY <1>0, <2>1, <2>2, <2>3, <2>4, WorkerStep
<1>3. ASSUME NEW w \in Workers, Retry(w) \/ Connects(w) \/ SessionOpens(w)
      PROVE  TypeInv' /\ HeldInv'
  <2>1. PICK s \in Steps \ {"idle"}, t \in Nat :
          /\ step[w] # "idle" /\ Goto(w, s, t) /\ UNCHANGED <<attempt, late, rows>>
          /\ \/ step[w] = "backoff" /\ s = "connecting" /\ t = SdkTimeout
             \/ step[w] = "connecting" /\ s = "opening" /\ t = Timeout
             \/ step[w] = "opening" /\ s = "sent" /\ t = Timeout
    <3>1. {"connecting", "opening", "sent"} \subseteq Steps \ {"idle"}
      BY DEF Steps
    <3>2. QED
      BY <1>0, <1>3, <3>1 DEF Retry, Connects, SessionOpens
  <2>2. held[w] + t <= Spent(attempt[w]) + Share(s)
    <3>1. /\ held[w] + timer[w] <= Spent(attempt[w]) + Share(step[w]) /\ timer[w] \in Nat
          /\ held[w] \in 0 .. MaxHeld /\ MaxHeld \in Nat /\ Spent(attempt[w]) \in Nat
      BY <2>1, BusyWorker
    <3>2. Share(s) = Share(step[w]) + t /\ Share(step[w]) \in Nat
      BY <2>1, Waiting DEF Share
    <3>3. QED
      BY <2>1, <3>1, <3>2
  <2>3. QED
    BY <1>0, <2>1, <2>2, Waits
<1>5. ASSUME NEW w \in Workers, SessionFails(w) \/ ToolFails(w) \/ ToolAnswers(w)
      PROVE  TypeInv' /\ HeldInv'
  <2>1. /\ step[w] \in {"connecting", "opening", "running"}
        /\ Conclude(w) \/ AttemptFails(w)
        /\ UNCHANGED <<late, rows>>
    BY <1>5 DEF SessionFails, ToolFails, ToolAnswers
  <2>2. QED
    BY <1>0, <2>1, Ends
<1>6. ASSUME NEW w \in Workers, Handle(w) PROVE TypeInv' /\ HeldInv'
  <2>1. step[w] = "sent" /\ UNCHANGED late
    BY <1>6 DEF Handle
  <2>2. rows' \in [0 .. Window -> Counts]
    <3>1. UNCHANGED rows \/ \E decision \in {"allowed", "denied"} : WriteRow(decision)
      BY <1>6 DEF Handle, Denies, Unavailable
    <3>2. QED
      BY <1>0, <3>1, WriteRowType
  <2>3. CASE Goto(w, "running", timer[w]) /\ UNCHANGED attempt
    <3>1. timer[w] \in Nat /\ held[w] + timer[w] <= Spent(attempt[w]) + Share("running")
      BY <2>1, BusyWorker DEF Share
    <3>2. "running" \in Steps \ {"idle"}
      BY DEF Steps
    <3>3. QED
      BY <1>0, <2>1, <2>2, <2>3, <3>1, <3>2, Waits
  <2>4. ASSUME NEW permanent \in BOOLEAN, Refused(w, permanent) PROVE TypeInv' /\ HeldInv'
    BY <2>1, <2>2, <2>4, RefusedStep
  <2>5. QED
    BY <1>6, <2>3, <2>4 DEF Handle
<1>7. ASSUME NEW w \in Workers, TimesOut(w) PROVE TypeInv' /\ HeldInv'
  <2>1. /\ step[w] \notin {"idle", "backoff"} /\ AttemptFails(w) /\ UNCHANGED rows
    BY <1>7 DEF TimesOut, WaitingForAnswer
  <2>2. late' \in 0 .. MaxLate
    BY <1>0, <1>7 DEF TimesOut
  <2>3. QED
    BY <1>0, <2>1, <2>2, Ends
<1>8. CASE HandleLate
  <2>1. /\ UNCHANGED <<step, attempt, timer, held>> /\ late' \in 0 .. MaxLate
        /\ UNCHANGED rows \/ \E decision \in {"allowed", "denied"} : WriteRow(decision)
    BY <1>0, <1>8 DEF HandleLate, Denies, Unavailable
  <2>2. rows' \in [0 .. Window -> Counts]
    BY <1>0, <2>1, WriteRowType
  <2>3. QED
    BY <2>1, <2>2 DEF TypeInv, HeldInv, Spent, Share
<1>9. CASE Tick
  BY <1>9, TickStep
<1>10. QED
  BY <1>1, <1>2, <1>3, <1>5, <1>6, <1>7, <1>8, <1>9 DEF Next

LEMMA Invariant == Spec => [](TypeInv /\ HeldInv)
  BY InitInv, NextInv, PTL DEF Spec

\* No wait of a worker is longer than a whole call may take, whatever its
\* attempt (mcp_client.py, call_tool_with_retry).
THEOREM TypeCorrect == Spec => []TypeOK
<1>1. TypeInv /\ HeldInv => TypeOK
  <2> SUFFICES ASSUME TypeInv, HeldInv PROVE TypeOK
    OBVIOUS
  <2>1. ASSUME NEW w \in Workers PROVE timer[w] \in 0 .. MaxHeld /\ held[w] \in 0 .. MaxHeld + 1
    <3>1. timer[w] \in Nat /\ held[w] \in 0 .. MaxHeld /\ MaxHeld \in Nat
      BY WithinMaxHeld, McpRetryAssumption DEF TypeInv
    <3>2. timer[w] <= MaxHeld
      <4>1. CASE step[w] = "idle"
        BY <3>1, <4>1 DEF HeldInv
      <4>2. CASE step[w] # "idle"
        BY <3>1, <4>2, BusyWorker
      <4>3. QED
        BY <4>1, <4>2
    <3>3. QED
      BY <3>1, <3>2
  <2>2. QED
    BY <2>1 DEF TypeInv, TypeOK
<1>2. QED
  BY <1>1, Invariant, PTL

\* However answers are lost, refused or late, a call keeps its worker for its
\* attempts' three waits each, the SDK's for its connection and the program's
\* two timeouts, and for the backoffs between them, at most (mcp_client.py,
\* _call_tool_once and call_tool_with_retry).
THEOREM HeldAlwaysBounded == Spec => []HeldBounded
<1>1. TypeInv => HeldBounded
  <2>1. MaxHeld \in Nat
    BY WithinMaxHeld, McpRetryAssumption
  <2>2. QED
    BY <2>1 DEF TypeInv, HeldBounded
<1>2. QED
  BY <1>1, Invariant, PTL

----------------------------------------------------------------------------
(* Sums.  Induction over finite sets is by a smallest counterexample.      *)

\* What the functions f[i] have at d, added up.
Total(f, d, S) == MapThenSumSet(LAMBDA i : f[i][d], S)

\* A set of subsets of a finite set has one that contains no other of them.
LEMMA SmallestSubset ==
  ASSUME NEW S, IsFiniteSet(S), NEW F, F \subseteq SUBSET S, F # {}
  PROVE  \E T \in F : \A U \in F : U \subseteq T => U = T
<1>1. IsWellFoundedOn(StrictSubsetOrdering(S), SUBSET S)
  BY FS_StrictSubsetOrderingWellFounded, FS_FiniteSubsetsOfFinite
<1>2. PICK T \in F : \A U \in F : <<U, T>> \notin StrictSubsetOrdering(S)
  BY <1>1, WFMin
<1>3. ASSUME NEW U \in F, U \subseteq T PROVE U = T
  BY <1>2, <1>3 DEF StrictSubsetOrdering
<1>4. QED
  BY <1>3

Pick(s) == CHOOSE x \in s : TRUE

LEMMA Picked == \A s : s # {} => Pick(s) \in s
  BY DEF Pick

\* What the fold computes over the subsets of S.
Adds(f, d, S, g) ==
  g = [s \in SUBSET S |->
         IF s = {} THEN 0 ELSE f[Pick(s)][d] + g[s \ {Pick(s)}]]

LEMMA TotalIs ==
  ASSUME NEW f, NEW d, NEW S
  PROVE  Total(f, d, S) = (CHOOSE g : Adds(f, d, S, g))[S]
  BY DEF Total, MapThenSumSet, MapThenFoldSet, Adds, Pick

\* There is only one such function ...
LEMMA AddsOnce ==
  ASSUME NEW f, NEW d, NEW S, IsFiniteSet(S), NEW g, NEW h, Adds(f, d, S, g), Adds(f, d, S, h)
  PROVE  g = h
<1> DEFINE Bad == {s \in SUBSET S : g[s] # h[s]}
<1>1. ASSUME NEW T \in Bad, \A U \in Bad : U \subseteq T => U = T PROVE FALSE
  <2>1. T \in SUBSET S /\ g[T] # h[T]
    OBVIOUS
  <2>2. /\ g[T] = IF T = {} THEN 0 ELSE f[Pick(T)][d] + g[T \ {Pick(T)}]
        /\ h[T] = IF T = {} THEN 0 ELSE f[Pick(T)][d] + h[T \ {Pick(T)}]
    BY <2>1 DEF Adds
  <2>3. T # {} /\ Pick(T) \in T
    BY <2>1, <2>2, Picked
  <2>4. T \ {Pick(T)} \notin Bad
    BY <1>1, <2>3
  <2>5. g[T \ {Pick(T)}] = h[T \ {Pick(T)}]
    BY <2>1, <2>4
  <2>6. QED
    BY <2>1, <2>2, <2>3, <2>5
<1>2. Bad = {}
  <2> HIDE DEF Bad
  <2>1. Bad \subseteq SUBSET S
    BY DEF Bad
  <2>2. QED
    BY <1>1, <2>1, SmallestSubset
<1>3. /\ g = [s \in SUBSET S |-> g[s]]
      /\ h = [s \in SUBSET S |-> h[s]]
  BY DEF Adds
<1>4. \A s \in SUBSET S : g[s] = h[s]
  BY <1>2
<1>5. QED
  BY <1>3, <1>4

\* ... it is the same for a smaller set ...
LEMMA AddsLess ==
  ASSUME NEW f, NEW d, NEW S, NEW g, Adds(f, d, S, g), NEW T \in SUBSET S
  PROVE  Adds(f, d, T, [s \in SUBSET T |-> g[s]])
<1>1. ASSUME NEW s \in SUBSET T
      PROVE  g[s] = IF s = {} THEN 0 ELSE f[Pick(s)][d] + [t \in SUBSET T |-> g[t]][s \ {Pick(s)}]
  BY DEF Adds
<1>2. QED
  BY <1>1 DEF Adds

\* ... and there is one for every finite set.
LEMMA AddsExist ==
  ASSUME NEW f, NEW d, NEW S, IsFiniteSet(S)
  PROVE  \E g : Adds(f, d, S, g)
<1> DEFINE Bad == {T \in SUBSET S : ~ \E g : Adds(f, d, T, g)}
           Sol(U) == CHOOSE g : Adds(f, d, U, g)
<1>1. ASSUME NEW T \in Bad, \A U \in Bad : U \subseteq T => U = T PROVE FALSE
  <2> DEFINE h == [s \in SUBSET T |-> IF s = {} THEN 0 ELSE
                     f[Pick(s)][d] + Sol(s \ {Pick(s)})[s \ {Pick(s)}]]
  <2>1. ASSUME NEW U \in SUBSET T, U # T PROVE Adds(f, d, U, Sol(U)) /\ IsFiniteSet(U)
    <3>1. \E g : Adds(f, d, U, g)
      BY <1>1, <2>1
    <3>2. IsFiniteSet(U)
      BY FS_Subset
    <3>3. QED
      BY <3>1, <3>2
  <2>2. ASSUME NEW u \in SUBSET T, u # T PROVE h[u] = Sol(u)[u]
    <3>1. Sol(u)[u] = IF u = {} THEN 0 ELSE f[Pick(u)][d] + Sol(u)[u \ {Pick(u)}]
      <4> HIDE DEF Sol
      <4>1. QED
        BY <2>1, <2>2 DEF Adds
    <3>2. CASE u = {}
      BY <3>1, <3>2
    <3>3. CASE u # {}
      <4> DEFINE v == u \ {Pick(u)}
      <4>1. v \in SUBSET u /\ v \in SUBSET T /\ v # T
        BY <3>3, Picked
      <4>2. Adds(f, d, v, [s \in SUBSET v |-> Sol(u)[s]])
        <5> HIDE DEF Sol, v
        <5>1. QED
          BY <2>1, <2>2, <4>1, AddsLess
      <4>3. Sol(v) = [s \in SUBSET v |-> Sol(u)[s]]
        <5> HIDE DEF Sol, v
        <5>1. QED
          BY <2>1, <4>1, <4>2, AddsOnce
      <4>4. Sol(v)[v] = Sol(u)[v]
        <5> HIDE DEF Sol, v
        <5>1. QED
          BY <4>3
      <4>5. QED
        <5> HIDE DEF Sol
        <5>1. QED
          BY <3>1, <3>3, <4>4
    <3>4. QED
      BY <3>2, <3>3
  <2>3. \A s \in SUBSET T : h[s] = IF s = {} THEN 0 ELSE f[Pick(s)][d] + h[s \ {Pick(s)}]
    <3>1. ASSUME NEW s \in SUBSET T, s # {} PROVE h[s \ {Pick(s)}] = Sol(s \ {Pick(s)})[s \ {Pick(s)}]
      <4>1. s \ {Pick(s)} \in SUBSET T /\ s \ {Pick(s)} # T
        BY <3>1, Picked
      <4>2. QED
        <5> HIDE DEF Sol, h
        <5>1. QED
          BY <2>2, <4>1
    <3>2. QED
      <4> HIDE DEF Sol
      <4>1. QED
        BY <3>1
  <2>4. Adds(f, d, T, h)
    <3>1. h = [s \in SUBSET T |-> h[s]]
      OBVIOUS
    <3>2. QED
      <4> HIDE DEF h
      <4>1. QED
        BY <2>3, <3>1 DEF Adds
  <2>5. QED
    <3> HIDE DEF h
    <3>1. QED
      BY <2>4
<1>2. Bad = {}
  <2> HIDE DEF Bad
  <2>1. Bad \subseteq SUBSET S
    BY DEF Bad
  <2>2. QED
    BY <1>1, <2>1, SmallestSubset
<1>3. QED
  BY <1>2

\* So the sum is what its recursion says.
LEMMA TotalUnfold ==
  ASSUME NEW f, NEW d, NEW S, IsFiniteSet(S)
  PROVE  Total(f, d, S) = IF S = {} THEN 0
                             ELSE f[Pick(S)][d] + Total(f, d, S \ {Pick(S)})
<1> DEFINE Sol(U) == CHOOSE g : Adds(f, d, U, g)
           R == S \ {Pick(S)}
<1>1. Adds(f, d, S, Sol(S)) /\ Adds(f, d, R, Sol(R)) /\ IsFiniteSet(R)
  <2>1. IsFiniteSet(R)
    BY FS_Subset
  <2>2. QED
    BY <2>1, AddsExist
<1>2. Total(f, d, S) = Sol(S)[S] /\ Total(f, d, R) = Sol(R)[R]
  BY TotalIs
<1> HIDE DEF Sol
<1>3. Adds(f, d, R, [s \in SUBSET R |-> Sol(S)[s]])
  BY <1>1, AddsLess
<1>4. Sol(R) = [s \in SUBSET R |-> Sol(S)[s]]
  <2> HIDE DEF R
  <2>1. QED
    BY <1>1, <1>3, AddsOnce
<1>5. Sol(R)[R] = Sol(S)[R]
  <2> HIDE DEF R
  <2>1. QED
    BY <1>4
<1>6. Sol(S)[S] = IF S = {} THEN 0 ELSE f[Pick(S)][d] + Sol(S)[R]
  BY <1>1 DEF Adds
<1>7. QED
  BY <1>2, <1>5, <1>6

LEMMA TotalEmpty == \A f, d : Total(f, d, {}) = 0
  BY TotalUnfold, FS_EmptySet

\* A sum without any one of its terms, whichever the fold takes first.
LEMMA TotalRemove ==
  ASSUME NEW f, NEW d, NEW S, IsFiniteSet(S), \A i \in S : f[i][d] \in Nat
  PROVE  /\ Total(f, d, S) \in Nat
         /\ \A y \in S : Total(f, d, S) = f[y][d] + Total(f, d, S \ {y})
<1> DEFINE Good(T) == /\ Total(f, d, T) \in Nat
                      /\ \A y \in T : Total(f, d, T) = f[y][d] + Total(f, d, T \ {y})
           Bad == {T \in SUBSET S : ~Good(T)}
<1>1. ASSUME NEW T \in Bad, \A U \in Bad : U \subseteq T => U = T PROVE FALSE
  <2>0. T \in SUBSET S /\ IsFiniteSet(T) /\ ~Good(T)
    BY FS_Subset
  <2>1. ASSUME NEW U \in SUBSET T, U # T PROVE Good(U)
    <3>1. U \notin Bad
      BY <1>1, <2>1
    <3>2. QED
      BY <2>0, <3>1
  <2>2. CASE T = {}
    BY <2>0, <2>2, TotalEmpty
  <2>3. CASE T # {}
    <3> DEFINE x == Pick(T)
    <3>1. x \in T /\ Total(f, d, T) = f[x][d] + Total(f, d, T \ {x})
      BY <2>0, <2>3, TotalUnfold, Picked
    <3> HIDE DEF x
    <3>2. Good(T \ {x})
      BY <2>1, <3>1
    <3>3. Total(f, d, T) \in Nat
      BY <2>0, <3>1, <3>2
    <3>4. ASSUME NEW y \in T, y # x PROVE Total(f, d, T) = f[y][d] + Total(f, d, T \ {y})
      <4>1. Total(f, d, T \ {x}) = f[y][d] + Total(f, d, (T \ {x}) \ {y})
        BY <3>2, <3>4
      <4>2. Good(T \ {y}) /\ x \in T \ {y}
        BY <2>1, <3>1, <3>4
      <4>3. Total(f, d, T \ {y}) = f[x][d] + Total(f, d, (T \ {y}) \ {x})
        BY <4>2
      <4>4. Good((T \ {x}) \ {y}) /\ (T \ {x}) \ {y} = (T \ {y}) \ {x}
        BY <2>1, <3>1, <3>4
      <4>5. f[x][d] \in Nat /\ f[y][d] \in Nat
        BY <2>0, <3>1, <3>4
      <4>6. Total(f, d, (T \ {x}) \ {y}) \in Nat
        BY <4>4
      <4>7. \A a, b, c : a \in Nat /\ b \in Nat /\ c \in Nat => a + (b + c) = b + (a + c)
        OBVIOUS
      <4>8. Total(f, d, T) = f[x][d] + (f[y][d] + Total(f, d, (T \ {x}) \ {y}))
        BY <3>1, <4>1
      <4>9. Total(f, d, T \ {y}) = f[x][d] + Total(f, d, (T \ {x}) \ {y})
        BY <4>3, <4>4
      <4> HIDE DEF Good
      <4>10. QED
        BY <4>5, <4>6, <4>7, <4>8, <4>9
    <3>5. QED
      BY <2>0, <3>1, <3>3, <3>4
  <2>4. QED
    BY <2>2, <2>3
<1>2. Bad = {}
  <2> HIDE DEF Bad
  <2>1. Bad \subseteq SUBSET S
    BY DEF Bad
  <2>2. QED
    BY <1>1, <2>1, SmallestSubset
<1>3. Good(S)
  BY <1>2
<1>4. QED
  BY <1>3

\* Smaller terms add up to less.
LEMMA TotalLess ==
  ASSUME NEW f, NEW d, NEW g, NEW e, NEW S, IsFiniteSet(S),
         \A i \in S : f[i][d] \in Nat /\ g[i][e] \in Nat /\ f[i][d] <= g[i][e]
  PROVE  Total(f, d, S) <= Total(g, e, S)
<1> DEFINE Bad == {T \in SUBSET S : ~(Total(f, d, T) <= Total(g, e, T))}
<1>1. ASSUME NEW T \in Bad, \A U \in Bad : U \subseteq T => U = T PROVE FALSE
  <2>1. T \in SUBSET S /\ IsFiniteSet(T) /\ ~(Total(f, d, T) <= Total(g, e, T))
    BY FS_Subset
  <2>2. T # {}
    BY <2>1, TotalEmpty
  <2>3. PICK x \in T : TRUE
    BY <2>2
  <2>4. /\ T \ {x} \in SUBSET S /\ IsFiniteSet(T \ {x})
        /\ Total(f, d, T \ {x}) <= Total(g, e, T \ {x})
    BY <1>1, <2>1, <2>3, FS_Subset
  <2>5. f[x][d] \in Nat /\ g[x][e] \in Nat /\ f[x][d] <= g[x][e]
    BY <2>1, <2>3
  <2>6. /\ Total(f, d, T) = f[x][d] + Total(f, d, T \ {x})
        /\ Total(f, d, T \ {x}) \in Nat
    <3>1. \A i \in T : f[i][d] \in Nat
      BY <2>1
    <3>2. QED
      BY <2>1, <2>3, <2>4, <3>1, TotalRemove
  <2>7. /\ Total(g, e, T) = g[x][e] + Total(g, e, T \ {x})
        /\ Total(g, e, T \ {x}) \in Nat
    <3>1. \A i \in T : g[i][e] \in Nat
      BY <2>1
    <3>2. QED
      BY <2>1, <2>3, <2>4, <3>1, TotalRemove
  <2>8. QED
    BY <2>1, <2>4, <2>5, <2>6, <2>7
<1>2. Bad = {}
  <2> HIDE DEF Bad
  <2>1. Bad \subseteq SUBSET S
    BY DEF Bad
  <2>2. QED
    BY <1>1, <2>1, SmallestSubset
<1>3. QED
  BY <1>2

\* A sum of terms that are at most c.
LEMMA TotalAtMost ==
  ASSUME NEW f, NEW d, NEW S, IsFiniteSet(S), NEW c \in Nat,
         \A i \in S : f[i][d] \in Nat /\ f[i][d] <= c
  PROVE  Total(f, d, S) <= Cardinality(S) * c
<1> DEFINE Bad == {T \in SUBSET S : ~(Total(f, d, T) <= Cardinality(T) * c)}
<1>1. ASSUME NEW T \in Bad, \A U \in Bad : U \subseteq T => U = T PROVE FALSE
  <2>1. T \in SUBSET S /\ IsFiniteSet(T) /\ ~(Total(f, d, T) <= Cardinality(T) * c)
    BY FS_Subset
  <2>2. PICK x \in T : TRUE
    <3>1. ASSUME T = {} PROVE FALSE
      <4>1. Total(f, d, T) = 0 /\ Cardinality(T) = 0
        BY <3>1, TotalEmpty, FS_EmptySet
      <4>2. 0 <= 0 * c
        OBVIOUS
      <4>3. QED
        BY <2>1, <4>1, <4>2
    <3>2. QED
      BY <3>1
  <2>3. /\ T \ {x} \in SUBSET S /\ T \ {x} \notin Bad
        /\ IsFiniteSet(T \ {x}) /\ Cardinality(T \ {x}) = Cardinality(T) - 1
    BY <1>1, <2>1, <2>2, FS_RemoveElement
  <2>4. /\ Cardinality(T) \in Nat /\ Cardinality(T \ {x}) \in Nat
        /\ Total(f, d, T \ {x}) \in Nat
        /\ Total(f, d, T) = f[x][d] + Total(f, d, T \ {x})
    <3>1. \A i \in T : f[i][d] \in Nat
      BY <2>1
    <3>2. /\ Total(f, d, T \ {x}) \in Nat
          /\ Total(f, d, T) = f[x][d] + Total(f, d, T \ {x})
      BY <2>1, <2>2, <2>3, <3>1, TotalRemove
    <3>3. QED
      BY <2>1, <2>3, <3>2, FS_CardinalityType
  <2>5. Total(f, d, T \ {x}) <= Cardinality(T \ {x}) * c
    BY <2>3
  <2>6. f[x][d] \in Nat /\ f[x][d] <= c
    BY <2>1, <2>2
  <2>7. Cardinality(T) * c = Cardinality(T \ {x}) * c + c
    <3> DEFINE n == Cardinality(T)  m == Cardinality(T \ {x})
    <3>1. n \in Nat /\ m \in Nat /\ n = m + 1
      BY <2>3, <2>4
    <3> HIDE DEF n, m
    <3>2. n * c = m * c + c
      BY <3>1
    <3>3. QED
      BY <3>2 DEF n, m
  <2>8. Cardinality(T \ {x}) * c \in Nat
    BY <2>4
  <2>9. QED
    BY <2>1, <2>4, <2>5, <2>6, <2>7, <2>8
<1>2. Bad = {}
  <2> HIDE DEF Bad
  <2>1. Bad \subseteq SUBSET S
    BY DEF Bad
  <2>2. QED
    BY <1>1, <2>1, SmallestSubset
<1>3. QED
  BY <1>2

\* Two sums that differ in one term only.
LEMMA TotalChange ==
  ASSUME NEW f, NEW d, NEW g, NEW e, NEW S, IsFiniteSet(S), NEW y \in S,
         \A i \in S : f[i][d] \in Nat /\ g[i][e] \in Nat,
         \A i \in S \ {y} : f[i][d] = g[i][e]
  PROVE  /\ Total(f, d, S) \in Nat /\ Total(g, e, S) \in Nat
         /\ Total(f, d, S) + g[y][e] = Total(g, e, S) + f[y][d]
<1> DEFINE R == S \ {y}
<1>1. IsFiniteSet(R)
  BY FS_Subset
<1>2. /\ Total(f, d, S) \in Nat /\ Total(f, d, R) \in Nat
      /\ Total(f, d, S) = f[y][d] + Total(f, d, R)
  BY <1>1, TotalRemove
<1>3. /\ Total(g, e, S) \in Nat /\ Total(g, e, R) \in Nat
      /\ Total(g, e, S) = g[y][e] + Total(g, e, R)
  BY <1>1, TotalRemove
<1>4. Total(f, d, R) = Total(g, e, R)
  <2>1. /\ \A i \in R : f[i][d] \in Nat /\ g[i][e] \in Nat /\ f[i][d] <= g[i][e]
        /\ \A i \in R : g[i][e] \in Nat /\ f[i][d] \in Nat /\ g[i][e] <= f[i][d]
    OBVIOUS
  <2> HIDE DEF R
  <2>2. Total(f, d, R) <= Total(g, e, R) /\ Total(g, e, R) <= Total(f, d, R)
    BY <1>1, <2>1, TotalLess
  <2>3. QED
    BY <1>2, <1>3, <2>2
<1>5. f[y][d] \in Nat /\ g[y][e] \in Nat
  OBVIOUS
<1> HIDE DEF R
<1>6. QED
  BY <1>2, <1>3, <1>4, <1>5

\* The sum up to n.
LEMMA TotalTo ==
  ASSUME NEW f, NEW d, NEW n \in Nat, \A i \in 0 .. n : f[i][d] \in Nat
  PROVE  /\ Total(f, d, 0 .. n) \in Nat
         /\ Total(f, d, 0 .. n) = IF n = 0 THEN f[0][d] ELSE f[n][d] + Total(f, d, 0 .. n - 1)
<1>1. IsFiniteSet(0 .. n) /\ n \in 0 .. n /\ f[n][d] \in Nat
  <2>1. IsFiniteSet(0 .. n)
    BY FS_Interval
  <2>2. n \in 0 .. n
    OBVIOUS
  <2>3. QED
    BY <2>1, <2>2
<1>2. /\ Total(f, d, 0 .. n) \in Nat
      /\ Total(f, d, 0 .. n) = f[n][d] + Total(f, d, (0 .. n) \ {n})
  BY <1>1, TotalRemove
<1>3. CASE n = 0
  <2>1. (0 .. n) \ {n} = {}
    BY <1>3
  <2>2. Total(f, d, (0 .. n) \ {n}) = 0
    BY <2>1, TotalEmpty
  <2>3. QED
    BY <1>1, <1>2, <1>3, <2>2
<1>4. CASE n # 0
  <2>1. (0 .. n) \ {n} = 0 .. n - 1
    BY <1>4
  <2>2. QED
    BY <1>2, <1>4, <2>1
<1>5. QED
  BY <1>3, <1>4

\* When everything is one place older, so is its sum.
LEMMA TotalOlder ==
  ASSUME NEW f, NEW g, NEW d, NEW n \in Nat,
         \A i \in 0 .. n : f[i][d] \in Nat /\ g[i][d] \in Nat,
         g[0][d] = 0, \A i \in 1 .. n : g[i][d] = f[i - 1][d]
  PROVE  Total(g, d, 0 .. n) = IF n = 0 THEN 0 ELSE Total(f, d, 0 .. n - 1)
<1> DEFINE Same(m) == Total(g, d, 0 .. m) = IF m = 0 THEN 0 ELSE Total(f, d, 0 .. m - 1)
           Bad == {m \in 0 .. n : ~Same(m)}
<1>1. ASSUME NEW m \in Bad, \A k \in Bad : m <= k PROVE FALSE
  <2>1. m \in 0 .. n /\ m \in Nat /\ ~Same(m)
    OBVIOUS
  <2>2. \A i \in 0 .. m : f[i][d] \in Nat /\ g[i][d] \in Nat
    BY <2>1
  <2>3. Total(g, d, 0 .. m) = IF m = 0 THEN g[0][d] ELSE g[m][d] + Total(g, d, 0 .. m - 1)
    BY <2>1, <2>2, TotalTo
  <2>4. m # 0
    BY <2>1, <2>3
  <2> DEFINE k == m - 1
  <2>5. /\ k \in 0 .. n /\ k \in Nat /\ ~(m <= k) /\ m \in 1 .. n
        /\ \A i \in 0 .. k : f[i][d] \in Nat
    BY <2>1, <2>2, <2>4
  <2>6. Same(k)
    <3> HIDE DEF Same, k
    <3>1. QED
      BY <1>1, <2>5
  <2>7. g[m][d] = f[k][d]
    BY <2>5
  <2>8. Total(f, d, 0 .. k) = IF k = 0 THEN f[0][d] ELSE f[k][d] + Total(f, d, 0 .. k - 1)
    <3> HIDE DEF k
    <3>1. QED
      BY <2>5, TotalTo
  <2>9. Total(g, d, 0 .. m) = f[k][d] + Total(g, d, 0 .. k)
    BY <2>3, <2>4, <2>7
  <2>10. f[k][d] \in Nat
    <3> HIDE DEF k
    <3>1. k \in 0 .. k
      BY <2>5
    <3>2. QED
      BY <2>5, <3>1
  <2>11. Total(g, d, 0 .. m) = Total(f, d, 0 .. k)
    <3>1. CASE k = 0
      BY <2>6, <2>8, <2>9, <2>10, <3>1
    <3>2. CASE k # 0
      <4>1. Total(g, d, 0 .. k) = Total(f, d, 0 .. k - 1)
        BY <2>6, <3>2
      <4>2. QED
        BY <2>8, <2>9, <3>2, <4>1
    <3>3. QED
      BY <3>1, <3>2
  <2>12. QED
    BY <2>1, <2>4, <2>11
<1>2. Bad = {}
  <2> HIDE DEF Bad
  <2>1. Bad \subseteq Nat
    BY DEF Bad
  <2>2. QED
    BY <1>1, <2>1, Least
<1>3. n \in 0 .. n
  OBVIOUS
<1>4. Same(n)
  BY <1>2, <1>3
<1>5. QED
  BY <1>4

----------------------------------------------------------------------------
(* How many calls can be refused within a minute.                          *)

LEMMA Division ==
  ASSUME NEW x \in Nat, NEW t \in Nat \ {0}
  PROVE  /\ x \div t \in Nat /\ (x + t) \div t = 1 + x \div t
         /\ \A y \in Nat : x <= y => x \div t <= y \div t
  OBVIOUS

\* How many rows a worker can have caused, or a POST it gave up on still can,
\* in the last a units of time.  A refused POST keeps its worker until its read
\* timeout, so its attempts before this one are each a whole timeout older.
RoomOf(s, t, a) ==
  IF s = "sent" THEN (a + t) \div Timeout
  ELSE IF s = "unanswered" THEN 1 + (a + t) \div Timeout
  ELSE 1 + a \div Timeout

Room(w, a) == RoomOf(step[w], timer[w], a)

Rooms == [w \in Workers |-> [a \in 0 .. Window |-> Room(w, a)]]

DeniedWithin(a) == Total(rows, "denied", 0 .. a)

\* A POST that its worker waits for has been on its way for at most a timeout.
Waited ==
  \A w \in Workers : step[w] \in {"sent", "unanswered"} => timer[w] <= Timeout

\* The inductive invariant: for every span, the refused calls and the POSTs
\* that nobody waits for fit into the workers' rooms and the late POSTs that
\* may have been there before.
RoomInv ==
  /\ Waited
  /\ \A a \in 0 .. Window :
       DeniedWithin(a) + late <= Total(Rooms, a, Workers) + MaxLate

LEMMA Numbers ==
  /\ Timeout \in Nat \ {0} /\ Window \in Nat /\ Limit \in Nat /\ MaxLate \in Nat
  /\ \A a \in 0 .. Window : a \in Nat
BY McpRetryAssumption

LEMMA RoomType ==
  ASSUME NEW s, NEW t \in Nat, NEW a \in 0 .. Window
  PROVE  RoomOf(s, t, a) \in Nat
<1>1. a \in Nat /\ Timeout \in Nat \ {0}
  BY Numbers
<1>2. a + t \in Nat
  BY <1>1
<1>3. a \div Timeout \in Nat /\ (a + t) \div Timeout \in Nat
  BY <1>1, <1>2, Division
<1>4. QED
  BY <1>3 DEF RoomOf

LEMMA RoomsType ==
  ASSUME TypeInv, TypeInv', NEW w \in Workers, NEW a \in 0 .. Window
  PROVE  /\ Rooms[w][a] \in Nat /\ Rooms[w][a] = Room(w, a)
         /\ Rooms'[w][a] \in Nat /\ Rooms'[w][a] = Room(w, a)'
<1>1. timer[w] \in Nat /\ timer'[w] \in Nat
  BY DEF TypeInv
<1>2. RoomOf(step[w], timer[w], a) \in Nat /\ RoomOf(step'[w], timer'[w], a) \in Nat
  BY <1>1, RoomType
<1>3. QED
  BY <1>2 DEF Rooms, Room

LEMMA DeniedType ==
  ASSUME NEW r \in [0 .. Window -> Counts], NEW a \in 0 .. Window
  PROVE  /\ Total(r, "denied", 0 .. a) \in Nat
         /\ \A i \in 0 .. Window : r[i]["denied"] \in Nat
<1>1. \A i \in 0 .. Window : r[i]["denied"] \in Nat
  BY Numbers DEF Counts
<1>2. a \in Nat /\ \A i \in 0 .. a : i \in 0 .. Window
  BY Numbers
<1>3. \A i \in 0 .. a : r[i]["denied"] \in Nat
  BY <1>1, <1>2
<1>4. QED
  BY <1>1, <1>2, <1>3, TotalTo

\* Only the first term changes.
LEMMA TotalFirst ==
  ASSUME NEW f, NEW g, NEW d, NEW n \in Nat,
         \A i \in 0 .. n : f[i][d] \in Nat /\ g[i][d] \in Nat,
         \A i \in (0 .. n) \ {0} : f[i][d] = g[i][d]
  PROVE  Total(f, d, 0 .. n) + g[0][d] = Total(g, d, 0 .. n) + f[0][d]
<1> DEFINE S == 0 .. n
<1>1. IsFiniteSet(S) /\ 0 \in S
  BY FS_Interval
<1>2. \A i \in S : f[i][d] \in Nat /\ g[i][d] \in Nat
  OBVIOUS
<1>3. \A i \in S \ {0} : f[i][d] = g[i][d]
  OBVIOUS
<1> HIDE DEF S
<1>4. Total(f, d, S) + g[0][d] = Total(g, d, S) + f[0][d]
  BY <1>1, <1>2, <1>3, TotalChange
<1>5. QED
  BY <1>4 DEF S

\* A refused call is one row more, any other none.
LEMMA RowStep ==
  ASSUME TypeInv, TypeInv', NEW a \in 0 .. Window
  PROVE  /\ WriteRow("denied") => DeniedWithin(a)' <= DeniedWithin(a) + 1
         /\ WriteRow("allowed") \/ UNCHANGED rows => DeniedWithin(a)' = DeniedWithin(a)
<1>1. /\ DeniedWithin(a) \in Nat /\ DeniedWithin(a)' \in Nat
      /\ \A i \in 0 .. Window : rows[i]["denied"] \in Nat /\ rows'[i]["denied"] \in Nat
  <2>1. rows \in [0 .. Window -> Counts] /\ rows' \in [0 .. Window -> Counts]
    BY DEF TypeInv
  <2>2. QED
    BY <2>1, DeniedType DEF DeniedWithin
<1>2. /\ IsFiniteSet(0 .. a) /\ 0 \in 0 .. a /\ a \in Nat /\ Window \in Nat
      /\ \A i \in 0 .. a : i \in 0 .. Window
  <2>1. a \in Nat /\ Window \in Nat
    BY Numbers
  <2>2. IsFiniteSet(0 .. a)
    BY <2>1, FS_Interval
  <2>3. QED
    BY <2>1, <2>2
<1>3. \A i \in 0 .. a : rows[i]["denied"] \in Nat /\ rows'[i]["denied"] \in Nat
  BY <1>1, <1>2
<1>4. ASSUME NEW d \in {"denied", "allowed"}, WriteRow(d)
      PROVE  /\ \A i \in (0 .. a) \ {0} : rows'[i]["denied"] = rows[i]["denied"]
             /\ rows'[0]["denied"] <= rows[0]["denied"] + 1
             /\ d = "allowed" => rows'[0]["denied"] = rows[0]["denied"]
  <2> DEFINE more == [rows[0] EXCEPT ![d] = IF @ < Limit THEN @ + 1 ELSE @]
  <2>1. rows' = [rows EXCEPT ![0] = more] /\ rows \in [0 .. Window -> Counts]
    BY <1>4 DEF WriteRow, TypeInv
  <2>2. rows[0] \in Counts /\ 0 \in 0 .. Window
    BY <1>2, <2>1
  <2>3. /\ more["denied"] = IF d = "denied" /\ rows[0]["denied"] < Limit
                            THEN rows[0]["denied"] + 1 ELSE rows[0]["denied"]
    BY <2>2 DEF Counts
  <2> HIDE DEF more
  <2>4. rows'[0] = more /\ \A i \in (0 .. a) \ {0} : rows'[i] = rows[i]
    BY <1>2, <2>1, <2>2
  <2>5. rows[0]["denied"] \in Nat
    BY <1>2, <1>3
  <2>6. more["denied"] <= rows[0]["denied"] + 1
    BY <2>3, <2>5
  <2>7. d = "allowed" => more["denied"] = rows[0]["denied"]
    BY <2>3
  <2>8. QED
    BY <2>4, <2>6, <2>7
<1>5. ASSUME NEW d \in {"denied", "allowed"}, WriteRow(d)
      PROVE  /\ DeniedWithin(a)' <= DeniedWithin(a) + 1
             /\ d = "allowed" => DeniedWithin(a)' = DeniedWithin(a)
  <2>1. \A i \in (0 .. a) \ {0} : rows[i]["denied"] = rows'[i]["denied"]
    BY <1>4, <1>5
  <2>2. Total(rows, "denied", 0 .. a) + rows'[0]["denied"]
          = Total(rows', "denied", 0 .. a) + rows[0]["denied"]
    BY <1>2, <1>3, <2>1, TotalFirst
  <2>3. /\ rows'[0]["denied"] <= rows[0]["denied"] + 1
        /\ d = "allowed" => rows'[0]["denied"] = rows[0]["denied"]
    BY <1>4, <1>5
  <2>4. rows[0]["denied"] \in Nat /\ rows'[0]["denied"] \in Nat
    BY <1>2, <1>3
  <2>5. DeniedWithin(a) + rows'[0]["denied"] = DeniedWithin(a)' + rows[0]["denied"]
    BY <2>2 DEF DeniedWithin
  <2>6. QED
    BY <1>1, <2>3, <2>4, <2>5
<1>6. UNCHANGED rows => DeniedWithin(a)' = DeniedWithin(a)
  BY DEF DeniedWithin
<1>7. QED
  BY <1>5, <1>6


\* A step of one worker takes no more than it makes room for.
LEMMA WorkerRoom ==
  ASSUME IsFiniteSet(Workers), TypeInv, TypeInv', RoomInv, NEW w \in Workers,
         \A v \in Workers \ {w} : step'[v] = step[v] /\ timer'[v] = timer[v],
         step'[w] \in {"sent", "unanswered"} => timer'[w] <= Timeout,
         \A a \in 0 .. Window :
           DeniedWithin(a)' + late' + Room(w, a) <= DeniedWithin(a) + late + Room(w, a)'
  PROVE  RoomInv'
<1>1. Waited'
  BY DEF RoomInv, Waited
<1>2. ASSUME NEW a \in 0 .. Window
      PROVE  DeniedWithin(a)' + late' <= Total(Rooms', a, Workers) + MaxLate
  <2>1. \A v \in Workers : Rooms[v][a] \in Nat /\ Rooms'[v][a] \in Nat
    BY RoomsType
  <2>2. \A v \in Workers \ {w} : Rooms[v][a] = Rooms'[v][a]
    BY RoomsType DEF Room
  <2>3. /\ Total(Rooms, a, Workers) \in Nat /\ Total(Rooms', a, Workers) \in Nat
        /\ Total(Rooms, a, Workers) + Rooms'[w][a] = Total(Rooms', a, Workers) + Rooms[w][a]
    BY <2>1, <2>2, TotalChange
  <2>4. /\ DeniedWithin(a) \in Nat /\ DeniedWithin(a)' \in Nat
        /\ late \in Nat /\ late' \in Nat /\ MaxLate \in Nat
    <3>1. rows \in [0 .. Window -> Counts] /\ rows' \in [0 .. Window -> Counts]
          /\ late \in 0 .. MaxLate /\ late' \in 0 .. MaxLate
      BY DEF TypeInv
    <3>2. QED
      BY <3>1, DeniedType, Numbers DEF DeniedWithin
  <2>5. DeniedWithin(a) + late <= Total(Rooms, a, Workers) + MaxLate
    BY DEF RoomInv
  <2>6. /\ DeniedWithin(a)' + late' + Rooms[w][a] <= DeniedWithin(a) + late + Rooms'[w][a]
        /\ Rooms[w][a] \in Nat /\ Rooms'[w][a] \in Nat
    BY RoomsType
  <2>7. QED
    BY <2>3, <2>4, <2>5, <2>6
<1>3. QED
  BY <1>1, <1>2 DEF RoomInv

\* What the steps of a call make room for.
LEMMA RoomFacts ==
  ASSUME NEW t \in Nat, NEW a \in 0 .. Window
  PROVE  /\ RoomOf("sent", 0, a) = a \div Timeout
         /\ RoomOf("unanswered", 0, a) = 1 + a \div Timeout
         /\ RoomOf("sent", Timeout, a) = 1 + a \div Timeout
         /\ RoomOf("unanswered", t, a) = RoomOf("sent", t, a) + 1
         /\ \A s \in {"idle", "backoff", "connecting", "opening", "running"} :
               RoomOf(s, t, a) = 1 + a \div Timeout
         /\ t <= Timeout => RoomOf("sent", t, a) <= 1 + a \div Timeout
         /\ a \div Timeout \in Nat
<1>1. a \in Nat /\ Timeout \in Nat \ {0} /\ a + t \in Nat /\ a + Timeout \in Nat /\ a + 0 = a
  BY Numbers
<1>2. /\ a \div Timeout \in Nat /\ (a + t) \div Timeout \in Nat
      /\ (a + Timeout) \div Timeout = 1 + a \div Timeout
  BY <1>1, Division
<1>3. t <= Timeout => (a + t) \div Timeout <= (a + Timeout) \div Timeout
  <2>1. t <= Timeout => a + t <= a + Timeout
    BY <1>1
  <2>2. QED
    BY <1>1, <2>1, Division
<1>4. QED
  BY <1>1, <1>2, <1>3 DEF RoomOf

----------------------------------------------------------------------------
(* Steps.                                                                  *)

LEMMA LateType ==
  ASSUME TypeInv, NEW a \in 0 .. Window
  PROVE  DeniedWithin(a) \in Nat /\ late \in Nat /\ MaxLate \in Nat
<1>1. rows \in [0 .. Window -> Counts] /\ late \in 0 .. MaxLate
  BY DEF TypeInv
<1>2. QED
  BY <1>1, DeniedType, Numbers DEF DeniedWithin

\* A step from where a worker has a room like any other to where it has one.
Plain == {"idle", "backoff", "connecting", "opening", "running"}

\* A worker's attempt, or its call, is over.
LEMMA EndsAt ==
  ASSUME NEW w \in Workers, Conclude(w) \/ AttemptFails(w)
  PROVE  \E s \in {"idle", "backoff"} : \E t : Goto(w, s, t)
  BY DEF Conclude, AttemptFails

LEMMA Goes ==
  ASSUME TypeInv, NEW w \in Workers, NEW s, NEW t, Goto(w, s, t)
  PROVE  /\ step'[w] = s /\ timer'[w] = t
         /\ \A v \in Workers \ {w} : step'[v] = step[v] /\ timer'[v] = timer[v]
  BY DEF Goto, TypeInv

\* From one such place to another, and nothing else happens.
LEMMA PlainStep ==
  ASSUME IsFiniteSet(Workers), TypeInv, TypeInv', RoomInv, NEW w \in Workers,
         step[w] \in Plain, NEW s \in Plain \cup {"sent"}, NEW t, Goto(w, s, t),
         s = "sent" => t = Timeout, UNCHANGED <<late, rows>>
  PROVE  RoomInv'
<1>1. /\ step'[w] = s /\ timer'[w] = t
      /\ \A v \in Workers \ {w} : step'[v] = step[v] /\ timer'[v] = timer[v]
  BY Goes
<1>2. timer[w] \in Nat /\ t \in Nat /\ Timeout \in Nat
  BY <1>1, Numbers DEF TypeInv
<1>3. step'[w] \in {"sent", "unanswered"} => timer'[w] <= Timeout
  BY <1>1, <1>2 DEF Plain
<1>4. ASSUME NEW a \in 0 .. Window
      PROVE  DeniedWithin(a)' + late' + Room(w, a) <= DeniedWithin(a) + late + Room(w, a)'
  <2>1. Room(w, a) = 1 + a \div Timeout
    BY <1>2, RoomFacts DEF Room, Plain
  <2>2. Room(w, a)' = 1 + a \div Timeout
    <3>1. RoomOf(s, t, a) = 1 + a \div Timeout
      BY <1>2, RoomFacts DEF Plain
    <3>2. QED
      BY <1>1, <3>1 DEF Room
  <2>3. DeniedWithin(a)' = DeniedWithin(a) /\ late' = late
    BY DEF DeniedWithin
  <2>4. DeniedWithin(a) \in Nat /\ late \in Nat /\ a \div Timeout \in Nat
    BY <1>2, LateType, RoomFacts
  <2>5. QED
    BY <2>1, <2>2, <2>3, <2>4
<1>5. QED
  BY <1>1, <1>3, <1>4, WorkerRoom

\* The POST is handled.  A refusal, which the worker does not hear, is one row
\* and leaves the worker waiting.
LEMMA HandleStep ==
  ASSUME ~RefusalHeard, IsFiniteSet(Workers), TypeInv, TypeInv', RoomInv,
         NEW w \in Workers, Handle(w)
  PROVE  RoomInv'
<1>1. /\ step[w] = "sent" /\ late' = late
      /\ \/ /\ Goto(w, "unanswered", timer[w])
            /\ WriteRow("denied") \/ WriteRow("allowed") \/ UNCHANGED rows
         \/ Goto(w, "running", timer[w]) /\ WriteRow("allowed")
  BY DEF Handle, Refused, Denies, Unavailable
<1>2. timer[w] \in Nat /\ timer[w] <= Timeout
  BY <1>1 DEF TypeInv, RoomInv, Waited
<1>3. PICK s \in {"unanswered", "running"} :
        /\ Goto(w, s, timer[w])
        /\ \/ WriteRow("denied") /\ s = "unanswered"
           \/ WriteRow("allowed") \/ UNCHANGED rows
  BY <1>1
<1>4. /\ step'[w] = s /\ timer'[w] = timer[w]
      /\ \A v \in Workers \ {w} : step'[v] = step[v] /\ timer'[v] = timer[v]
  BY <1>3, Goes
<1>5. ASSUME NEW a \in 0 .. Window
      PROVE  DeniedWithin(a)' + late' + Room(w, a) <= DeniedWithin(a) + late + Room(w, a)'
  <2>1. /\ Room(w, a) = RoomOf("sent", timer[w], a)
        /\ Room(w, a)' = RoomOf(s, timer[w], a)
    BY <1>1, <1>4 DEF Room
  <2>2. /\ Room(w, a) \in Nat /\ Room(w, a)' \in Nat
        /\ Room(w, a) <= Room(w, a)'
        /\ s = "unanswered" => Room(w, a)' = Room(w, a) + 1
    <3>1. RoomOf("sent", timer[w], a) \in Nat /\ RoomOf(s, timer[w], a) \in Nat
      BY <1>2, RoomType
    <3>2. RoomOf("unanswered", timer[w], a) = RoomOf("sent", timer[w], a) + 1
      BY <1>2, RoomFacts
    <3>3. RoomOf("sent", timer[w], a) <= RoomOf("running", timer[w], a)
      BY <1>2, RoomFacts
    <3>4. QED
      BY <2>1, <3>1, <3>2, <3>3
  <2>3. /\ DeniedWithin(a) \in Nat /\ late \in Nat
        /\ WriteRow("denied") => DeniedWithin(a)' <= DeniedWithin(a) + 1
        /\ WriteRow("allowed") \/ UNCHANGED rows => DeniedWithin(a)' = DeniedWithin(a)
    BY LateType, RowStep
  <2>4. DeniedWithin(a)' \in Nat
    <3>1. rows' \in [0 .. Window -> Counts]
      BY DEF TypeInv
    <3>2. QED
      BY <3>1, DeniedType DEF DeniedWithin
  <2>5. CASE WriteRow("denied") /\ s = "unanswered"
    BY <1>1, <2>2, <2>3, <2>4, <2>5
  <2>6. CASE WriteRow("allowed") \/ UNCHANGED rows
    BY <1>1, <2>2, <2>3, <2>4, <2>6
  <2>7. QED
    BY <1>3, <2>5, <2>6
<1>6. step'[w] \in {"sent", "unanswered"} => timer'[w] <= Timeout
  BY <1>2, <1>4
<1>7. QED
  BY <1>4, <1>5, <1>6, WorkerRoom

\* A worker gives up on its POST, which may still be handled: the room it had
\* for an answer now is the POST's.
LEMMA TimesOutStep ==
  ASSUME IsFiniteSet(Workers), TypeInv, TypeInv', RoomInv, NEW w \in Workers, TimesOut(w)
  PROVE  RoomInv'
<1>1. /\ step[w] \in {"connecting", "opening", "running", "sent", "unanswered"}
      /\ timer[w] = 0 /\ UNCHANGED rows
      /\ late' = late \/ (step[w] = "sent" /\ late' = late + 1)
  BY DEF TimesOut, WaitingForAnswer
<1>2. PICK s \in {"idle", "backoff"} : \E t : Goto(w, s, t)
  BY EndsAt DEF TimesOut
<1>3. PICK t : Goto(w, s, t)
  BY <1>2
<1>4. /\ step'[w] = s /\ timer'[w] = t
      /\ \A v \in Workers \ {w} : step'[v] = step[v] /\ timer'[v] = timer[v]
  BY <1>3, Goes
<1>5. t \in Nat
  BY <1>4 DEF TypeInv
<1>6. ASSUME NEW a \in 0 .. Window
      PROVE  DeniedWithin(a)' + late' + Room(w, a) <= DeniedWithin(a) + late + Room(w, a)'
  <2>1. RoomOf(s, t, a) = 1 + a \div Timeout /\ a \div Timeout \in Nat
    BY <1>5, RoomFacts
  <2>2. Room(w, a)' = 1 + a \div Timeout
    BY <1>4, <2>1 DEF Room
  <2>3. Room(w, a) = IF step[w] = "sent" THEN a \div Timeout ELSE 1 + a \div Timeout
    <3>1. /\ RoomOf("sent", 0, a) = a \div Timeout
          /\ RoomOf("unanswered", 0, a) = 1 + a \div Timeout
          /\ \A p \in {"connecting", "opening", "running"} :
               RoomOf(p, 0, a) = 1 + a \div Timeout
      BY RoomFacts
    <3>2. Room(w, a) = RoomOf(step[w], 0, a)
      BY <1>1 DEF Room
    <3>3. QED
      BY <1>1, <3>1, <3>2
  <2>4. DeniedWithin(a)' = DeniedWithin(a)
    BY <1>1 DEF DeniedWithin
  <2>5. DeniedWithin(a) \in Nat /\ late \in Nat
    BY LateType
  <2>6. QED
    BY <1>1, <2>1, <2>2, <2>3, <2>4, <2>5
<1>7. QED
  BY <1>4, <1>6, WorkerRoom

\* A late POST is handled: one row at most.
LEMMA HandleLateStep ==
  ASSUME IsFiniteSet(Workers), TypeInv, TypeInv', RoomInv, HandleLate
  PROVE  RoomInv'
<1>1. /\ late > 0 /\ late' = late - 1 /\ UNCHANGED <<step, timer>>
      /\ WriteRow("denied") \/ WriteRow("allowed") \/ UNCHANGED rows
  BY DEF HandleLate, Denies, Unavailable
<1>2. ASSUME NEW a \in 0 .. Window
      PROVE  DeniedWithin(a)' + late' <= Total(Rooms', a, Workers) + MaxLate
  <2>1. Rooms' = Rooms
    BY <1>1 DEF Rooms, Room
  <2>2. /\ DeniedWithin(a) \in Nat /\ late \in Nat
        /\ DeniedWithin(a)' <= DeniedWithin(a) + 1
    <3>1. /\ WriteRow("denied") => DeniedWithin(a)' <= DeniedWithin(a) + 1
          /\ WriteRow("allowed") \/ UNCHANGED rows => DeniedWithin(a)' = DeniedWithin(a)
      BY RowStep
    <3>2. DeniedWithin(a) \in Nat /\ late \in Nat
      BY LateType
    <3>3. QED
      BY <1>1, <3>1, <3>2
  <2>3. DeniedWithin(a)' \in Nat
    <3>1. rows' \in [0 .. Window -> Counts]
      BY DEF TypeInv
    <3>2. QED
      BY <3>1, DeniedType DEF DeniedWithin
  <2>4. DeniedWithin(a)' + late' <= DeniedWithin(a) + late
    BY <1>1, <2>2, <2>3
  <2>5. DeniedWithin(a) + late <= Total(Rooms, a, Workers) + MaxLate
    BY DEF RoomInv
  <2>6. Total(Rooms, a, Workers) \in Nat /\ MaxLate \in Nat
    <3>1. \A w \in Workers : Rooms[w][a] \in Nat
      BY RoomsType
    <3>2. QED
      BY <3>1, TotalRemove, Numbers
  <2>7. QED
    BY <1>1, <2>1, <2>2, <2>3, <2>4, <2>5, <2>6
<1>3. Waited'
  BY <1>1 DEF RoomInv, Waited
<1>4. QED
  BY <1>2, <1>3 DEF RoomInv

\* Time passes: what happened in the last a units of time happened in a - 1
\* before, and a worker that waits has so much less to wait.
LEMMA TickRoom ==
  ASSUME IsFiniteSet(Workers), TypeInv, TypeInv', RoomInv, Tick
  PROVE  RoomInv'
<1>1. /\ UNCHANGED <<step, attempt, late>> /\ \A w \in Workers : ~Due(w)
      /\ timer' = [w \in Workers |-> IF timer[w] > 0 THEN timer[w] - 1 ELSE 0]
      /\ rows' = [age \in 0 .. Window |->
                    IF age = 0 THEN [allowed |-> 0, denied |-> 0] ELSE rows[age - 1]]
  BY DEF Tick
<1>2. ASSUME NEW w \in Workers
      PROVE  /\ step'[w] = step[w] /\ timer[w] \in Nat /\ timer'[w] \in Nat
             /\ timer'[w] <= timer[w]
             /\ step[w] \in {"sent", "unanswered"} => timer[w] = timer'[w] + 1
  <2>1. timer[w] \in Nat
    BY DEF TypeInv
  <2>2. step[w] \in {"sent", "unanswered"} => timer[w] # 0
    BY <1>1 DEF Due, WaitingForAnswer
  <2>3. timer'[w] = IF timer[w] > 0 THEN timer[w] - 1 ELSE 0
    BY <1>1
  <2>4. QED
    BY <1>1, <2>1, <2>2, <2>3
<1>3. Waited'
  <2>1. ASSUME NEW w \in Workers, step'[w] \in {"sent", "unanswered"}
        PROVE  timer'[w] <= Timeout
    <3>1. timer[w] <= Timeout /\ timer[w] = timer'[w] + 1 /\ timer'[w] \in Nat
      BY <1>2, <2>1 DEF RoomInv, Waited
    <3>2. QED
      BY <3>1, Numbers
  <2>2. QED
    BY <2>1 DEF Waited
<1>4. ASSUME NEW a \in 0 .. Window
      PROVE  DeniedWithin(a)' + late' <= Total(Rooms', a, Workers) + MaxLate
  <2>1. /\ Total(Rooms', a, Workers) \in Nat /\ MaxLate \in Nat
        /\ \A w \in Workers : Rooms'[w][a] \in Nat
    <3>1. \A w \in Workers : Rooms'[w][a] \in Nat
      BY RoomsType
    <3>2. QED
      BY <3>1, TotalRemove, Numbers
  <2>2. DeniedWithin(a)' = IF a = 0 THEN 0 ELSE DeniedWithin(a - 1)
    <3>1. a \in Nat /\ Window \in Nat /\ \A i \in 0 .. a : i \in 0 .. Window
      BY Numbers
    <3>2. \A i \in 0 .. a : rows[i]["denied"] \in Nat /\ rows'[i]["denied"] \in Nat
      <4>1. rows \in [0 .. Window -> Counts] /\ rows' \in [0 .. Window -> Counts]
        BY DEF TypeInv
      <4>2. QED
        BY <3>1, <4>1, DeniedType
    <3>3. rows'[0]["denied"] = 0
      <4>1. 0 \in 0 .. Window
        BY <3>1
      <4>2. rows'[0] = [allowed |-> 0, denied |-> 0]
        BY <1>1, <4>1
      <4>3. QED
        BY <4>2
    <3>4. \A i \in 1 .. a : rows'[i]["denied"] = rows[i - 1]["denied"]
      <4>1. \A i \in 1 .. a : i \in 0 .. Window /\ i # 0
        BY <3>1
      <4>2. QED
        BY <1>1, <4>1
    <3>5. Total(rows', "denied", 0 .. a)
            = IF a = 0 THEN 0 ELSE Total(rows, "denied", 0 .. a - 1)
      BY <3>1, <3>2, <3>3, <3>4, TotalOlder
    <3>6. QED
      BY <3>5 DEF DeniedWithin
  <2>3. late' = late /\ late \in 0 .. MaxLate
    BY <1>1 DEF TypeInv
  <2>4. CASE a = 0
    BY <2>1, <2>2, <2>3, <2>4
  <2>5. CASE a # 0
    <3> DEFINE b == a - 1
    <3>1. b \in 0 .. Window /\ b \in Nat /\ a = b + 1 /\ a \in Nat
      BY <2>5, Numbers
    <3> HIDE DEF b
    <3>2. \A w \in Workers : Rooms[w][b] \in Nat /\ Rooms[w][b] <= Rooms'[w][a]
      <4>1. ASSUME NEW w \in Workers PROVE Rooms[w][b] \in Nat /\ Rooms[w][b] <= Rooms'[w][a]
        <5>1. /\ Rooms[w][b] \in Nat
              /\ Rooms[w][b] = RoomOf(step[w], timer[w], b)
              /\ Rooms'[w][a] = RoomOf(step[w], timer'[w], a)
          BY <1>2, <3>1, RoomsType DEF Room
        <5>2. timer[w] \in Nat /\ timer'[w] \in Nat /\ Timeout \in Nat \ {0}
          BY <1>2, Numbers
        <5>3. b \div Timeout <= a \div Timeout
              /\ b \div Timeout \in Nat /\ a \div Timeout \in Nat
          <6>1. b <= a
            BY <3>1
          <6>2. QED
            BY <3>1, <5>2, <6>1, Division
        <5>4. CASE step[w] \in {"sent", "unanswered"}
          <6>1. b + timer[w] = a + timer'[w]
            BY <1>2, <3>1, <5>2, <5>4
          <6>2. RoomOf(step[w], timer[w], b) = RoomOf(step[w], timer'[w], a)
            BY <5>4, <6>1 DEF RoomOf
          <6>3. QED
            BY <5>1, <6>2
        <5>5. CASE step[w] \notin {"sent", "unanswered"}
          BY <5>1, <5>3, <5>5 DEF RoomOf
        <5>6. QED
          BY <5>4, <5>5
      <4>2. QED
        BY <4>1
    <3>3. Total(Rooms, b, Workers) <= Total(Rooms', a, Workers)
      BY <2>1, <3>2, TotalLess
    <3>4. Total(Rooms, b, Workers) \in Nat
      BY <3>2, TotalRemove
    <3>5. DeniedWithin(b) + late <= Total(Rooms, b, Workers) + MaxLate
      BY <3>1 DEF RoomInv
    <3>6. DeniedWithin(a)' = DeniedWithin(b)
      BY <2>2, <2>5 DEF b
    <3>7. DeniedWithin(b) \in Nat
      BY <3>1, LateType
    <3>8. QED
      BY <2>1, <2>3, <3>3, <3>4, <3>5, <3>6, <3>7
  <2>6. QED
    BY <2>4, <2>5
<1>5. QED
  BY <1>3, <1>4 DEF RoomInv

LEMMA InitRoom ==
  ASSUME IsFiniteSet(Workers), TypeInv, Init
  PROVE  RoomInv
<1>1. ASSUME NEW a \in 0 .. Window
      PROVE  DeniedWithin(a) + late <= Total(Rooms, a, Workers) + MaxLate
  <2>1. /\ IsFiniteSet(0 .. a) /\ a \in Nat
        /\ \A i \in 0 .. a : rows[i]["denied"] = 0
    <3>1. a \in Nat /\ \A i \in 0 .. a : i \in 0 .. Window
      BY Numbers
    <3>2. QED
      BY <3>1, FS_Interval DEF Init
  <2>2. DeniedWithin(a) <= Cardinality(0 .. a) * 0
    <3>1. \A i \in 0 .. a : rows[i]["denied"] \in Nat /\ rows[i]["denied"] <= 0
      BY <2>1
    <3>2. 0 \in Nat
      OBVIOUS
    <3>3. QED
      BY <2>1, <3>1, <3>2, TotalAtMost DEF DeniedWithin
  <2>3. Cardinality(0 .. a) \in Nat /\ DeniedWithin(a) \in Nat /\ MaxLate \in Nat
    BY <2>1, FS_CardinalityType, LateType
  <2>4. late = 0
    BY DEF Init
  <2>5. Total(Rooms, a, Workers) \in Nat
    <3>1. \A w \in Workers : Rooms[w][a] \in Nat
      <4>1. \A w \in Workers : timer[w] \in Nat
        BY DEF TypeInv
      <4>2. QED
        BY <4>1, RoomType DEF Rooms, Room
    <3>2. QED
      BY <3>1, TotalRemove
  <2>6. DeniedWithin(a) = 0
    BY <2>2, <2>3
  <2>7. QED
    BY <2>3, <2>4, <2>5, <2>6
<1>2. Waited
  BY Numbers DEF Init, Waited
<1>3. QED
  BY <1>1, <1>2 DEF RoomInv

LEMMA NextRoom ==
  ASSUME ~RefusalHeard, IsFiniteSet(Workers)
  PROVE  TypeInv /\ TypeInv' /\ RoomInv /\ [Next]_vars => RoomInv'
<1> SUFFICES ASSUME TypeInv, TypeInv', RoomInv, [Next]_vars PROVE RoomInv'
  OBVIOUS
<1>1. CASE UNCHANGED vars
  BY <1>1 DEF vars, RoomInv, Waited, DeniedWithin, Rooms, Room
<1>2. ASSUME NEW w \in Workers, Call(w) \/ Retry(w) \/ Connects(w) \/ SessionOpens(w)
      PROVE  RoomInv'
  <2>1. step[w] \in Plain /\ UNCHANGED <<late, rows>>
    BY <1>2 DEF Call, Retry, Connects, SessionOpens, Plain
  <2>2. PICK s \in Plain \cup {"sent"}, t \in {SdkTimeout, Timeout} :
          Goto(w, s, t) /\ (s = "sent" => t = Timeout)
    BY <1>2 DEF Call, Retry, Connects, SessionOpens, Plain
  <2>3. QED
    BY <2>1, <2>2, PlainStep
<1>3. ASSUME NEW w \in Workers, SessionFails(w) \/ ToolFails(w) \/ ToolAnswers(w)
      PROVE  RoomInv'
  <2>1. /\ step[w] \in Plain /\ UNCHANGED <<late, rows>>
        /\ Conclude(w) \/ AttemptFails(w)
    BY <1>3 DEF SessionFails, ToolFails, ToolAnswers, Plain
  <2>2. PICK s \in {"idle", "backoff"} : \E t : Goto(w, s, t)
    BY <2>1, EndsAt
  <2>3. PICK t : Goto(w, s, t)
    BY <2>2
  <2>4. s \in Plain \cup {"sent"} /\ s # "sent"
    BY DEF Plain
  <2>5. QED
    BY <2>1, <2>3, <2>4, PlainStep
<1>4. ASSUME NEW w \in Workers, Handle(w) PROVE RoomInv'
  BY <1>4, HandleStep
<1>5. ASSUME NEW w \in Workers, TimesOut(w) PROVE RoomInv'
  BY <1>5, TimesOutStep
<1>6. CASE HandleLate
  BY <1>6, HandleLateStep
<1>7. CASE Tick
  BY <1>7, TickRoom
<1>8. QED
  BY <1>1, <1>2, <1>3, <1>4, <1>5, <1>6, <1>7 DEF Next

\* Refusals alone never keep the workers out of a window that is wide enough
\* for the POSTs their attempts can send within it and the late ones: a window
\* that refuses calls holds one it let through (rate_limiter.py,
\* is_rate_limited; mcp_client.py, call_tool_with_retry).
THEOREM NoLockoutWhenWide ==
  ASSUME IsFiniteSet(Workers), ~RefusalHeard,
         Limit > Cardinality(Workers) * (2 + Window \div Timeout) + MaxLate
  PROVE  Spec => []NoLockout
<1>1. Init => RoomInv
  BY InitInv, InitRoom
<1>2. TypeInv /\ TypeInv' /\ RoomInv /\ [Next]_vars => RoomInv'
  BY NextRoom
<1>3. TypeInv /\ RoomInv => NoLockout
  <2> SUFFICES ASSUME TypeInv, RoomInv, IsRateLimited, ~(Allowed > 0) PROVE FALSE
    BY DEF NoLockout
  <2> DEFINE c == 2 + Window \div Timeout
  <2>1. /\ Window \in 0 .. Window /\ Window \in Nat /\ Timeout \in Nat \ {0}
        /\ Limit \in Nat /\ MaxLate \in Nat
        /\ Window \div Timeout \in Nat /\ Cardinality(Workers) \in Nat
    <3>1. /\ Window \in 0 .. Window /\ Window \in Nat /\ Timeout \in Nat \ {0}
          /\ Limit \in Nat /\ MaxLate \in Nat
      BY Numbers
    <3>2. Window \div Timeout \in Nat
      BY <3>1, Division
    <3>3. QED
      BY <3>1, <3>2, FS_CardinalityType
  <2>2. \A w \in Workers : Rooms[w][Window] \in Nat /\ Rooms[w][Window] <= c
    <3>1. ASSUME NEW w \in Workers PROVE Rooms[w][Window] \in Nat /\ Rooms[w][Window] <= c
      <4>1. timer[w] \in Nat /\ step[w] \in Steps
        BY DEF TypeInv
      <4>2. /\ RoomOf(step[w], timer[w], Window) \in Nat
            /\ Rooms[w][Window] = RoomOf(step[w], timer[w], Window)
        BY <2>1, <4>1, RoomType DEF Rooms, Room
      <4>3. /\ RoomOf("unanswered", timer[w], Window) = RoomOf("sent", timer[w], Window) + 1
            /\ timer[w] <= Timeout =>
                 RoomOf("sent", timer[w], Window) <= 1 + Window \div Timeout
            /\ \A s \in Plain : RoomOf(s, timer[w], Window) = 1 + Window \div Timeout
            /\ RoomOf("sent", timer[w], Window) \in Nat
        BY <2>1, <4>1, RoomFacts, RoomType DEF Plain
      <4>4. step[w] \in {"sent", "unanswered"} => timer[w] <= Timeout
        BY DEF RoomInv, Waited
      <4>5. CASE step[w] \in Plain
        BY <2>1, <4>2, <4>3, <4>5
      <4>6. CASE step[w] = "sent"
        BY <2>1, <4>2, <4>3, <4>4, <4>6
      <4>7. CASE step[w] = "unanswered"
        BY <2>1, <4>2, <4>3, <4>4, <4>7
      <4>8. QED
        BY <4>1, <4>5, <4>6, <4>7 DEF Steps, Plain
    <3>2. QED
      BY <3>1
  <2>3. c \in Nat
    BY <2>1
  <2> HIDE DEF c
  <2>4. Total(Rooms, Window, Workers) <= Cardinality(Workers) * c
    BY <2>2, <2>3, TotalAtMost
  <2>5. Total(Rooms, Window, Workers) \in Nat /\ Cardinality(Workers) * c \in Nat
    BY <2>1, <2>2, <2>3, TotalRemove
  <2>6. DeniedWithin(Window) + late <= Total(Rooms, Window, Workers) + MaxLate
    BY <2>1 DEF RoomInv
  <2>7. DeniedWithin(Window) \in Nat /\ late \in Nat
    BY <2>1, LateType
  <2>8. Denied = DeniedWithin(Window) /\ Allowed = Total(rows, "allowed", 0 .. Window)
    BY DEF Denied, Allowed, Recent, DeniedWithin, Total
  <2>9. Allowed \in Nat
    <3>1. \A i \in 0 .. Window : rows[i]["allowed"] \in Nat
      BY <2>1 DEF TypeInv, Counts
    <3>2. QED
      BY <2>1, <2>8, <3>1, TotalTo
  <2>10. Allowed + Denied >= Limit
    BY DEF IsRateLimited
  <2>11. Limit > Cardinality(Workers) * c + MaxLate
    BY DEF c
  <2>12. QED
    BY <2>1, <2>4, <2>5, <2>6, <2>7, <2>8, <2>9, <2>10, <2>11
<1>4. QED
  BY <1>1, <1>2, <1>3, Invariant, PTL DEF Spec
=============================================================================
