---------------------------- MODULE TracingProofs ---------------------------
(***************************************************************************)
(* Proofs about Tracing, however often the SDK fails.                      *)
(***************************************************************************)
EXTENDS Tracing, TLAPS

Active(b) == block[b] \in {"spawned", "running"}

\* What is current while b runs and nothing of the worker runs inside it.
Here(b) ==
  IF b \in holds THEN b ELSE IF b = "claim" THEN None ELSE Nearest(b)

\* The blocks that run are nested as in the program, the worker is in one of
\* them at a time, and the Supreme Court comes after the judges.
Nested ==
  /\ \A b \in Blocks : block[b] = "spawned" => b \in Judges
  /\ \A b \in Blocks \ {"claim"} : Active(b) => block[Outer(b)] = "running"
  /\ \A b \in Blocks \ {"claim"} : block[b] # "idle" => block[Outer(b)] \notin {"idle", "spawned"}
  /\ \A b, c \in Blocks \ Judges :
       block[b] = "running" /\ block[c] = "running" /\ Outer(b) = Outer(c) => b = c
  /\ block["court"] # "idle" => \A j \in Judges : Gone(j)

\* Blocks that hold an observation hold the one the SDK has open.
Open ==
  /\ \A b \in Blocks : span[b] = "open" <=> b \in holds /\ block[b] = "running"
  /\ \A b \in holds : block[b] \notin {"idle", "spawned"}
  /\ \A b \in holds : parent[b] = IF b = "claim" THEN None ELSE Nearest(b)

\* The context of the worker, and that of a judge about to begin.
Context ==
  /\ block["claim"] # "running" => current["worker"] = None
  /\ \A b \in Blocks \ Judges :
       block[b] = "running" /\ (\A s \in Inner(b) \ Judges : block[s] # "running") =>
         current["worker"] = Here(b)
  /\ \A j \in Judges : block[j] = "spawned" => current[j] = Nearest(j)

Ended == \A b \in faults : Gone(b)

Inv == TypeOK /\ Nested /\ Open /\ Context /\ Ended /\ ErrorIffFailed /\ SameAsUntraced

LEMMA Tree ==
  \A b \in Blocks \ {"claim"} :
    /\ Outer(b) \in Blocks \ Judges /\ Outer(b) # b /\ b \in Inner(Outer(b))
    /\ Outer(b) # "claim" => Outer(Outer(b)) = "claim"
  BY DEF Outer, Inner, Blocks, Steps, Judges

LEMMA InnerIs == \A b \in Blocks : \A s \in Inner(b) : s \in Blocks \ {"claim"} /\ Outer(s) = b
  BY DEF Outer, Inner, Blocks, Steps, Judges, None

\* While anything of a claim runs, its outermost block does.
LEMMA ClaimRuns ==
  ASSUME Nested, NEW b \in Blocks \ {"claim"}, Active(b)
  PROVE  block["claim"] = "running"
<1>1. block[Outer(b)] = "running"
  BY DEF Nested
<1>2. CASE Outer(b) = "claim"
  BY <1>1, <1>2
<1>3. CASE Outer(b) # "claim"
  <2>1. Outer(b) \in Blocks \ {"claim"} /\ Active(Outer(b)) /\ Outer(Outer(b)) = "claim"
    BY <1>1, <1>3, Tree DEF Active
  <2>2. QED
    BY <2>1 DEF Nested
<1>4. QED
  BY <1>2, <1>3

LEMMA InitInv == Init => Inv
<1> SUFFICES ASSUME Init PROVE Inv
  OBVIOUS
<1>0. /\ {"claim", "court"} \cup Judges \subseteq Blocks
      /\ Tasks = {"worker"} \cup Judges
      /\ \A b \in Blocks : block[b] = "idle" /\ span[b] = "none"
  BY DEF Init, Blocks, Tasks
<1>1. TypeOK
  <2>1. client \in BOOLEAN /\ cancelled \in BOOLEAN
    BY Zenon DEF Init
  <2>2. /\ block \in [Blocks -> {"idle", "spawned", "running"} \cup Finished]
        /\ span \in [Blocks -> {"none", "open", "ended", "error"}]
        /\ parent \in [Blocks -> Blocks \cup {None}]
        /\ current \in [Tasks -> Blocks \cup {None}]
    BY DEF Init
  <2>3. failures \in 0 .. MaxFailures
    BY TracingAssumption DEF Init
  <2>4. QED
    BY <2>1, <2>2, <2>3 DEF Init, TypeOK
<1>2. Nested
  BY <1>0, Tree DEF Nested, Active
<1>3. Open /\ Context /\ Ended
  BY <1>0 DEF Init, Open, Context, Ended
<1>4. ErrorIffFailed /\ SameAsUntraced
  BY DEF Init, ErrorIffFailed, SameAsUntraced
<1>5. QED
  BY <1>1, <1>2, <1>3, <1>4 DEF Inv

\* A block ends: nothing runs inside it, and what encloses it runs on.
LEMMA LeaveType ==
  ASSUME Inv, NEW b \in Blocks, NEW end \in Finished, NEW marked, Innermost(b),
         Leave(b, end, marked)
  PROVE  /\ block' = [block EXCEPT ![b] = end]
         /\ block' \in [Blocks -> {"idle", "spawned", "running"} \cup Finished]
         /\ span' \in [Blocks -> {"none", "open", "ended", "error"}]
         /\ parent' = parent /\ holds' = holds
         /\ current' \in [Tasks -> Blocks \cup {None}]
         /\ failures' \in 0 .. MaxFailures
         /\ lost \subseteq lost' /\ lost' \subseteq lost \cup {b} /\ lost' \subseteq holds
         /\ holds \subseteq {c \in Blocks : span'[c] # "none"}
<1>1. /\ block' = [block EXCEPT ![b] = end] /\ parent' = parent /\ holds' = holds
      /\ block \in [Blocks -> {"idle", "spawned", "running"} \cup Finished]
  BY DEF Inv, TypeOK, Leave
<1>2. parent[b] \in Blocks \cup {None} /\ Task(b) \in Tasks
  BY DEF Inv, TypeOK, Task, Tasks
<1>3. CASE b \notin holds
  BY <1>1, <1>3 DEF Inv, TypeOK, Leave
<1>4. CASE b \in holds
  <2>1. current' = [current EXCEPT ![Task(b)] = parent[b]]
    BY <1>4 DEF Leave
  <2>2. /\ span' = [span EXCEPT ![b] = "error"] \/ span' = [span EXCEPT ![b] = "ended"]
        /\ (failures' = failures /\ lost' = lost) \/ (Fails /\ lost' = lost \cup {b})
    BY <1>4 DEF Leave
  <2>3. failures' \in 0 .. MaxFailures
    BY <2>2, TracingAssumption DEF Fails, Inv, TypeOK
  <2>4. QED
    BY <1>1, <1>2, <1>4, <2>1, <2>2, <2>3 DEF Inv, TypeOK
<1>5. QED
  BY <1>3, <1>4

LEMMA LeaveNested ==
  ASSUME Inv, NEW b \in Blocks, NEW end \in Finished, NEW marked, Innermost(b),
         Leave(b, end, marked)
  PROVE  Nested'
<1>1. /\ block' = [block EXCEPT ![b] = end] /\ block[b] = "running"
      /\ block \in [Blocks -> {"idle", "spawned", "running"} \cup Finished]
      /\ end \notin {"idle", "spawned", "running"}
  BY DEF Inv, TypeOK, Leave, Innermost, Finished, Raised
<1>2. ASSUME NEW c \in Blocks \ {"claim"}, Active(c)' PROVE block'[Outer(c)] = "running"
  <2>1. c # b /\ Active(c) /\ block[Outer(c)] = "running" /\ Outer(c) \in Blocks
    BY <1>1, <1>2, Tree DEF Active, Inv, Nested
  <2>2. Outer(c) # b
    <3>1. SUFFICES ASSUME Outer(c) = b PROVE FALSE
      OBVIOUS
    <3>2. CASE c \in Judges
      BY <2>1, <3>1, <3>2 DEF Outer, Judges, Innermost, JudgesDone, Active, Finished, Raised
    <3>3. CASE c \notin Judges
      BY <2>1, <3>1, <3>3, Tree DEF Innermost, Active, Inv, Nested
    <3>4. QED
      BY <3>2, <3>3
  <2>3. QED
    BY <1>1, <2>1, <2>2
<1>3. \A c \in Blocks : block'[c] = "spawned" => c \in Judges
  BY <1>1 DEF Inv, Nested
<1>4. \A c \in Blocks \ {"claim"} : block'[c] # "idle" => block'[Outer(c)] \notin {"idle", "spawned"}
  BY <1>1, Tree DEF Inv, Nested
<1>5. \A c, d \in Blocks \ Judges :
        block'[c] = "running" /\ block'[d] = "running" /\ Outer(c) = Outer(d) => c = d
  BY <1>1 DEF Inv, Nested
<1>6. block'["court"] # "idle" => \A j \in Judges : Gone(j)'
  BY <1>1 DEF Inv, Nested, Gone, Judges, Blocks
<1>7. QED
  BY <1>2, <1>3, <1>4, <1>5, <1>6 DEF Nested

LEMMA LeaveOpen ==
  ASSUME Inv, NEW b \in Blocks, NEW end \in Finished, NEW marked, Innermost(b),
         Leave(b, end, marked)
  PROVE  Open'
<1>1. /\ block' = [block EXCEPT ![b] = end] /\ block[b] = "running"
      /\ block \in [Blocks -> {"idle", "spawned", "running"} \cup Finished]
      /\ span \in [Blocks -> {"none", "open", "ended", "error"}]
      /\ end \notin {"idle", "spawned", "running"}
      /\ parent' = parent /\ holds' = holds /\ holds \subseteq Blocks
  BY DEF Inv, TypeOK, Leave, Innermost, Finished, Raised
<1>2. \A c \in Blocks : span'[c] = "open" <=> c \in holds' /\ block'[c] = "running"
  <2>1. CASE b \in holds
    <3>1. span' = [span EXCEPT ![b] = "error"] \/ span' = [span EXCEPT ![b] = "ended"]
      BY <2>1 DEF Leave
    <3>2. QED
      BY <1>1, <3>1 DEF Inv, Open
  <2>2. CASE b \notin holds
    <3>1. span' = span
      BY <2>2 DEF Leave
    <3>2. QED
      BY <1>1, <2>2, <3>1 DEF Inv, Open
  <2>3. QED
    BY <2>1, <2>2
<1>3. \A c \in holds' : block'[c] \notin {"idle", "spawned"}
  BY <1>1 DEF Inv, Open
<1>4. \A c \in holds' : parent'[c] = IF c = "claim" THEN None ELSE Nearest(c)'
  BY <1>1 DEF Inv, Open, Nearest
<1>5. QED
  BY <1>2, <1>3, <1>4 DEF Open

LEMMA LeaveContext ==
  ASSUME Inv, NEW b \in Blocks, NEW end \in Finished, NEW marked, Innermost(b),
         Leave(b, end, marked)
  PROVE  Context'
<1>1. /\ block' = [block EXCEPT ![b] = end] /\ block[b] = "running"
      /\ block \in [Blocks -> {"idle", "spawned", "running"} \cup Finished]
      /\ current \in [Tasks -> Blocks \cup {None}]
      /\ end \notin {"idle", "spawned", "running"}
      /\ parent' = parent /\ holds' = holds /\ holds \subseteq Blocks
  BY DEF Inv, TypeOK, Leave, Innermost, Finished, Raised
<1>2. \A c : Here(c)' = Here(c) /\ Nearest(c)' = Nearest(c)
  BY <1>1 DEF Here, Nearest
<1>3. CASE b \in Judges
  <2>1. current'["worker"] = current["worker"] /\ \A j \in Judges \ {b} : current'[j] = current[j]
    BY <1>1, <1>3 DEF Leave, Task, Judges, Tasks
  <2>2. \A c \in Blocks \ Judges : block'[c] = block[c]
    BY <1>1, <1>3
  <2>3. "claim" \in Blocks \ Judges /\ \A c \in Blocks : Inner(c) \ Judges \subseteq Blocks \ Judges
    BY DEF Blocks, Judges, Inner, Steps
  <2>4. \A j \in Judges : j \in Blocks /\ (block'[j] = "spawned" => j # b /\ block[j] = "spawned")
    BY <1>1 DEF Blocks
  <2>5. \A c \in Blocks \ Judges :
          block'[c] = "running" /\ (\A s \in Inner(c) \ Judges : block'[s] # "running") =>
            current'["worker"] = Here(c)'
    BY <1>2, <2>1, <2>2, <2>3 DEF Inv, Context
  <2>6. QED
    BY <1>2, <2>1, <2>2, <2>3, <2>4, <2>5 DEF Inv, Context
<1>4. CASE b \notin Judges
  <2>1. current["worker"] = Here(b)
    BY <1>1, <1>4 DEF Innermost, Inv, Context
  <2>2. /\ \A j \in Judges : current'[j] = current[j]
        /\ current'["worker"] = IF b = "claim" THEN None ELSE Nearest(b)
    BY <1>1, <1>4, <2>1 DEF Leave, Task, Judges, Tasks, Inv, Open, Here
  <2>3. \A j \in Judges : j \in Blocks /\ (block'[j] = "spawned" => block[j] = "spawned")
    BY <1>1 DEF Blocks
  <2>4. \A j \in Judges : block'[j] = "spawned" => current'[j] = Nearest(j)'
    BY <1>2, <2>2, <2>3 DEF Inv, Context
  <2>5. ASSUME NEW c \in Blocks \ Judges, block'[c] = "running",
               \A s \in Inner(c) \ Judges : block'[s] # "running"
        PROVE  b # "claim" /\ c = Outer(b)
    <3>1. c # b /\ block[c] = "running"
      BY <1>1, <2>5
    <3>2. QED
      BY <1>1, <1>4, <2>5, <3>1 DEF Inv, Nested, Active, Outer, Inner, Blocks, Steps, Judges, Innermost
  <2>6. b # "claim" => Nearest(b) = Here(Outer(b))
    BY Tree DEF Here, Nearest
  <2>7. \A c \in Blocks \ Judges :
          block'[c] = "running" /\ (\A s \in Inner(c) \ Judges : block'[s] # "running") =>
            current'["worker"] = Here(c)'
    BY <1>2, <2>2, <2>5, <2>6
  <2>8. block'["claim"] # "running" => current'["worker"] = None
    <3>1. "claim" \in Blocks
      BY DEF Blocks
    <3>2. Nested /\ Active(b)
      BY <1>1 DEF Inv, Active
    <3>3. b # "claim" => block["claim"] = "running"
      BY <3>2, ClaimRuns
    <3>4. QED
      BY <1>1, <2>2, <3>1, <3>3
  <2>9. QED
    BY <2>4, <2>7, <2>8 DEF Context
<1>5. QED
  BY <1>3, <1>4
----------------------------------------------------------------------------
(* What the application has done and what the trace shows of it.           *)

\* A block ends as `end` with an error marked if it failed.
LEMMA LeaveShows ==
  ASSUME Inv, NEW b \in Blocks, NEW end \in Finished, NEW marked \in BOOLEAN, Innermost(b),
         Leave(b, end, marked), faults' = faults \/ faults' = faults \cup {b},
         end \in Raised \/ marked <=> end \in Raised \/ b \in faults'
  PROVE  ErrorIffFailed' /\ Ended'
<1>1. /\ block' = [block EXCEPT ![b] = end] /\ block[b] = "running"
      /\ block \in [Blocks -> {"idle", "spawned", "running"} \cup Finished]
      /\ span \in [Blocks -> {"none", "open", "ended", "error"}]
      /\ holds' = holds /\ holds \subseteq Blocks /\ faults \subseteq Blocks
      /\ lost \subseteq lost' /\ "running" \notin Finished
  BY LeaveType DEF Inv, TypeOK, Leave, Innermost, Finished, Raised
<1>2. Ended'
  BY <1>1 DEF Inv, Ended, Gone
<1>3. ASSUME NEW c \in holds' \ lost', block'[c] \in Finished
      PROVE  span'[c] = "error" <=> block'[c] \in Raised \/ c \in faults'
  <2>1. CASE c = b
    <3>1. span' = [span EXCEPT ![b] = IF Marks(end, marked) THEN "error" ELSE "ended"]
      BY <1>1, <1>3, <2>1 DEF Leave
    <3>2. QED
      BY <1>1, <2>1, <3>1 DEF Marks
  <2>2. CASE c # b
    <3>1. span'[c] = span[c] /\ block'[c] = block[c] /\ (c \in faults' <=> c \in faults)
      BY <1>1, <2>2 DEF Leave
    <3>2. c \in holds \ lost
      BY <1>1, <1>3
    <3>3. QED
      BY <1>3, <3>1, <3>2 DEF Inv, ErrorIffFailed
  <2>3. QED
    BY <2>1, <2>2
<1>4. QED
  BY <1>2, <1>3 DEF ErrorIffFailed

\* Of a block that ends, an exception comes from the application or from
\* inside, and a return leaves nothing behind that had to come through.
LEMMA LeaveSame ==
  ASSUME Inv, NEW b \in Blocks, NEW end \in Finished, Active(b),
         block' = [block EXCEPT ![b] = end], cancelled' = cancelled,
         faults' = faults \/ faults' = faults \cup {b},
         end = "raised" => b \in faults' \/ \E s \in Inner(b) : block[s] = "raised" /\ ~Caught(s),
         end = "cancelled" => cancelled,
         end = "returned" =>
           /\ Proceeds(b)
           /\ b \in faults' => b \in Judges \cup {"court", "verify"}
  PROVE  SameAsUntraced'
<1>1. block \in [Blocks -> {"idle", "spawned", "running"} \cup Finished]
      /\ "running" \notin Finished /\ b \notin faults /\ block[b] \notin Finished
  BY DEF Active, Inv, TypeOK, Finished, Raised, Ended, Gone
<1>2. ASSUME NEW c \in Blocks, Gone(c), c # b
      PROVE  \A s \in Inner(c) : block'[s] = block[s] /\ Caught(s)' = Caught(s)
                                 /\ MayBeCaught(s)' = MayBeCaught(s)
  <2>1. ASSUME NEW s \in Inner(c) PROVE s # b /\ s \in Blocks
    <3>1. s \in Blocks \ {"claim"} /\ Outer(s) = c
      BY InnerIs
    <3>2. QED
      BY <1>1, <1>2, <3>1 DEF Inv, Nested, Active, Gone
  <2>2. QED
    BY <1>1, <2>1 DEF Caught, MayBeCaught
<1>3. \A s \in Inner(b) : block'[s] = block[s] /\ Caught(s)' = Caught(s)
                          /\ MayBeCaught(s)' = MayBeCaught(s)
  <2>1. \A s \in Inner(b) : s # b /\ s \in Blocks
    BY InnerIs, Tree
  <2>2. QED
    BY <1>1, <2>1 DEF Caught, MayBeCaught
<1>4. Proceeds(b)' <=> Proceeds(b)
  BY <1>3 DEF Proceeds
<1>5. \A c \in Blocks : Gone(c) /\ c # b => (Proceeds(c)' <=> Proceeds(c))
  BY <1>2 DEF Proceeds
<1>6. ASSUME NEW c \in Blocks
      PROVE  /\ block'[c] = "raised" =>
                  c \in faults' \/ \E s \in Inner(c) : block'[s] = "raised" /\ ~Caught(s)'
             /\ block'[c] = "cancelled" => cancelled'
             /\ block'[c] = "returned" =>
                  /\ c \in faults' => c \in Judges \cup {"court", "verify"}
                  /\ Proceeds(c)'
  <2>1. CASE c = b
    BY <1>1, <1>3, <1>4, <2>1
  <2>2. CASE c # b /\ Gone(c)
    <3>1. block'[c] = block[c] /\ (c \in faults' <=> c \in faults)
      BY <1>1, <2>2
    <3>2. QED
      BY <1>2, <1>5, <2>2, <3>1 DEF Inv, SameAsUntraced
  <2>3. CASE c # b /\ ~Gone(c)
    BY <1>1, <2>3 DEF Gone, Finished, Raised
  <2>4. QED
    BY <2>1, <2>2, <2>3
<1>7. QED
  BY <1>6 DEF SameAsUntraced

----------------------------------------------------------------------------
(* A block begins.                                                         *)

\* The with statement of an observation, in the worker or in a judge's task.
LEMMA Starting ==
  ASSUME Inv, NEW b \in Blocks \ {"claim"}, Traced(b) \/ Untraced(b),
         UNCHANGED <<client, lost, faults, cancelled>>,
         block[b] \in {"idle", "spawned"}
  PROVE  /\ TypeOK' /\ Ended' /\ ErrorIffFailed'
         /\ block' = [block EXCEPT ![b] = "running"]
         /\ holds' = holds \/ holds' = holds \cup {b}
         /\ b \notin holds
<1>1. /\ block \in [Blocks -> {"idle", "spawned", "running"} \cup Finished]
      /\ span \in [Blocks -> {"none", "open", "ended", "error"}]
      /\ parent \in [Blocks -> Blocks \cup {None}]
      /\ current \in [Tasks -> Blocks \cup {None}]
      /\ holds \subseteq {c \in Blocks : span[c] # "none"} /\ lost \subseteq holds
      /\ faults \subseteq Blocks /\ \A c \in faults : Gone(c)
  BY DEF Inv, TypeOK, Ended
<1>2. block' = [block EXCEPT ![b] = "running"] /\ b \notin holds /\ b \notin faults
  BY <1>1 DEF Traced, Untraced, Inv, Open, Gone, Finished, Raised
<1>3. /\ \/ holds' = holds /\ span' = span
         \/ holds' = holds \cup {b} /\ span' = [span EXCEPT ![b] = "open"]
      /\ parent' \in [Blocks -> Blocks \cup {None}]
      /\ current' \in [Tasks -> Blocks \cup {None}]
  <2>1. Task(b) \in Tasks
    BY DEF Task, Tasks
  <2>2. QED
    BY <1>1, <2>1 DEF Traced, Untraced
<1>4. failures' \in 0 .. MaxFailures
  BY TracingAssumption DEF Traced, Untraced, Fails, Inv, TypeOK
<1>5. Ended'
  BY <1>1, <1>2 DEF Ended, Gone, Finished, Raised
<1>6. client' \in BOOLEAN /\ cancelled' \in BOOLEAN
  BY Zenon DEF Inv, TypeOK
<1>7. /\ block' \in [Blocks -> {"idle", "spawned", "running"} \cup Finished]
      /\ span' \in [Blocks -> {"none", "open", "ended", "error"}]
      /\ holds' \subseteq {c \in Blocks : span'[c] # "none"} /\ lost' \subseteq holds'
      /\ faults' \subseteq {c \in Blocks : block'[c] # "idle"}
  BY <1>1, <1>2, <1>3 DEF Gone, Finished, Raised
<1>8. TypeOK'
  BY <1>3, <1>4, <1>6, <1>7 DEF TypeOK
<1>9. ErrorIffFailed'
  <2>1. ASSUME NEW c \in holds' \ lost', block'[c] \in Finished
        PROVE  span'[c] = "error" <=> block'[c] \in Raised \/ c \in faults'
    <3>1. c # b /\ c \in holds \ lost
      BY <1>1, <1>2, <1>3, <2>1 DEF Finished, Raised
    <3>2. block'[c] = block[c] /\ span'[c] = span[c]
      BY <1>1, <1>2, <1>3, <3>1
    <3>3. QED
      BY <2>1, <3>1, <3>2 DEF Inv, ErrorIffFailed
  <2>2. QED
    BY <2>1 DEF ErrorIffFailed
<1>10. QED
  BY <1>2, <1>3, <1>5, <1>8, <1>9

\* Blocks that begin or are cancelled before say nothing about those that have ended.
LEMMA StartSame ==
  ASSUME Inv, block' \in [Blocks -> {"idle", "spawned", "running"} \cup Finished],
         \A c \in Blocks : block'[c] # block[c] =>
           /\ c # "claim" /\ block[Outer(c)] = "running"
           /\ ~Gone(c) /\ block'[c] \notin Finished,
         UNCHANGED <<faults, cancelled>>
  PROVE  SameAsUntraced'
<1>1. ASSUME NEW c \in Blocks, block'[c] \in Finished
      PROVE  block'[c] = block[c] /\ \A s \in Inner(c) : block'[s] = block[s]
  <2>1. block'[c] = block[c]
    BY <1>1
  <2>2. ASSUME NEW s \in Inner(c) PROVE block'[s] = block[s]
    <3>1. s \in Blocks /\ Outer(s) = c
      BY InnerIs
    <3>2. block[Outer(s)] # "running"
      BY <1>1, <2>1, <3>1 DEF Finished, Raised
    <3>3. QED
      BY <3>1, <3>2
  <2>3. QED
    BY <2>1, <2>2
<1>2. ASSUME NEW c \in Blocks
      PROVE  /\ block'[c] = "raised" =>
                  c \in faults' \/ \E s \in Inner(c) : block'[s] = "raised" /\ ~Caught(s)'
             /\ block'[c] = "cancelled" => cancelled'
             /\ block'[c] = "returned" =>
                  /\ c \in faults' => c \in Judges \cup {"court", "verify"}
                  /\ Proceeds(c)'
  <2>1. CASE block'[c] \in Finished
    <3>1. \A s \in Inner(c) : (Caught(s)' <=> Caught(s)) /\ (MayBeCaught(s)' <=> MayBeCaught(s))
      BY <1>1, <2>1 DEF Caught, MayBeCaught
    <3>2. Proceeds(c)' <=> Proceeds(c)
      BY <1>1, <2>1, <3>1 DEF Proceeds
    <3>3. QED
      BY <1>1, <2>1, <3>1, <3>2 DEF Inv, SameAsUntraced
  <2>2. CASE block'[c] \notin Finished
    BY <2>2 DEF Finished, Raised
  <2>3. QED
    BY <2>1, <2>2
<1>3. QED
  BY <1>2 DEF SameAsUntraced
\* The worker is inside one block at a time.
LEMMA OneInnermost ==
  ASSUME Nested, NEW b \in Blocks \ Judges, NEW c \in Blocks \ Judges,
         block[b] = "running", \A s \in Inner(b) \ Judges : block[s] # "running",
         block[c] = "running", \A s \in Inner(c) \ Judges : block[s] # "running"
  PROVE  b = c
<1>1. b # "claim" => block[Outer(b)] = "running"
  BY DEF Nested, Active
<1>2. c # "claim" => block[Outer(c)] = "running"
  BY DEF Nested, Active
<1>3. QED
  BY <1>1, <1>2 DEF Nested, Active, Outer, Inner, Blocks, Steps, Judges

\* A block of the worker begins.
LEMMA EnterTree ==
  ASSUME Inv, NEW b \in Blocks, Enter(b)
  PROVE  Nested' /\ Open' /\ Context'
<1>1. /\ b \in Blocks \ Judges /\ b # "claim" /\ block[b] = "idle"
      /\ block[Outer(b)] = "running"
      /\ \A s \in Inner(Outer(b)) \ Judges : block[s] # "running"
      /\ Traced(b) \/ Untraced(b)
      /\ UNCHANGED <<client, lost, faults, cancelled>>
  BY DEF Enter, Innermost, Outer
<1>2. /\ block' = [block EXCEPT ![b] = "running"] /\ b \notin holds
      /\ holds' = holds \/ holds' = holds \cup {b}
  BY <1>1, Starting
<1>3. /\ block \in [Blocks -> {"idle", "spawned", "running"} \cup Finished]
      /\ span \in [Blocks -> {"none", "open", "ended", "error"}]
      /\ parent \in [Blocks -> Blocks \cup {None}]
      /\ current \in [Tasks -> Blocks \cup {None}]
      /\ holds \subseteq Blocks
  BY DEF Inv, TypeOK
<1>4. b = "court" => \A j \in Judges : Gone(j)
  BY DEF Enter, Ready
<1>5. \A c \in Blocks \ {"claim"} : Outer(c) = b => block[c] = "idle"
  BY <1>1 DEF Inv, Nested
<1>6. Nested'
  <2>1. \A c \in Blocks : block'[c] = "spawned" => c \in Judges
    BY <1>2, <1>3 DEF Inv, Nested
  <2>2. \A c \in Blocks \ {"claim"} : Active(c)' => block'[Outer(c)] = "running"
    BY <1>1, <1>2, <1>3, Tree DEF Inv, Nested, Active
  <2>3. \A c \in Blocks \ {"claim"} : block'[c] # "idle" => block'[Outer(c)] \notin {"idle", "spawned"}
    BY <1>1, <1>2, <1>3, Tree DEF Inv, Nested
  <2>4. \A c, d \in Blocks \ Judges :
          block'[c] = "running" /\ block'[d] = "running" /\ Outer(c) = Outer(d) => c = d
    <3>1. \A c \in Blocks \ Judges : Outer(c) = Outer(b) => c \in Inner(Outer(b)) \ Judges
      BY DEF Inner
    <3>2. QED
      BY <1>1, <1>2, <1>3, <3>1 DEF Inv, Nested
  <2>5. block'["court"] # "idle" => \A j \in Judges : Gone(j)'
    BY <1>1, <1>2, <1>3, <1>4 DEF Inv, Nested, Gone, Judges, Blocks
  <2>6. QED
    BY <2>1, <2>2, <2>3, <2>4, <2>5 DEF Nested
<1>7. \A c \in Blocks \ {"claim"} : Outer(c) # b => Nearest(c)' = Nearest(c)
  BY <1>1, <1>2 DEF Nearest
<1>8. current["worker"] = Nearest(b) /\ Nearest(b)' = Nearest(b)
  <2>1. current["worker"] = Here(Outer(b))
    BY <1>1, Tree DEF Inv, Context
  <2>2. Here(Outer(b)) = Nearest(b)
    BY <1>1, Tree DEF Here, Nearest
  <2>3. QED
    BY <1>1, <1>7, <2>1, <2>2, Tree
<1>9. Open'
  <2>1. \A c \in holds : block[c] # "idle" /\ Outer(c) # b
    BY <1>1, <1>3, <1>5 DEF Inv, Open, Outer, None, Blocks, Steps, Judges
  <2>2. \A c \in Blocks : span'[c] = "open" <=> c \in holds' /\ block'[c] = "running"
    BY <1>1, <1>2, <1>3 DEF Traced, Untraced, Inv, Open
  <2>3. \A c \in holds' : block'[c] \notin {"idle", "spawned"}
    BY <1>2, <1>3 DEF Inv, Open
  <2>4. \A c \in holds' : parent'[c] = IF c = "claim" THEN None ELSE Nearest(c)'
    <3>1. ASSUME NEW c \in holds', c # b PROVE parent'[c] = IF c = "claim" THEN None ELSE Nearest(c)'
      BY <1>1, <1>2, <1>3, <1>7, <2>1, <3>1 DEF Traced, Untraced, Inv, Open
    <3>2. b \in holds' => parent'[b] = Nearest(b)'
      BY <1>1, <1>2, <1>3, <1>8 DEF Traced, Untraced, Task
    <3>3. QED
      BY <1>1, <3>1, <3>2
  <2>5. QED
    BY <2>2, <2>3, <2>4 DEF Open
<1>10. Context'
  <2>1. block["claim"] = "running" /\ block'["claim"] = "running"
    <3>1. Nested /\ Outer(b) \in Blocks /\ Active(Outer(b))
      BY <1>1, Tree DEF Inv, Active
    <3>2. block["claim"] = "running"
      BY <1>1, <3>1, ClaimRuns
    <3>3. QED
      BY <1>1, <1>2, <1>3, <3>2 DEF Blocks
  <2>2. ASSUME NEW c \in Blocks \ Judges, block'[c] = "running",
               \A s \in Inner(c) \ Judges : block'[s] # "running"
        PROVE  c = b
    <3>1. block'[b] = "running" /\ \A s \in Inner(b) \ Judges : block'[s] # "running"
      BY <1>1, <1>2, <1>3, <1>5, InnerIs, Tree
    <3>2. c # Outer(b)
      BY <1>1, <2>2, <3>1, Tree
    <3>3. c # b => block[c] = "running" /\ \A s \in Inner(c) \ Judges : block[s] # "running"
      BY <1>1, <1>2, <1>3, <2>2, InnerIs
    <3>4. Outer(b) \in Blocks \ Judges
      BY <1>1, Tree
    <3>5. QED
      BY <1>1, <2>2, <3>2, <3>3, <3>4, OneInnermost DEF Inv
  <2>3. current'["worker"] = Here(b)'
    BY <1>1, <1>2, <1>3, <1>8 DEF Traced, Untraced, Task, Tasks, Here
  <2>4. ASSUME NEW j \in Judges, block'[j] = "spawned" PROVE current'[j] = Nearest(j)'
    <3>1. j \in Blocks \ {"claim"} /\ block[j] = "spawned" /\ j # "worker"
      BY <1>1, <1>2, <1>3, <2>4 DEF Blocks, Judges
    <3>2. Outer(j) # b
      BY <1>5, <3>1
    <3>3. current'[j] = current[j]
      BY <1>1, <1>3, <3>1 DEF Traced, Untraced, Task, Tasks
    <3>4. QED
      BY <1>7, <3>1, <3>2, <3>3 DEF Inv, Context
  <2>5. QED
    BY <2>1, <2>2, <2>3, <2>4 DEF Context
<1>11. QED
  BY <1>6, <1>9, <1>10

\* A judge's task begins.
LEMMA JudgeTree ==
  ASSUME Inv, NEW b \in Judges, EnterJudge(b)
  PROVE  Nested' /\ Open' /\ Context'
<1>1. /\ b \in Blocks \ {"claim"} /\ block[b] = "spawned"
      /\ Traced(b) \/ Untraced(b)
      /\ UNCHANGED <<client, lost, faults, cancelled>>
  BY DEF EnterJudge, Blocks, Judges
<1>2. /\ block' = [block EXCEPT ![b] = "running"] /\ b \notin holds
      /\ holds' = holds \/ holds' = holds \cup {b}
  BY <1>1, Starting
<1>3. /\ block \in [Blocks -> {"idle", "spawned", "running"} \cup Finished]
      /\ span \in [Blocks -> {"none", "open", "ended", "error"}]
      /\ parent \in [Blocks -> Blocks \cup {None}]
      /\ current \in [Tasks -> Blocks \cup {None}]
      /\ holds \subseteq Blocks
  BY DEF Inv, TypeOK
<1>4. \A c \in Blocks \ {"claim"} : Outer(c) # b /\ Nearest(c)' = Nearest(c)
  BY <1>1, <1>2, Tree DEF Nearest
<1>5. block["court"] = "idle"
  BY <1>1 DEF Inv, Nested, Gone, Finished, Raised
<1>6. Nested'
  <2>1. \A c \in Blocks \ {b} : block'[c] = block[c]
    BY <1>2, <1>3
  <2>2. \A c \in Blocks \ {"claim"} : Outer(c) \in Blocks \ {b}
    BY <1>4, Tree
  <2>3. block'[b] = "running" /\ block[Outer(b)] = "running"
    BY <1>1, <1>2, <1>3 DEF Inv, Nested, Active
  <2>4. \A c \in Blocks : block'[c] = "spawned" => c \in Judges
    BY <2>1, <2>3 DEF Inv, Nested
  <2>5. \A c \in Blocks \ {"claim"} : Active(c)' => block'[Outer(c)] = "running"
    BY <2>1, <2>2, <2>3 DEF Inv, Nested, Active
  <2>6. \A c \in Blocks \ {"claim"} : block'[c] # "idle" => block'[Outer(c)] \notin {"idle", "spawned"}
    BY <2>1, <2>2, <2>3 DEF Inv, Nested
  <2>7. \A c, d \in Blocks \ Judges :
          block'[c] = "running" /\ block'[d] = "running" /\ Outer(c) = Outer(d) => c = d
    BY <2>1 DEF Inv, Nested
  <2>8. block'["court"] = "idle"
    BY <1>5, <2>1 DEF Blocks, Judges
  <2>9. QED
    BY <2>4, <2>5, <2>6, <2>7, <2>8 DEF Nested
<1>7. Open'
  <2>1. \A c \in Blocks : span'[c] = "open" <=> c \in holds' /\ block'[c] = "running"
    BY <1>1, <1>2, <1>3 DEF Traced, Untraced, Inv, Open
  <2>2. \A c \in holds' : block'[c] \notin {"idle", "spawned"}
    BY <1>1, <1>2, <1>3 DEF Inv, Open
  <2>3. \A c \in holds' : parent'[c] = IF c = "claim" THEN None ELSE Nearest(c)'
    <3>1. ASSUME NEW c \in holds', c # b PROVE parent'[c] = IF c = "claim" THEN None ELSE Nearest(c)'
      BY <1>1, <1>2, <1>3, <1>4, <3>1 DEF Traced, Untraced, Inv, Open
    <3>2. b \in holds' => parent'[b] = Nearest(b)'
      BY <1>1, <1>2, <1>3, <1>4 DEF Traced, Untraced, Task, Inv, Context
    <3>3. QED
      BY <1>1, <3>1, <3>2
  <2>4. QED
    BY <2>1, <2>2, <2>3 DEF Open
<1>8. Context'
  <2>1. /\ current'["worker"] = current["worker"]
        /\ \A j \in Judges \ {b} : current'[j] = current[j]
    BY <1>1, <1>3 DEF Traced, Untraced, Task, Judges, Tasks
  <2>2. \A c \in Blocks \ Judges : block'[c] = block[c] /\ Here(c)' = Here(c)
    BY <1>1, <1>2, <1>3, <1>4 DEF Here
  <2>3. "claim" \in Blocks \ Judges /\ \A c \in Blocks : Inner(c) \ Judges \subseteq Blocks \ Judges
    BY DEF Blocks, Judges, Inner, Steps
  <2>4. \A c \in Blocks \ Judges :
          block'[c] = "running" /\ (\A s \in Inner(c) \ Judges : block'[s] # "running") =>
            current'["worker"] = Here(c)'
    BY <2>1, <2>2, <2>3 DEF Inv, Context
  <2>5. \A j \in Judges : block'[j] = "spawned" => current'[j] = Nearest(j)'
    <3>1. Judges \subseteq Blocks \ {"claim"}
      BY DEF Judges, Blocks
    <3>2. QED
      BY <1>2, <1>3, <1>4, <2>1, <3>1 DEF Inv, Context
  <2>6. QED
    BY <2>1, <2>2, <2>3, <2>4, <2>5 DEF Inv, Context
<1>9. QED
  BY <1>6, <1>7, <1>8
\* gather: both judges inherit the context of the evaluation.
LEMMA GatherTree == Inv /\ Gather => Nested' /\ Open' /\ Context'
<1> SUFFICES ASSUME Inv, Gather PROVE Nested' /\ Open' /\ Context'
  OBVIOUS
<1>1. /\ block["evaluate"] = "running" /\ \A j \in Judges : block[j] = "idle"
      /\ block' = [b \in Blocks |-> IF b \in Judges THEN "spawned" ELSE block[b]]
      /\ current' = [t \in Tasks |-> current["worker"]]
      /\ span' = span /\ parent' = parent /\ holds' = holds
  BY DEF Gather, InheritedContext
<1>2. /\ Judges \subseteq Blocks \ {"claim"} /\ "evaluate" \in Blocks \ Judges
      /\ "claim" \in Blocks \ Judges /\ "court" \in Blocks \ Judges
      /\ Tasks = {"worker"} \cup Judges
      /\ \A j \in Judges : Outer(j) = "evaluate" /\ Nearest(j) = Nearest("court")
      /\ Inner("evaluate") \ Judges = {"court"} /\ Outer("evaluate") = "claim"
  <2>1. /\ Judges \subseteq Blocks \ {"claim"} /\ "evaluate" \in Blocks \ Judges
        /\ "claim" \in Blocks \ Judges /\ "court" \in Blocks \ Judges
        /\ Tasks = {"worker"} \cup Judges
    BY DEF Judges, Blocks, Steps, Tasks
  <2>2. /\ \A j \in Judges : Outer(j) = "evaluate"
        /\ Outer("court") = "evaluate" /\ Outer("evaluate") = "claim"
    BY DEF Judges, Outer
  <2>3. \A s \in Blocks : Outer(s) = "evaluate" <=> s \in Judges \cup {"court"}
    BY DEF Blocks, Steps, Judges, Outer, None
  <2>4. Inner("evaluate") \ Judges = {"court"}
    BY <2>1, <2>3 DEF Inner
  <2>5. QED
    BY <2>1, <2>2, <2>4 DEF Nearest
<1>3. \A c \in Blocks : Here(c)' = Here(c) /\ Nearest(c)' = Nearest(c)
  BY <1>1 DEF Here, Nearest
<1>4. block["court"] = "idle"
  <2>1. \E j \in Judges : ~Gone(j)
    BY <1>1 DEF Gone, Finished, Raised, Judges
  <2>2. QED
    BY <2>1 DEF Inv, Nested
<1>5. Nested'
  <2>1. \A c \in Blocks \ Judges : block'[c] = block[c]
    BY <1>1
  <2>2. \A c \in Blocks \ {"claim"} : Outer(c) \in Blocks \ Judges
    BY Tree
  <2>3. \A c \in Blocks : block'[c] = "spawned" => c \in Judges
    BY <1>1 DEF Inv, Nested
  <2>4. \A c \in Blocks \ {"claim"} : Active(c)' => block'[Outer(c)] = "running"
    BY <1>1, <1>2, <2>1, <2>2 DEF Inv, Nested, Active
  <2>5. \A c \in Blocks \ {"claim"} : block'[c] # "idle" => block'[Outer(c)] \notin {"idle", "spawned"}
    BY <1>1, <1>2, <2>1, <2>2 DEF Inv, Nested
  <2>6. \A c, d \in Blocks \ Judges :
          block'[c] = "running" /\ block'[d] = "running" /\ Outer(c) = Outer(d) => c = d
    BY <2>1 DEF Inv, Nested
  <2>7. block'["court"] = "idle"
    BY <1>2, <1>4, <2>1
  <2>8. QED
    BY <2>3, <2>4, <2>5, <2>6, <2>7 DEF Nested
<1>6. Open'
  <2>1. \A j \in Judges : j \notin holds
    BY <1>1 DEF Inv, Open
  <2>2. holds \subseteq Blocks
    BY DEF Inv, TypeOK
  <2>3. \A c \in Blocks : span'[c] = "open" <=> c \in holds' /\ block'[c] = "running"
    BY <1>1, <1>2, <2>1 DEF Inv, Open
  <2>4. \A c \in holds' : block'[c] \notin {"idle", "spawned"}
    BY <1>1, <2>1, <2>2 DEF Inv, Open
  <2>5. \A c \in holds' : parent'[c] = IF c = "claim" THEN None ELSE Nearest(c)'
    BY <1>1, <1>3, <2>2 DEF Inv, Open
  <2>6. QED
    BY <2>3, <2>4, <2>5 DEF Open
<1>7. Context'
  <2>1. current["worker"] = Here("evaluate")
    BY <1>1, <1>2, <1>4 DEF Inv, Context
  <2>2. \A j \in Judges : Nearest(j) = Here("evaluate")
    BY <1>2 DEF Here, Nearest
  <2>3. current'["worker"] = current["worker"] /\ \A j \in Judges : current'[j] = current["worker"]
    BY <1>1, <1>2
  <2>4. \A c \in Blocks \ Judges : block'[c] = block[c]
    BY <1>1
  <2>5. \A c \in Blocks : Inner(c) \ Judges \subseteq Blocks \ Judges
    BY InnerIs
  <2>6. \A c \in Blocks \ Judges :
          block'[c] = "running" /\ (\A s \in Inner(c) \ Judges : block'[s] # "running") =>
            current'["worker"] = Here(c)'
    BY <1>3, <2>3, <2>4, <2>5 DEF Inv, Context
  <2>7. QED
    BY <1>2, <1>3, <2>1, <2>2, <2>3, <2>4, <2>6 DEF Inv, Context
<1>8. QED
  BY <1>5, <1>6, <1>7

LEMMA BeginInv == Inv /\ BeginClaim => Inv'
<1> SUFFICES ASSUME Inv, BeginClaim PROVE Inv'
  OBVIOUS
<1>1. /\ block' = [b \in Blocks |-> IF b = "claim" THEN "running" ELSE "idle"]
      /\ parent' = [b \in Blocks |-> IF b = "claim" THEN current["worker"] ELSE None]
      /\ lost' = {} /\ faults' = {} /\ client' = client /\ cancelled' = cancelled
      /\ block["claim"] # "running"
  BY DEF BeginClaim, Finished, Raised
<1>2. /\ {"claim", "court"} \subseteq Blocks \ Judges /\ Judges \subseteq Blocks \ {"claim"}
      /\ Tasks = {"worker"} \cup Judges /\ "worker" \notin Judges /\ Outer("claim") = None
      /\ None \notin Blocks
  BY DEF Blocks, Judges, Steps, Tasks, Outer, None
<1>3. current["worker"] = None /\ current \in [Tasks -> Blocks \cup {None}]
  BY <1>1 DEF Inv, Context, TypeOK
<1>4. \/ /\ span' = [b \in Blocks |-> IF b = "claim" THEN "open" ELSE "none"]
         /\ current' = [current EXCEPT !["worker"] = "claim"] /\ holds' = {"claim"}
      \/ /\ span' = [b \in Blocks |-> IF b = "claim" THEN "ended" ELSE "none"]
         /\ current' = current /\ holds' = {}
      \/ /\ span' = [b \in Blocks |-> "none"]
         /\ current' = current /\ holds' = {}
  BY DEF BeginClaim, PropagateFails
<1>5. TypeOK'
  <2>1. client' \in BOOLEAN /\ cancelled' \in BOOLEAN
    BY <1>1, Zenon DEF Inv, TypeOK
  <2>2. failures' \in 0 .. MaxFailures
    BY TracingAssumption DEF BeginClaim
  <2>3. /\ block' \in [Blocks -> {"idle", "spawned", "running"} \cup Finished]
        /\ parent' \in [Blocks -> Blocks \cup {None}]
        /\ span' \in [Blocks -> {"none", "open", "ended", "error"}]
        /\ current' \in [Tasks -> Blocks \cup {None}]
    <3>1. /\ block' \in [Blocks -> {"idle", "spawned", "running"} \cup Finished]
          /\ parent' \in [Blocks -> Blocks \cup {None}]
      BY <1>1, <1>3
    <3>2. span' \in [Blocks -> {"none", "open", "ended", "error"}]
      BY <1>4
    <3>3. current' = current \/ current' = [current EXCEPT !["worker"] = "claim"]
      BY <1>4
    <3>4. current' \in [Tasks -> Blocks \cup {None}]
      BY <1>2, <1>3, <3>3
    <3>5. QED
      BY <3>1, <3>2, <3>4
  <2>4. holds' \subseteq {b \in Blocks : span'[b] # "none"}
    BY <1>2, <1>4
  <2>5. QED
    BY <1>1, <2>1, <2>2, <2>3, <2>4 DEF TypeOK
<1>6. Nested'
  BY <1>1, <1>2, Tree DEF Nested, Active
<1>7. Open'
  BY <1>1, <1>2, <1>3, <1>4 DEF Open
<1>8. Context'
  <2>1. \A c \in Blocks : block'[c] = "running" => c = "claim"
    BY <1>1
  <2>2. current'["worker"] = Here("claim")'
    BY <1>2, <1>3, <1>4 DEF Here
  <2>3. block'["claim"] = "running" /\ \A j \in Judges : block'[j] # "spawned"
    BY <1>1, <1>2
  <2>4. QED
    BY <2>1, <2>2, <2>3 DEF Context
<1>9. Ended' /\ ErrorIffFailed' /\ SameAsUntraced'
  <2>1. \A b \in Blocks : block'[b] \notin Finished
    BY <1>1 DEF Finished, Raised
  <2>2. holds' \subseteq Blocks
    BY <1>2, <1>4
  <2>3. QED
    BY <1>1, <2>1, <2>2 DEF Ended, ErrorIffFailed, SameAsUntraced, Finished, Raised
<1>10. QED
  BY <1>5, <1>6, <1>7, <1>8, <1>9 DEF Inv

----------------------------------------------------------------------------
(* The invariant.                                                          *)

\* A judge whose task was cancelled before it began.
LEMMA NeverBegun ==
  ASSUME Inv, NEW b \in Blocks, block[b] = "spawned", Cancelled(b)
  PROVE  Inv'
<1>1. /\ b \in Judges /\ cancelled /\ block' = [block EXCEPT ![b] = "cancelled"]
      /\ UNCHANGED <<client, span, parent, current, holds, failures, lost, faults, cancelled>>
  BY DEF Cancelled, Innermost, Inv, Nested
<1>2. /\ block \in [Blocks -> {"idle", "spawned", "running"} \cup Finished]
      /\ holds \subseteq {c \in Blocks : span[c] # "none"} /\ b \notin holds
      /\ faults \subseteq {c \in Blocks : block[c] # "idle"}
      /\ b \notin faults /\ "cancelled" \in Finished
  BY DEF Inv, TypeOK, Open, Ended, Gone, Finished, Raised
<1>3. /\ \A c \in Blocks \ {b} : block'[c] = block[c]
      /\ block'[b] = "cancelled"
  BY <1>1, <1>2
<1>4. /\ \A c \in Blocks \ {"claim"} : Outer(c) \in Blocks \ {b}
      /\ {"claim", "court"} \subseteq Blocks \ Judges
  BY <1>1, Tree DEF Blocks, Judges, Steps
<1>5. TypeOK'
  <2>1. block' \in [Blocks -> {"idle", "spawned", "running"} \cup Finished]
    BY <1>1, <1>2
  <2>2. client' \in BOOLEAN /\ cancelled' \in BOOLEAN
    BY <1>1, Zenon DEF Inv, TypeOK
  <2>3. faults' \subseteq {c \in Blocks : block'[c] # "idle"}
    BY <1>1, <1>2, <1>3
  <2>4. QED
    BY <1>1, <2>1, <2>2, <2>3 DEF Inv, TypeOK
<1>6. Nested'
  <2>1. \A c \in Blocks : block'[c] = "spawned" => c \in Judges
    BY <1>3 DEF Inv, Nested
  <2>2. \A c \in Blocks \ {"claim"} : Active(c)' => block'[Outer(c)] = "running"
    BY <1>3, <1>4 DEF Inv, Nested, Active
  <2>3. \A c \in Blocks \ {"claim"} : block'[c] # "idle" => block'[Outer(c)] \notin {"idle", "spawned"}
    BY <1>3, <1>4 DEF Inv, Nested
  <2>4. \A c, d \in Blocks \ Judges :
          block'[c] = "running" /\ block'[d] = "running" /\ Outer(c) = Outer(d) => c = d
    BY <1>3 DEF Inv, Nested
  <2>5. block'["court"] # "idle" => \A j \in Judges : Gone(j)'
    BY <1>1, <1>2, <1>3, <1>4 DEF Inv, Nested, Gone
  <2>6. QED
    BY <2>1, <2>2, <2>3, <2>4, <2>5 DEF Nested
<1>7. Open'
  <2>1. \A c \in holds : parent'[c] = IF c = "claim" THEN None ELSE Nearest(c)'
    BY <1>1 DEF Inv, Open, Nearest
  <2>2. QED
    BY <1>1, <1>2, <1>3, <2>1 DEF Inv, Open
<1>8. Context'
  <2>1. \A c : Here(c)' = Here(c) /\ Nearest(c)' = Nearest(c)
    BY <1>1 DEF Here, Nearest
  <2>2. \A c \in Blocks \ Judges : block'[c] = block[c] /\ Inner(c) \ Judges \subseteq Blocks \ Judges
    BY <1>1, <1>3, InnerIs
  <2>3. \A c \in Blocks \ Judges :
          block'[c] = "running" /\ (\A s \in Inner(c) \ Judges : block'[s] # "running") =>
            current'["worker"] = Here(c)'
    BY <1>1, <2>1, <2>2 DEF Inv, Context
  <2>4. \A j \in Judges : block'[j] = "spawned" => current'[j] = Nearest(j)'
    BY <1>1, <1>2, <2>1 DEF Inv, Context, Judges, Blocks
  <2>5. QED
    BY <1>1, <1>4, <2>2, <2>3, <2>4 DEF Inv, Context
<1>9. Ended' /\ ErrorIffFailed'
  BY <1>1, <1>2, <1>3 DEF Inv, Ended, Gone, ErrorIffFailed
<1>10. SameAsUntraced'
  BY <1>1, <1>2, LeaveSame DEF Active, Raised, Finished
<1>11. QED
  BY <1>5, <1>6, <1>7, <1>8, <1>9, <1>10 DEF Inv

\* A block that ends keeps the invariant, given what it ends with.
LEMMA LeaveInv ==
  ASSUME Inv, NEW b \in Blocks, NEW end \in Finished, NEW marked \in BOOLEAN, Innermost(b),
         Leave(b, end, marked), client' = client, cancelled' = cancelled,
         faults' = faults \/ faults' = faults \cup {b},
         end \in Raised \/ marked <=> end \in Raised \/ b \in faults',
         end = "raised" => b \in faults' \/ \E s \in Inner(b) : block[s] = "raised" /\ ~Caught(s),
         end = "cancelled" => cancelled,
         end = "returned" =>
           /\ Proceeds(b)
           /\ b \in faults' => b \in Judges \cup {"court", "verify"}
  PROVE  Inv'
<1>1. block' = [block EXCEPT ![b] = end] /\ block[b] = "running"
  BY DEF Leave, Innermost
<1>2. Nested' /\ Open' /\ Context'
  BY LeaveNested, LeaveOpen, LeaveContext
<1>3. ErrorIffFailed' /\ Ended'
  BY LeaveShows
<1>4. SameAsUntraced'
  BY <1>1, LeaveSame DEF Active
<1>5. TypeOK'
  <2>1. /\ block' \in [Blocks -> {"idle", "spawned", "running"} \cup Finished]
        /\ span' \in [Blocks -> {"none", "open", "ended", "error"}]
        /\ parent' = parent /\ holds' = holds
        /\ current' \in [Tasks -> Blocks \cup {None}]
        /\ failures' \in 0 .. MaxFailures
        /\ lost' \subseteq holds /\ holds \subseteq {c \in Blocks : span'[c] # "none"}
    BY LeaveType
  <2>2. client' \in BOOLEAN /\ cancelled' \in BOOLEAN
    BY Zenon DEF Inv, TypeOK
  <2>3. faults' \subseteq {c \in Blocks : block'[c] # "idle"}
    BY <1>1 DEF Inv, TypeOK, Finished, Raised
  <2>4. parent' \in [Blocks -> Blocks \cup {None}]
    BY <2>1 DEF Inv, TypeOK
  <2>5. QED
    BY <2>1, <2>2, <2>3, <2>4 DEF TypeOK
<1>6. QED
  BY <1>2, <1>3, <1>4, <1>5 DEF Inv

LEMMA NextInv == Inv /\ [Next]_vars => Inv'
<1> SUFFICES ASSUME Inv, [Next]_vars PROVE Inv'
  OBVIOUS
<1>0. "raised" \in Finished /\ "cancelled" \in Finished /\ "returned" \in Finished
      /\ Raised = {"raised", "cancelled"}
  BY DEF Finished, Raised
<1>1. CASE UNCHANGED vars
  BY <1>1 DEF vars, Inv, TypeOK, Nested, Active, Open, Context, Ended, ErrorIffFailed,
     SameAsUntraced, Gone, Here, Nearest, Caught, MayBeCaught, Proceeds
<1>2. CASE BeginClaim
  BY <1>2, BeginInv
<1>3. CASE Gather
  <2>1. /\ \A j \in Judges : block[j] = "idle" /\ Outer(j) = "evaluate" /\ j # "claim"
        /\ block["evaluate"] = "running"
        /\ block' = [b \in Blocks |-> IF b \in Judges THEN "spawned" ELSE block[b]]
        /\ UNCHANGED <<client, span, parent, holds, failures, lost, faults, cancelled>>
    BY <1>3 DEF Gather, Outer, Judges
  <2>2. /\ block \in [Blocks -> {"idle", "spawned", "running"} \cup Finished]
        /\ \A b \in Blocks : block'[b] \in Finished => block'[b] = block[b]
        /\ "worker" \in Tasks /\ holds \subseteq Blocks
        /\ "idle" \notin Finished /\ "spawned" \notin Finished
    BY <2>1 DEF Inv, TypeOK, Finished, Raised, Tasks
  <2>3. TypeOK'
    <3>1. block' \in [Blocks -> {"idle", "spawned", "running"} \cup Finished]
      BY <2>1, <2>2
    <3>2. current' \in [Tasks -> Blocks \cup {None}]
      BY <1>3, <2>2 DEF Gather, InheritedContext, Inv, TypeOK
    <3>3. client' \in BOOLEAN /\ cancelled' \in BOOLEAN
      BY <2>1, Zenon DEF Inv, TypeOK
    <3>4. faults' \subseteq {c \in Blocks : block'[c] # "idle"}
      BY <2>1 DEF Inv, TypeOK
    <3>5. QED
      BY <2>1, <3>1, <3>2, <3>3, <3>4 DEF Inv, TypeOK
  <2>4. Ended'
    BY <2>1, <2>2 DEF Inv, TypeOK, Ended, Gone
  <2>5. ErrorIffFailed'
    BY <2>1, <2>2 DEF Inv, ErrorIffFailed
  <2>6. SameAsUntraced'
    <3>1. \A c \in Blocks : block'[c] # block[c] =>
            /\ c # "claim" /\ block[Outer(c)] = "running"
            /\ ~Gone(c) /\ block'[c] \notin Finished
      BY <2>1, <2>2 DEF Gone
    <3>2. QED
      BY <2>1, <2>3, <3>1, StartSame DEF TypeOK
  <2>7. QED
    BY <1>3, <2>3, <2>4, <2>5, <2>6, GatherTree DEF Inv
<1>4. CASE Interrupt
  <2>1. cancelled' = TRUE
        /\ UNCHANGED <<client, block, span, parent, current, holds, failures, lost, faults>>
    BY <1>4 DEF Interrupt
  <2>2. TypeOK'
    <3>1. client' \in BOOLEAN /\ cancelled' \in BOOLEAN
      BY <2>1, Zenon DEF Inv, TypeOK
    <3>2. QED
      BY <2>1, <3>1 DEF Inv, TypeOK
  <2>3. Nested' /\ Open' /\ Context' /\ Ended' /\ ErrorIffFailed'
    BY <2>1 DEF Inv, Nested, Active, Open, Context, Ended, ErrorIffFailed, Gone, Here, Nearest
  <2>4. SameAsUntraced'
    BY <2>1 DEF Inv, SameAsUntraced, Caught, MayBeCaught, Proceeds
  <2>5. QED
    BY <2>2, <2>3, <2>4 DEF Inv
<1>5. ASSUME NEW b \in Blocks \ {"claim"}, Traced(b) \/ Untraced(b),
             block[b] \in {"idle", "spawned"}, block[Outer(b)] = "running",
             UNCHANGED <<client, lost, faults, cancelled>>, Nested' /\ Open' /\ Context'
      PROVE  Inv'
  <2>1. TypeOK' /\ Ended' /\ ErrorIffFailed' /\ block' = [block EXCEPT ![b] = "running"]
    BY <1>5, Starting
  <2>2. \A c \in Blocks : block'[c] # block[c] =>
          /\ c # "claim" /\ block[Outer(c)] = "running"
          /\ ~Gone(c) /\ block'[c] \notin Finished
    BY <1>5, <2>1 DEF Inv, TypeOK, Gone, Finished, Raised
  <2>3. SameAsUntraced'
    BY <1>5, <2>1, <2>2, StartSame DEF TypeOK
  <2>4. QED
    BY <1>5, <2>1, <2>3 DEF Inv
<1>6. ASSUME NEW j \in Judges, EnterJudge(j) PROVE Inv'
  <2>1. j \in Blocks \ {"claim"} /\ block[j] = "spawned"
    BY <1>6 DEF EnterJudge, Judges, Blocks
  <2>2. block[Outer(j)] = "running"
    BY <2>1 DEF Inv, Nested, Active
  <2>3. QED
    BY <1>5, <1>6, <2>1, <2>2, JudgeTree DEF EnterJudge
<1>7. ASSUME NEW b \in Blocks, Enter(b) PROVE Inv'
  <2>1. b # "claim" /\ block[b] = "idle" /\ block[Outer(b)] = "running"
    BY <1>7 DEF Enter, Outer, Innermost
  <2>2. QED
    BY <1>5, <1>7, <2>1, EnterTree DEF Enter
<1>8. ASSUME NEW b \in Blocks, Return(b) PROVE Inv'
  <2>1. PICK failed \in BOOLEAN :
          /\ failed => b \in Judges \cup {"court", "verify"}
          /\ Leave(b, "returned", failed)
          /\ faults' = IF failed THEN faults \cup {b} ELSE faults
    BY <1>8 DEF Return
  <2>2. Innermost(b) /\ Proceeds(b) /\ client' = client /\ cancelled' = cancelled
    BY <1>8 DEF Return
  <2>3. b \notin faults
    BY <1>0, <2>2 DEF Innermost, Inv, Ended, Gone, Finished
  <2>4. QED
    BY <1>0, <2>1, <2>2, <2>3, LeaveInv
<1>9. ASSUME NEW b \in Blocks, Raise(b) PROVE Inv'
  BY <1>0, <1>9, LeaveInv DEF Raise
<1>10. ASSUME NEW b \in Blocks, Pass(b) PROVE Inv'
  <2>1. PICK s \in Inner(b) : block[s] \in Raised /\ ~Caught(s) /\ Leave(b, block[s], FALSE)
    BY <1>10 DEF Pass
  <2>2. Innermost(b) /\ UNCHANGED <<client, faults, cancelled>>
    BY <1>10 DEF Pass
  <2>3. block[s] = "cancelled" => cancelled
    BY <2>1, InnerIs DEF Inv, SameAsUntraced
  <2>4. QED
    BY <1>0, <2>1, <2>2, <2>3, LeaveInv
<1>11. ASSUME NEW b \in Blocks, Cancelled(b) PROVE Inv'
  <2>1. CASE block[b] = "spawned"
    BY <1>11, <2>1, NeverBegun
  <2>2. CASE block[b] # "spawned"
    <3>1. /\ Innermost(b) /\ Leave(b, "cancelled", FALSE) /\ cancelled
          /\ UNCHANGED <<client, faults, cancelled>>
      BY <1>11, <2>2 DEF Cancelled
    <3>2. QED
      BY <1>0, <3>1, LeaveInv
  <2>3. QED
    BY <2>1, <2>2
<1>12. QED
  BY <1>1, <1>2, <1>3, <1>4, <1>6, <1>7, <1>8, <1>9, <1>10, <1>11 DEF Next

LEMMA Invariance == Spec => []Inv
  BY InitInv, NextInv, PTL DEF Spec

\* Whatever fails, blocks and observations stay within their types
\* (tracing.py).
THEOREM TypeCorrect == Spec => []TypeOK
<1>1. Inv => TypeOK
  BY DEF Inv
<1>2. QED
  BY <1>1, Invariance, PTL

\* However often the SDK fails and however the judges' tasks interleave, an
\* observation is nested in the nearest one around it and ends before it
\* (tracing.py, observe and claim_trace).
THEOREM TraceShape == Spec => []ShapedAsTheProgram
<1>1. Inv => ShapedAsTheProgram
  <2> SUFFICES ASSUME Inv, NEW b \in holds \ {"claim"}
               PROVE  /\ parent[b] = Nearest(b)
                      /\ span[b] = "open" /\ parent[b] # None => span[parent[b]] = "open"
    BY DEF ShapedAsTheProgram
  <2>1. parent[b] = Nearest(b) /\ b \in Blocks
    BY DEF Inv, Open, TypeOK
  <2>2. ASSUME span[b] = "open", parent[b] # None PROVE span[parent[b]] = "open"
    <3>1. block[b] = "running" /\ block[Outer(b)] = "running" /\ Outer(b) \in Blocks
      BY <2>1, <2>2, Tree DEF Inv, Open, Nested, Active
    <3>2. "claim" \in Blocks /\ block["claim"] = "running"
      <4>1. Nested /\ Active(Outer(b))
        BY <3>1 DEF Inv, Active
      <4>2. QED
        BY <3>1, <4>1, ClaimRuns DEF Blocks
    <3>3. QED
      BY <2>1, <2>2, <3>1, <3>2 DEF Nearest, Inv, Open
  <2>3. QED
    BY <2>1, <2>2
<1>2. QED
  BY <1>1, Invariance, PTL

\* A claim that is over, also by an interrupt, leaves no observation and no
\* context behind for the next one (tracing.py, the ExitStack).
THEOREM NothingStaysOpen == Spec => []NothingLeft
<1>1. Inv => NothingLeft
  <2> SUFFICES ASSUME Inv, block["claim"] \in {"idle"} \cup Finished PROVE
        /\ \A b \in Blocks : span[b] # "open"
        /\ current["worker"] = None
        /\ \A j \in Judges : block[j] \notin {"spawned", "running"}
    BY DEF NothingLeft
  <2>1. block["claim"] # "running"
    BY DEF Finished, Raised
  <2>2. \A b \in Blocks : ~Active(b)
    <3>1. \A b \in Blocks \ {"claim"} : Active(b) => Active(Outer(b)) /\ Outer(b) \in Blocks \ Judges
      BY Tree DEF Inv, Nested, Active
    <3>2. ~Active("claim")
      BY <2>1 DEF Inv, Nested, Active, Blocks, Judges
    <3>3. QED
      BY <3>1, <3>2, Tree
  <2>3. QED
    BY <2>1, <2>2 DEF Inv, Open, Context, Active, Blocks, Judges
<1>2. QED
  BY <1>1, Invariance, PTL

\* What failed is shown as failed, and nothing else (tracing.py, _mark_error).
THEOREM ErrorsShown == Spec => []ErrorIffFailed
<1>1. Inv => ErrorIffFailed
  BY DEF Inv
<1>2. QED
  BY <1>1, Invariance, PTL

\* "Tracing never changes the outcome" (worker.py).
THEOREM OutcomeKept == Spec => []SameAsUntraced
<1>1. Inv => SameAsUntraced
  BY DEF Inv
<1>2. QED
  BY <1>1, Invariance, PTL
=============================================================================
