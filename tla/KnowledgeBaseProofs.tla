------------------------ MODULE KnowledgeBaseProofs ------------------------
(***************************************************************************)
(* Proofs about KnowledgeBase, for any number of ingestions, lookups and   *)
(* documents.                                                              *)
(***************************************************************************)
EXTENDS KnowledgeBase, TLAPS

\* An inserting transaction has a document that is not empty, and has inserted
\* no more than its chunks.
Bounded ==
  \A i \in Ingestions :
    /\ pc[i] \in {"embedding", "deleting", "inserting"} => document[i].chunks > 0
    /\ flushed[i] <= document[i].chunks
    /\ flushed[i] <= vectors[i] \/ pc[i] # "inserting"
    /\ pc[i] \in {"new", "embedding", "deleting"} => flushed[i] = 0

TypeInv == TypeOK /\ Bounded

LEMMA InitTypeInv == Init => TypeInv
  BY KnowledgeBaseAssumption
     DEF Init, TypeInv, TypeOK, Bounded, Documents, Rows, Steps, LookupSteps

LEMMA NextTypeInv == TypeInv /\ [Next]_vars => TypeInv'
<1>1. SUFFICES ASSUME TypeInv, [Next]_vars PROVE TypeInv'
  OBVIOUS
<1> USE <1>1, KnowledgeBaseAssumption
        DEF TypeInv, TypeOK, Bounded, Documents, Steps, LookupSteps, ingestVars, lookupVars
<1>2. CASE UNCHANGED vars
  BY <1>2 DEF vars
<1>3. ASSUME NEW i \in Ingestions, Ingest(i) PROVE TypeInv'
  BY <1>3 DEF Ingest, Goto, NothingToStore
<1>4. ASSUME NEW i \in Ingestions, DeleteBegins(i) PROVE TypeInv'
  BY <1>4 DEF DeleteBegins, Goto, Stored, Committed
<1>5. ASSUME NEW i \in Ingestions, DeleteEnds(i) PROVE TypeInv'
  BY <1>5 DEF DeleteEnds, Goto
<1>6. ASSUME NEW i \in Ingestions, InsertChunk(i) PROVE TypeInv'
  BY <1>6 DEF InsertChunk, MorePairs
<1>7. ASSUME NEW i \in Ingestions, Commit(i) PROVE TypeInv'
  <2>1. RowsOf(i) \subseteq Rows
    BY <1>7 DEF RowsOf, Rows
  <2>2. QED
    BY <1>7, <2>1 DEF Commit, Goto
<1>8. ASSUME NEW i \in Ingestions, Fail(i) PROVE TypeInv'
  BY <1>8 DEF Fail, Goto
<1>9. ASSUME NEW l \in Lookups, LookupBegins(l) PROVE TypeInv'
  BY <1>9 DEF LookupBegins
<1>10. ASSUME NEW l \in Lookups, LookupEnds(l) PROVE TypeInv'
  BY <1>10 DEF LookupEnds
<1>11. ASSUME NEW l \in Lookups, LookupFails(l) PROVE TypeInv'
  BY <1>11 DEF LookupFails
<1>12. QED
  BY <1>1, <1>2, <1>3, <1>4, <1>5, <1>6, <1>7, <1>8, <1>9, <1>10, <1>11 DEF Next

\* Every ingestion, lookup and row stays within its type
\* (retrieval_service.py, ingest_document).
THEOREM TypeCorrect == Spec => []TypeOK
<1>1. Spec => []TypeInv
  BY InitTypeInv, NextTypeInv, PTL DEF Spec
<1>2. TypeInv => TypeOK
  BY DEF TypeInv
<1>3. QED
  BY <1>1, <1>2, PTL

----------------------------------------------------------------------------
(* What transactions in progress know of the table.                        *)

Running(i) == pc[i] \in {"deleting", "inserting"}

\* Only what has been committed is stored or found by a DELETE.
OnlyCommitted ==
  /\ \A row \in table : pc[row.by] = "committed" /\ row \in RowsOf(row.by)
  /\ \A i \in Ingestions : Running(i) =>
       \A row \in removing[i] : /\ pc[row.by] = "committed"
                                /\ SourceOf(row) = document[i].source
  /\ \A i, k \in Ingestions : k \in before[i] => pc[k] = "committed"

\* Rows locked by one transaction stay until it ends.
Locks ==
  \A i \in Ingestions : pc[i] = "inserting" =>
    /\ removing[i] \subseteq table
    /\ \A k \in Ingestions \ {i} : pc[k] = "inserting" => removing[i] \cap removing[k] = {}

\* A DELETE finds a version as a whole, and every version that was there when
\* it began.
Finds ==
  \A i \in Ingestions : Running(i) =>
    /\ \A r1 \in removing[i], r2 \in table : r1.by = r2.by => r2 \in removing[i]
    /\ \A row \in table :
         row.by \in before[i] /\ SourceOf(row) = document[i].source => row \in removing[i]

\* WholeVersions, row by row.
Whole == \A r1 \in table : \A r2 \in RowsOf(r1.by) : r2 \in table

\* Once something is stored, something always is.
LookupsSee ==
  \A l \in Lookups :
    /\ lookup[l] = "embedding" /\ seen[l] # {} => table # {}
    /\ lookup[l] = "nothing" => seen[l] = {}

Inv == TypeInv /\ OnlyCommitted /\ Locks /\ Finds /\ Whole /\ ReplacedIsGone /\ LookupsSee

LEMMA InitInv == Init => Inv
  BY InitTypeInv DEF Init, Inv, OnlyCommitted, Locks, Finds, Whole, ReplacedIsGone, LookupsSee,
                     Running

\* What a commit stores: the whole new version, which has rows.
LEMMA CommitStores ==
  ASSUME TypeInv, NEW j \in Ingestions, Commit(j)
  PROVE  /\ pc[j] = "inserting"
         /\ table' = (table \ removing[j]) \cup RowsOf(j)
         /\ [by |-> j, n |-> 1] \in RowsOf(j)
         /\ RowsOf(j) \subseteq Rows
         /\ \A row \in RowsOf(j) : row.by = j
         /\ pc' = [pc EXCEPT ![j] = "committed"]
         /\ UNCHANGED <<document, vectors, removing, flushed, before, lookup, seen>>
<1>1. flushed[j] = document[j].chunks /\ document[j].chunks \in 1 .. MaxChunks
  BY KnowledgeBaseAssumption
     DEF Commit, TypeInv, TypeOK, Bounded, Documents, MorePairs, PairsMatch
<1>2. RowsOf(j) \subseteq Rows /\ \A row \in RowsOf(j) : row.by = j /\ row.n <= flushed[j]
  BY <1>1, KnowledgeBaseAssumption DEF RowsOf, Rows
<1>3. [by |-> j, n |-> 1] \in RowsOf(j)
  BY <1>1, KnowledgeBaseAssumption DEF RowsOf
<1>4. QED
  BY <1>2, <1>3 DEF Commit, Goto, lookupVars

LEMMA NextInv == Inv /\ [Next]_vars => Inv'
<1> SUFFICES ASSUME Inv, [Next]_vars PROVE Inv'
  OBVIOUS
<1>t. TypeInv /\ TypeInv'
  BY NextTypeInv DEF Inv
<1> DEFINE Rest == OnlyCommitted /\ Locks /\ Finds /\ Whole /\ ReplacedIsGone /\ LookupsSee
<1>0. Rest
  BY DEF Inv
<1>r. /\ table \subseteq Rows /\ \A row \in table : row.by \in Ingestions
      /\ \A i \in Ingestions : \A row \in removing[i] : row.by \in Ingestions
  BY <1>t DEF TypeInv, TypeOK, Rows
<1>2. CASE UNCHANGED vars
  BY <1>0, <1>2, <1>t DEF vars, ingestVars, lookupVars, OnlyCommitted, Locks, Finds, Whole,
     ReplacedIsGone, Replaced, Committed, LookupsSee, Running, SourceOf, RowsOf, Inv
<1>3. ASSUME NEW i \in Ingestions, Ingest(i) \/ Fail(i) PROVE Rest'
  BY <1>0, <1>3, <1>t, <1>r DEF Ingest, Fail, Goto, lookupVars, OnlyCommitted, Locks, Finds, Whole,
     ReplacedIsGone, Replaced, Committed, LookupsSee, Running, SourceOf, RowsOf, TypeInv, TypeOK
<1>4. ASSUME NEW i \in Ingestions, DeleteBegins(i) PROVE Rest'
  <2> USE <1>0, <1>r, <1>t
  <2>1. /\ pc[i] = "embedding" /\ pc' = [pc EXCEPT ![i] = "deleting"]
        /\ removing' = [removing EXCEPT ![i] = Stored(i)]
        /\ before' = [before EXCEPT ![i] = Committed]
        /\ UNCHANGED <<document, flushed, table, lookup, seen>>
    BY <1>4 DEF DeleteBegins, Goto, lookupVars
  <2>2. /\ pc \in [Ingestions -> Steps]
        /\ removing \in [Ingestions -> SUBSET Rows]
        /\ before \in [Ingestions -> SUBSET Ingestions]
    BY DEF TypeInv, TypeOK
  <2>3. OnlyCommitted'
    BY <2>1, <2>2 DEF OnlyCommitted, Running, SourceOf, RowsOf, Stored, Committed
  <2>4. Locks'
    BY <2>1, <2>2 DEF Locks
  <2>5. Finds'
    BY <2>1, <2>2 DEF Finds, Running, SourceOf, Stored
  <2>6. ReplacedIsGone'
    BY <2>1, <2>2 DEF ReplacedIsGone, Replaced, Committed, SourceOf
  <2>7. Whole' /\ LookupsSee'
    BY <2>1, <2>2 DEF Whole, LookupsSee, RowsOf
  <2>8. QED
    BY <2>3, <2>4, <2>5, <2>6, <2>7
<1>5. ASSUME NEW i \in Ingestions, DeleteEnds(i) PROVE Rest'
  <2> USE <1>0, <1>r, <1>t
  <2>1. /\ pc[i] = "deleting" /\ pc' = [pc EXCEPT ![i] = "inserting"]
        /\ removing' = [removing EXCEPT ![i] = removing[i] \cap table]
        /\ \A k \in Ingestions \ {i} : pc[k] = "inserting" => removing[i] \cap removing[k] = {}
        /\ UNCHANGED <<document, vectors, flushed, table, before, lookup, seen>>
    BY <1>5 DEF DeleteEnds, LockedByOthers, Goto, lookupVars
  <2>2. pc \in [Ingestions -> Steps] /\ removing \in [Ingestions -> SUBSET Rows]
    BY DEF TypeInv, TypeOK
  <2>3. OnlyCommitted'
    BY <2>1, <2>2 DEF OnlyCommitted, Running, SourceOf, RowsOf
  <2>4. Locks'
    <3>1. ASSUME NEW a \in Ingestions, pc'[a] = "inserting" PROVE removing'[a] \subseteq table'
      BY <2>1, <2>2, <3>1 DEF Locks
    <3>2. ASSUME NEW a \in Ingestions, pc'[a] = "inserting",
                 NEW b \in Ingestions \ {a}, pc'[b] = "inserting"
          PROVE  removing'[a] \cap removing'[b] = {}
      BY <2>1, <2>2, <3>2 DEF Locks
    <3>3. QED
      BY <3>1, <3>2 DEF Locks
  <2>5. Finds'
    BY <2>1, <2>2 DEF Finds, Running, SourceOf
  <2>6. Whole' /\ ReplacedIsGone' /\ LookupsSee'
    BY <2>1, <2>2 DEF Whole, ReplacedIsGone, Replaced, Committed, LookupsSee, SourceOf, RowsOf
  <2>7. QED
    BY <2>3, <2>4, <2>5, <2>6
<1>6. ASSUME NEW i \in Ingestions, InsertChunk(i) PROVE Rest'
  BY <1>0, <1>6, <1>t, <1>r DEF InsertChunk, lookupVars, OnlyCommitted, Locks, Finds, Whole,
     ReplacedIsGone, Replaced, Committed, LookupsSee, Running, SourceOf, RowsOf
<1>7. ASSUME NEW j \in Ingestions, Commit(j) PROVE Rest'
  <2> USE <1>0, <1>r, <1>t
  <2>1. /\ pc[j] = "inserting"
        /\ table' = (table \ removing[j]) \cup RowsOf(j)
        /\ [by |-> j, n |-> 1] \in RowsOf(j)
        /\ \A row \in RowsOf(j) : row.by = j
        /\ pc' = [pc EXCEPT ![j] = "committed"]
        /\ UNCHANGED <<document, vectors, removing, flushed, before, lookup, seen>>
    BY <1>7, CommitStores
  <2>2. pc \in [Ingestions -> Steps]
    BY DEF TypeInv, TypeOK
  <2>3. OnlyCommitted'
    BY <2>1, <2>2 DEF OnlyCommitted, Running, SourceOf, RowsOf
  <2>4. Locks'
    BY <2>1, <2>2 DEF Locks
  <2>5. Finds'
    BY <2>1, <2>2 DEF Finds, OnlyCommitted, Running, SourceOf
  <2>6. Whole'
    BY <2>1, <2>2 DEF Whole, Finds, OnlyCommitted, Running, RowsOf
  <2>7. ReplacedIsGone'
    BY <2>1, <2>2 DEF ReplacedIsGone, Replaced, Committed, Finds, OnlyCommitted, Running, SourceOf
  <2>8. LookupsSee'
    BY <2>1 DEF LookupsSee
  <2>9. QED
    BY <2>3, <2>4, <2>5, <2>6, <2>7, <2>8
<1>8. ASSUME NEW l \in Lookups, LookupBegins(l) \/ LookupEnds(l) \/ LookupFails(l) PROVE Rest'
  BY <1>0, <1>8, <1>t DEF LookupBegins, LookupEnds, LookupFails, ingestVars, OnlyCommitted, Locks,
     Finds, Whole, ReplacedIsGone, Replaced, Committed, LookupsSee, Running, SourceOf, RowsOf, TypeInv, TypeOK
<1>9. QED
  BY <1>t, <1>2, <1>3, <1>4, <1>5, <1>6, <1>7, <1>8 DEF Next, Inv

LEMMA Invariance == Spec => []Inv
  BY InitInv, NextInv, PTL DEF Spec

\* However ingestions interleave and fail, all the chunks of an ingestion are
\* stored or none (retrieval_service.py, one commit per ingestion).
THEOREM VersionsWhole == Spec => []WholeVersions
<1>1. Inv => WholeVersions
  BY DEF Inv, Whole, WholeVersions, TypeInv, TypeOK, Rows
<1>2. QED
  BY <1>1, Invariance, PTL

\* A version that a later ingestion found and replaced never comes back.
THEOREM ReplacedVersionsGone == Spec => []ReplacedIsGone
<1>1. Inv => ReplacedIsGone
  BY DEF Inv
<1>2. QED
  BY <1>1, Invariance, PTL

\* No ingestion, failed or not, leaves a moment without the document.
THEOREM DocumentNeverMissing == Spec => DocumentStays
<1>1. ASSUME Inv, [Next]_vars, NEW s \in Sources, HasPolicy(s) PROVE HasPolicy(s)'
  <2>1. CASE table' = table /\ document' = document
    BY <1>1, <2>1 DEF HasPolicy, SourceOf
  <2>2. ASSUME NEW j \in Ingestions, Commit(j) PROVE HasPolicy(s)'
    <3>1. PICK row \in table : SourceOf(row) = s
      BY <1>1 DEF HasPolicy
    <3>2. /\ table' = (table \ removing[j]) \cup RowsOf(j) /\ document' = document
          /\ pc[j] = "inserting" /\ [by |-> j, n |-> 1] \in RowsOf(j)
      BY <1>1, <2>2, CommitStores DEF Inv
    <3>3. CASE row \in removing[j]
      <4>1. SourceOf([by |-> j, n |-> 1]) = s
        BY <1>1, <3>1, <3>2, <3>3 DEF Inv, OnlyCommitted, Running, SourceOf
      <4>2. QED
        BY <3>2, <4>1 DEF HasPolicy, SourceOf
    <3>4. CASE row \notin removing[j]
      BY <3>1, <3>2, <3>4 DEF HasPolicy, SourceOf
    <3>5. QED
      BY <3>3, <3>4
  <2>3. QED
    BY <1>1, <2>1, <2>2 DEF Next, vars, ingestVars, lookupVars, Ingest, DeleteBegins, DeleteEnds,
       InsertChunk, Fail, LookupBegins, LookupEnds, LookupFails
<1>2. Inv /\ [Next]_vars => [\A s \in Sources : HasPolicy(s) => HasPolicy(s)']_vars
  BY <1>1
<1>3. QED
  BY <1>2, Invariance, PTL DEF DocumentStays, Spec

\* A claim that looks for a policy when one is stored finds one
\* (retrieval_service.py, retrieve_relevant_policy).
THEOREM LookupsFindPolicy == Spec => []LookupFindsPolicy
<1>1. Inv => LookupFindsPolicy
  BY DEF Inv, LookupsSee, LookupFindsPolicy
<1>2. QED
  BY <1>1, Invariance, PTL
=============================================================================
