--------------------------- MODULE KnowledgeBase ---------------------------
(***************************************************************************)
(* The policy documents behind the agents: how they get into               *)
(* `knowledge_base` and how a claim finds the chunk it needs.              *)
(*                                                                         *)
(* ingest_document (src/core/services/retrieval_service.py) embeds the     *)
(* chunks of a document, deletes what was stored under the same source and *)
(* inserts the new chunks, in one READ COMMITTED transaction.  Several     *)
(* ingestions may run at once, and each may fail at any point.  A lookup   *)
(* embeds the text of a claim and takes the nearest chunk there is.        *)
(*                                                                         *)
(* What a chunk says, and which chunk is nearest, is not modelled.         *)
(***************************************************************************)
EXTENDS Naturals, FiniteSets

CONSTANTS
  Ingestions,   \* runs of scripts/ingest_knowledge_base.py
  Lookups,      \* claims that need a policy
  Sources,      \* document names
  MaxChunks     \* bound: chunks of a document

ASSUME KnowledgeBaseAssumption == MaxChunks \in Nat \ {0}

VARIABLES
  document,   \* what each ingestion was given: [source, chunks]
  pc,         \* where each ingestion is
  vectors,    \* how many vectors the embeddings provider returned to it
  removing,   \* the rows its DELETE has found, then those it has locked
  flushed,    \* how many rows its transaction has inserted
  table,      \* the committed rows of knowledge_base
  before,     \* history: the ingestions committed when its DELETE began
  lookup,     \* where each lookup is, in the end what it returned
  seen        \* history: the table when the lookup began

ingestVars == <<document, pc, vectors, removing, flushed, table, before>>
lookupVars == <<lookup, seen>>
vars == <<ingestVars, lookupVars>>

Documents == [source : Sources, chunks : 0 .. MaxChunks]

\* Chunk n of the document that one ingestion stored.
Rows == [by : Ingestions, n : 1 .. MaxChunks]

RowsOf(i) == [by : {i}, n : 1 .. document[i].chunks]

SourceOf(row) == document[row.by].source

Steps == {"new", "embedding", "deleting", "inserting", "committed", "failed", "nothing_to_do"}

LookupSteps == {"new", "embedding", "blank", "failed", "chunk", "nothing"}

TypeOK ==
  /\ document \in [Ingestions -> Documents]
  /\ pc \in [Ingestions -> Steps]
  /\ vectors \in [Ingestions -> 0 .. MaxChunks]
  /\ removing \in [Ingestions -> SUBSET Rows]
  /\ flushed \in [Ingestions -> 0 .. MaxChunks]
  /\ table \subseteq Rows
  /\ before \in [Ingestions -> SUBSET Ingestions]
  /\ lookup \in [Lookups -> LookupSteps]
  /\ seen \in [Lookups -> SUBSET Rows]

Init ==
  /\ document \in [Ingestions -> Documents]
  /\ pc = [i \in Ingestions |-> "new"]
  /\ vectors = [i \in Ingestions |-> 0]
  /\ removing = [i \in Ingestions |-> {}]
  /\ flushed = [i \in Ingestions |-> 0]
  /\ table = {}
  /\ before = [i \in Ingestions |-> {}]
  /\ lookup = [l \in Lookups |-> "new"]
  /\ seen = [l \in Lookups |-> {}]

----------------------------------------------------------------------------
(* Ingestion.                                                              *)

Goto(i, step) == pc' = [pc EXCEPT ![i] = step]

Committed == {i \in Ingestions : pc[i] = "committed"}

\* Mutant: a document without chunks is stored too.
NothingToStoreNever(i) == FALSE

\* `if not chunks: return 0`.
NothingToStore(i) == document[i].chunks = 0

\* The document is read and chunked; its chunks go to the embeddings provider.
Ingest(i) ==
  /\ pc[i] = "new"
  /\ Goto(i, IF NothingToStore(i) THEN "nothing_to_do" ELSE "embedding")
  /\ UNCHANGED <<document, vectors, removing, flushed, table, before, lookupVars>>

\* Mutant: the new chunks overwrite the old ones one by one.
StoredUnderSameNumber(i) ==
  {row \in table : SourceOf(row) = document[i].source /\ row.n <= document[i].chunks}

\* What the DELETE of a statement that begins now will look at.
Stored(i) == {row \in table : SourceOf(row) = document[i].source}

\* The vectors are there and the DELETE of delete_by_source begins: it sees
\* the rows committed by now.
DeleteBegins(i) ==
  /\ pc[i] = "embedding"
  /\ \E n \in 0 .. MaxChunks : vectors' = [vectors EXCEPT ![i] = n]
  /\ removing' = [removing EXCEPT ![i] = Stored(i)]
  /\ before' = [before EXCEPT ![i] = Committed]
  /\ Goto(i, "deleting")
  /\ UNCHANGED <<document, flushed, table, lookupVars>>

\* Rows locked by the DELETE of another transaction that has not ended.
LockedByOthers(i) ==
  UNION {removing[k] : k \in {k \in Ingestions \ {i} : pc[k] = "inserting"}}

\* The DELETE has waited for those transactions.  Rows that one of them has
\* deleted are skipped; rows inserted meanwhile were never looked at.
DeleteEnds(i) ==
  /\ pc[i] = "deleting"
  /\ removing[i] \cap LockedByOthers(i) = {}
  /\ removing' = [removing EXCEPT ![i] = @ \cap table]
  /\ Goto(i, "inserting")
  /\ UNCHANGED <<document, vectors, flushed, table, before, lookupVars>>

\* Mutant: off by one.
MorePairsOffByOne(i) == flushed[i] <= document[i].chunks

\* Chunks and vectors are zipped: there is a next pair.
MorePairs(i) == flushed[i] < document[i].chunks /\ flushed[i] < vectors[i]

InsertChunk(i) ==
  /\ pc[i] = "inserting"
  /\ MorePairs(i)
  /\ flushed' = [flushed EXCEPT ![i] = @ + 1]
  /\ UNCHANGED <<document, pc, vectors, removing, table, before, lookupVars>>

\* Mutant: zip without strict=True.
PairsMatchAlways(i) == TRUE

\* strict=True: as many vectors as chunks.
PairsMatch(i) == vectors[i] = document[i].chunks

\* session.commit(), after the last chunk.
Commit(i) ==
  /\ pc[i] = "inserting"
  /\ ~MorePairs(i)
  /\ PairsMatch(i)
  /\ table' = (table \ removing[i]) \cup {row \in RowsOf(i) : row.n <= flushed[i]}
  /\ Goto(i, "committed")
  /\ UNCHANGED <<document, vectors, removing, flushed, before, lookupVars>>

\* The provider fails, zip raises, the database refuses (a deadlock of two
\* DELETEs among others) or the script is stopped: the session is closed and
\* its transaction rolled back.
Fail(i) ==
  /\ pc[i] \in {"embedding", "deleting", "inserting"}
  /\ Goto(i, "failed")
  /\ UNCHANGED <<document, vectors, removing, flushed, table, before, lookupVars>>

----------------------------------------------------------------------------
(* Lookup: retrieve_relevant_policy.                                       *)

\* A blank text is not looked up.
LookupBegins(l) ==
  /\ lookup[l] = "new"
  /\ \E step \in {"blank", "embedding"} : lookup' = [lookup EXCEPT ![l] = step]
  /\ seen' = [seen EXCEPT ![l] = table]
  /\ UNCHANGED ingestVars

\* find_most_similar, once the text is embedded: one statement, the nearest
\* row, or None when there is none.
LookupEnds(l) ==
  /\ lookup[l] = "embedding"
  /\ lookup' = [lookup EXCEPT ![l] = IF table # {} THEN "chunk" ELSE "nothing"]
  /\ UNCHANGED <<ingestVars, seen>>

\* The provider or the database raises.
LookupFails(l) ==
  /\ lookup[l] = "embedding"
  /\ lookup' = [lookup EXCEPT ![l] = "failed"]
  /\ UNCHANGED <<ingestVars, seen>>

Next ==
  \/ \E i \in Ingestions :
       \/ Ingest(i) \/ DeleteBegins(i) \/ DeleteEnds(i) \/ InsertChunk(i)
       \/ Commit(i) \/ Fail(i)
  \/ \E l \in Lookups : LookupBegins(l) \/ LookupEnds(l) \/ LookupFails(l)

Spec == Init /\ [][Next]_vars

----------------------------------------------------------------------------
(* Properties.                                                             *)

\* However ingestions interleave and fail, a stored document is a whole one:
\* all the chunks of an ingestion are in the table, or none.
WholeVersions ==
  \A i \in Ingestions : RowsOf(i) \subseteq table \/ \A row \in table : row.by # i

\* i had been stored when a later ingestion of the same document, by now
\* committed, began to replace it.
Replaced(i) ==
  \E j \in Committed : i \in before[j] /\ document[i].source = document[j].source

\* "Re-ingesting a document replaces its chunks" (retrieval_service.py): what
\* it replaces never comes back, whatever a third ingestion does.
ReplacedIsGone == \A row \in table : ~Replaced(row.by)

HasPolicy(source) == \E row \in table : SourceOf(row) = source

\* A document in the knowledge base is there at every moment from then on:
\* re-ingesting, failing to or re-ingesting an emptied file never leaves a
\* moment at which a claim finds nothing of it.
DocumentStays == [][\A s \in Sources : HasPolicy(s) => HasPolicy(s)']_vars

\* A lookup that began when a policy was stored does not come back with None.
LookupFindsPolicy == \A l \in Lookups : lookup[l] = "nothing" => seen[l] = {}

\* "... instead of duplicating them": one version of a document at a time.
OneVersion ==
  \A r1, r2 \in table : SourceOf(r1) = SourceOf(r2) => r1.by = r2.by
=============================================================================
