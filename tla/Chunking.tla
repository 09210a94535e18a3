------------------------------ MODULE Chunking ------------------------------
(***************************************************************************)
(* chunk_markdown, src/core/services/chunking.py: how a policy document is *)
(* cut into the chunks the knowledge base stores.  One step per paragraph. *)
(*                                                                         *)
(* A paragraph is its length and whether it is a heading; the text itself  *)
(* does not matter.  A chunk is a sequence of pieces: the tail of the      *)
(* chunk before it, a heading carried over, paragraphs.                    *)
(***************************************************************************)
EXTENDS Naturals, SequencesExt

CONSTANTS
  Lengths,       \* lengths a paragraph may have
  MaxParagraphs, \* bound: paragraphs of a document
  ChunkSize,     \* chunk_size
  Overlap        \* chunk_overlap

ASSUME ChunkingAssumption ==
  /\ Lengths \subseteq Nat \ {0}
  /\ MaxParagraphs \in Nat
  /\ Overlap \in Nat
  /\ ChunkSize \in Nat /\ Overlap < ChunkSize

VARIABLES
  paragraphs,    \* the document
  next,          \* the paragraph the loop is at
  current,       \* the pieces of the chunk being packed
  chunks,        \* the chunks finished so far
  finished       \* the function has returned

vars == <<paragraphs, next, current, chunks, finished>>

\* A document's paragraphs, in order; `no` is a paragraph's place in it.
Documents(n) ==
  { [i \in 1 .. n |-> [kind |-> k[i], len |-> l[i], no |-> i]] :
      k \in [1 .. n -> {"heading", "text"}], l \in [1 .. n -> Lengths] }

\* Strings are cut where they have blank lines; blank paragraphs are left out.
Init ==
  /\ \E n \in 0 .. MaxParagraphs : paragraphs \in Documents(n)
  /\ next = 1
  /\ current = << >>
  /\ chunks = << >>
  /\ finished = FALSE

\* Length of pieces joined by blank lines.
Length(pieces) ==
  FoldLeft(LAMBDA sum, piece : sum + piece.len, 0, pieces)
    + (IF pieces = << >> THEN 0 ELSE 2 * (Len(pieces) - 1))

\* The last `chunk_overlap` characters of a finished chunk.
OverlapTail(pieces) ==
  IF Overlap = 0 THEN << >>
  ELSE << [kind |-> "tail", no |-> 0,
           len |-> IF Length(pieces) < Overlap THEN Length(pieces) ELSE Overlap] >>

\* Mutant: the overlap tail is taken for granted.
EndsWithHeadingOffByOne(pieces) == Len(pieces) > 2 /\ Last(pieces).kind = "heading"

\* The chunk has more than a heading and ends with one.
EndsWithHeading(pieces) == Len(pieces) > 1 /\ Last(pieces).kind = "heading"

\* Mutant: the blank lines between the paragraphs are not counted.
FitsWithoutSeparators(pieces, paragraph) ==
  FoldLeft(LAMBDA sum, piece : sum + piece.len, paragraph.len, pieces) <= ChunkSize

Fits(pieces, paragraph) ==
  pieces = << >> \/ Length(Append(pieces, paragraph)) <= ChunkSize

\* Mutant: the carried heading is put into the new chunk and left in the old.
KeptCopying(pieces) == pieces

\* What a finished chunk keeps: all but the heading it hands on.
Kept(pieces) == IF EndsWithHeading(pieces) THEN Front(pieces) ELSE pieces

Carried(pieces) == IF EndsWithHeading(pieces) THEN << Last(pieces) >> ELSE << >>

\* The chunk after a finished one.
StartAfter(pieces, paragraph) ==
  OverlapTail(Kept(pieces)) \o Carried(pieces) \o << paragraph >>

\* Mutant: a document without paragraphs gives one empty chunk.
WithLastAlways == Append(chunks, current)

\* What the function returns: an empty chunk is left out.
WithLast == IF current = << >> THEN chunks ELSE Append(chunks, current)

\* The paragraph still fits into the chunk.
Pack ==
  /\ next <= Len(paragraphs)
  /\ Fits(current, paragraphs[next])
  /\ current' = Append(current, paragraphs[next])
  /\ next' = next + 1
  /\ UNCHANGED <<paragraphs, chunks, finished>>

\* It does not: the chunk is finished, and the next one starts with its tail,
\* the heading it ended with, and the paragraph.
Break ==
  /\ next <= Len(paragraphs)
  /\ ~Fits(current, paragraphs[next])
  /\ chunks' = Append(chunks, Kept(current))
  /\ current' = StartAfter(current, paragraphs[next])
  /\ next' = next + 1
  /\ UNCHANGED <<paragraphs, finished>>

Return ==
  /\ next > Len(paragraphs)
  /\ ~finished
  /\ chunks' = WithLast
  /\ finished' = TRUE
  /\ UNCHANGED <<paragraphs, next, current>>

Next == Pack \/ Break \/ Return

Spec == Init /\ [][Next]_vars

----------------------------------------------------------------------------
(* Properties.                                                             *)

Pieces == [kind : {"heading", "text", "tail"}, len : Nat, no : 0 .. MaxParagraphs]

TypeOK ==
  /\ \A i \in DOMAIN paragraphs : paragraphs[i] \in Pieces
  /\ next \in 1 .. Len(paragraphs) + 1
  /\ \A i \in DOMAIN current : current[i] \in Pieces
  /\ \A i \in DOMAIN chunks : chunks[i] # << >>
  /\ finished \in BOOLEAN

\* Where a chunk has paragraphs of its own.
Own(pieces) == {k \in DOMAIN pieces : pieces[k].kind # "tail"}

\* Nothing is lost, repeated or reordered: without the tails the chunks have the
\* paragraphs of the document, each as it is, one after the other, and in the
\* end all of them; and every chunk but the first starts with the tail of the
\* one before it.
ChunksAreTheDocument ==
  /\ \A i \in DOMAIN chunks : \A k \in Own(chunks[i]) :
       LET n == chunks[i][k].no IN
       /\ n \in DOMAIN paragraphs /\ chunks[i][k] = paragraphs[n]
       /\ \A j \in 1 .. i : \A m \in Own(chunks[j]) :
            j < i \/ m < k => chunks[j][m].no < n
  /\ finished => \A n \in DOMAIN paragraphs :
                   \E i \in DOMAIN chunks : \E k \in Own(chunks[i]) : chunks[i][k].no = n
  /\ \A i \in 2 .. Len(chunks) :
       Overlap > 0 => chunks[i][1] = OverlapTail(chunks[i - 1])[1]

Longest(kind) ==
  LET sizes == {paragraphs[i].len : i \in {k \in DOMAIN paragraphs : paragraphs[k].kind = kind}}
  IN CHOOSE m \in sizes \cup {0} : \A n \in sizes : n <= m

\* How long a chunk really gets: the size asked for, or a tail, a carried
\* heading and one paragraph with their blank lines.
ChunksBounded ==
  LET paragraph == IF Longest("text") > Longest("heading") THEN Longest("text")
                                                           ELSE Longest("heading")
      started   == Overlap + 2 + Longest("heading") + 2 + paragraph
  IN \A i \in DOMAIN chunks :
       Length(chunks[i]) <= IF started > ChunkSize THEN started ELSE ChunkSize

\* "A heading is never left at the end of a chunk" with its two exceptions: one
\* that is alone in its chunk, and one that was followed by another heading,
\* of which only the last moves on.
HeadingMovesOn ==
  \A i \in 1 .. Len(chunks) - 1 :
    Last(chunks[i]).kind = "heading" =>
      \/ Len(chunks[i]) = 1
      \/ \E k \in Own(chunks[i + 1]) : /\ chunks[i + 1][k].kind = "heading"
                                      /\ \A m \in Own(chunks[i + 1]) : k <= m
=============================================================================
