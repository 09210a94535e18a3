-------------------------- MODULE MCKnowledgeBase --------------------------
(***************************************************************************)
(* KnowledgeBase with three ingestions of up to two documents.             *)
(***************************************************************************)
EXTENDS KnowledgeBase, TLC

\* Ingestions, like lookups, are told apart by nothing but what they do.
Symmetry == Permutations(Ingestions) \cup Permutations(Lookups)
=============================================================================
