-------------------------- MODULE MCClaimPipeline --------------------------
(***************************************************************************)
(* ClaimPipeline on small instances.                                       *)
(***************************************************************************)
EXTENDS ClaimPipeline, TLC

\* Workers are alike, and so are the request ids that are not empty.
Symmetry == Permutations(Requests \ EmptyIds) \cup Permutations(Workers)
=============================================================================
