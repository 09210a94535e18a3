-------------------------- MODULE MCClaimDecision --------------------------
(***************************************************************************)
(* ClaimDecision is finite as it stands: every claim, every answer.        *)
(***************************************************************************)
EXTENDS ClaimDecision
=============================================================================
