--------------------------- MODULE MCMcpBoundary ---------------------------
(***************************************************************************)
(* McpBoundary with one client that may call one of two tools.             *)
(***************************************************************************)
EXTENDS McpBoundary, TLC

MCAllowlist == {<<"worker", "execute_refund">>}

Symmetry == Permutations(Calls)
=============================================================================
