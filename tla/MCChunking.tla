----------------------------- MODULE MCChunking -----------------------------
(***************************************************************************)
(* Chunking of every document of a few paragraphs.                         *)
(***************************************************************************)
EXTENDS Chunking
=============================================================================
