----------------------------- MODULE MCStorage -----------------------------
(***************************************************************************)
(* Values of the constants of Storage for TLC.                             *)
(***************************************************************************)
EXTENDS Storage, TLC

Sym == Permutations(Attachment) \cup Permutations(Request)
=============================================================================
