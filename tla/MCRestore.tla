----------------------------- MODULE MCRestore -----------------------------
(***************************************************************************)
(* Values of the constants of Restore for TLC.                             *)
(***************************************************************************)
EXTENDS Restore, TLC

CONSTANTS a1, a2, v0, v1, v2, v3

\* Every step may raise.
AllSteps == Steps

Sym == Permutations(Attempt) \cup Permutations(Version \ {First, Source})
=============================================================================
