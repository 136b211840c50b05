---------------------------- MODULE MCAutomation ----------------------------
(***************************************************************************)
(* Values of the constants of Automation for TLC: the triggers of each run *)
(* and the symmetry of identifiers.                                        *)
(***************************************************************************)
EXTENDS Automation, TLC

OnEvent == [kind |-> "event", every |-> 1]
Every(n) == [kind |-> "interval", every |-> n]
Daily(n) == [kind |-> "daily", every |-> n]

AllTriggers == {OnEvent, Daily(2), Every(1)}

Sym == Permutations(Rule) \cup Permutations(Client)
=============================================================================
