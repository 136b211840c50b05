---------------------------- MODULE MCScenarios ----------------------------
(***************************************************************************)
(* Workloads of the scenarios for TLC, and the symmetry of identifiers and *)
(* requests.                                                               *)
(***************************************************************************)
EXTENDS Scenarios, TLC

\* One client edits tasks, drafts, previews and accepts.
Sequential == {[clients |-> {r}, ops |-> Operations, revisions |-> 3] : r \in Request}

\* Two clients edit tasks and work on one draft of two changes at once.
Drafting == {[clients |-> Request, ops |-> {"add", "preview", "accept"}, revisions |-> 2]}

SequentialAndDrafting == Sequential \cup Drafting

\* Everything of every client.
Everything == {[clients |-> Request, ops |-> Operations, revisions |-> 2]}

Sym ==
  Permutations(Task) \cup Permutations(Scenario) \cup Permutations(Change)
    \cup Permutations(Request)
=============================================================================
