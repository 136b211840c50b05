------------------------------ MODULE MCTasks ------------------------------
(***************************************************************************)
(* Values of the constants of Tasks for TLC: the request bodies clients    *)
(* send in each run, and the symmetry of identifiers and requests.         *)
(***************************************************************************)
EXTENDS Tasks, TLC

Body(status, parent, project) ==
  [status |-> status, parent |-> parent, project |-> project, slot |-> Null]

\* Runs about the life of a row: PATCH bodies name one status, or a slot.
LifecycleRows == {Body("todo", Null, Null), Body("completed", Null, Null)}

LifecyclePatches == {[NoPatch EXCEPT !.status = s] : s \in Status}

\* A constraint: while there are dependencies the tasks are as created, and
\* one request at a time is served.
LinkedWhenNew ==
  (dependency # {} \/ \E r \in Request : request[r].op = "depend") =>
    /\ \A t \in Task : Active(t) => task[t].revision = 1
    /\ Cardinality({r \in Request : request[r].phase # "idle"}) <= 1

\* Runs about the tree and the graph: PATCH bodies move the task.
TreeRows == {Body("todo", p, q) : p \in Field(Task), q \in Field(Project)}

TreePatches ==
  {[NoPatch EXCEPT !.parent = p] : p \in Field(Task)} \cup
  {[NoPatch EXCEPT !.project = q] : q \in Field(Project)}

\* Runs about links between tasks only.
LinkRows == {Body("todo", Null, Null)}
LinkPatches == {[NoPatch EXCEPT !.parent = p] : p \in Task}

Sym == Permutations(Task) \cup Permutations(Request)
=============================================================================
