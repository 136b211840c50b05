--------------------------- MODULE TaskLifecycle ---------------------------
(***************************************************************************)
(* What the task API promises about one task row, stated with no threads,  *)
(* no reads and no stale data: every accepted mutation looks at the row    *)
(* as it is, checks the status transition against it, and writes the new   *)
(* status, the completion mark and the next revision in one step.          *)
(* Module Tasks, where a request validates a row that other requests may   *)
(* change before it writes, is shown to implement this.                    *)
(***************************************************************************)
EXTENDS Naturals

CONSTANT Task          \* the identifiers tasks are created with

VARIABLE life          \* the lifecycle columns of every row

Status == {"todo", "in_progress", "completed", "cancelled"}

\* ALLOWED_TRANSITIONS of services/tasks.py.
AllowedTransitions ==
  [todo        |-> {"in_progress", "completed", "cancelled"},
   in_progress |-> {"todo", "completed", "cancelled"},
   completed   |-> {"todo"},
   cancelled   |-> {"todo"}]

\* _validate_status_transition: a status may be kept or follow the table.
MayBecome(current, target) ==
  target = current \/ target \in AllowedTransitions[current]

LifeInit ==
  life = [t \in Task |->
            [state |-> "absent", revision |-> 0,
             status |-> "todo", completedAt |-> FALSE]]

\* A row appears, in any status, at revision 1.
Appear(t) ==
  /\ life[t].state = "absent"
  /\ \E s \in Status :
       life' = [life EXCEPT ![t] =
                  [state |-> "active", revision |-> 1,
                   status |-> s, completedAt |-> (s = "completed")]]

\* Active rows change together; each follows the table from the status it
\* has now, and moves to its next revision.
Write(rows) ==
  /\ \A t \in rows : life[t].state = "active"
  /\ \E to \in [rows -> Status] :
       /\ \A t \in rows : MayBecome(life[t].status, to[t])
       /\ life' = [t \in Task |->
                     IF t \in rows
                     THEN [state |-> "active",
                           revision |-> life[t].revision + 1,
                           status |-> to[t],
                           completedAt |-> (to[t] = "completed")]
                     ELSE life[t]]

\* An active row is soft-deleted; its columns are kept.
Vanish(t) ==
  /\ life[t].state = "active"
  /\ life' = [life EXCEPT ![t] =
                [state |-> "deleted", revision |-> life[t].revision + 1,
                 status |-> life[t].status, completedAt |-> life[t].completedAt]]

LifeNext ==
  \/ \E t \in Task : Appear(t) \/ Vanish(t)
  \/ \E rows \in SUBSET Task : Write(rows)

LifeSpec == LifeInit /\ [][LifeNext]_life
=============================================================================
