----------------------------- MODULE Scheduling -----------------------------
(***************************************************************************)
(* Schedule previews over the task service: services/scheduling.py with    *)
(* its collectors and solver.  A preview reads tasks, dependencies, the    *)
(* schedule and the calendar in a sequence of SELECTs, solves, and stores  *)
(* placements with the evidence they were computed from.  Applying it      *)
(* collects the same evidence again and, if the fingerprints agree, writes *)
(* the chosen placements and the preview's applied_at in one transaction.  *)
(*                                                                         *)
(* A request of Tasks serves one endpoint at a time: a task endpoint, a    *)
(* scheduling endpoint or a calendar write.  Every slot is long enough for *)
(* every task and inside every horizon; dependencies are finish-to-start.  *)
(***************************************************************************)
EXTENDS Tasks

CONSTANTS
  Preview,       \* the identifiers previews are created with
  Event,         \* the identifiers of calendar events
  MaxSelected    \* bound: the tasks of one preview request

ASSUME SchedulingAssumption ==
  /\ Slot \subseteq {slot \in Nat \X Nat : slot[1] < slot[2]}
  /\ MaxSelected \in Nat

VARIABLES
  calendar,      \* events: their revision (0: none yet) and interval
  preview,       \* the scheduling_previews table
  plan           \* what each request holds while it plans or applies

schedVars == <<vars, calendar, preview, plan>>

Overlap(a, b) == a[1] < b[2] /\ b[1] < a[2]
Before(a, b) == a[2] <= b[1]

EventRow == [revision : Nat, slot : Field(Slot)]

NoEvent == [revision |-> 0, slot |-> Null]

\* Evidence: the selected tasks, their dependencies with the prerequisites
\* found for them, the scheduled tasks, and the calendar.  NoRow: not found.
Evidence ==
  [rows : [Task -> Row], edges : SUBSET (Task \X Task), targets : [Task -> Row],
   scheduled : [Task -> Row], events : [Event -> EventRow]]

NoRows == [t \in Task |-> NoRow]

NoEvidence ==
  [rows |-> NoRows, edges |-> {}, targets |-> NoRows, scheduled |-> NoRows,
   events |-> [e \in Event |-> NoEvent]]

PreviewRow ==
  [state : {"absent", "open", "applied"}, expired : BOOLEAN,
   selected : SUBSET Task, evidence : Evidence, placement : [Task -> Field(Slot)]]

NoPlacement == [t \in Task |-> Null]

NoPreview ==
  [state |-> "absent", expired |-> FALSE, selected |-> {},
   evidence |-> NoEvidence, placement |-> NoPlacement]

Phases == {"idle", "tasks", "scheduled", "events", "collected", "write"}

PlanRecord ==
  [phase : Phases, preview : Preview \cup {Null}, selected : SUBSET Task,
   chosen : SUBSET Task, evidence : Evidence]

NoPlan ==
  [phase |-> "idle", preview |-> Null, selected |-> {}, chosen |-> {},
   evidence |-> NoEvidence]

SchedulingTypeOK ==
  /\ TypeOK
  /\ calendar \in [Event -> EventRow]
  /\ preview \in [Preview -> PreviewRow]
  /\ plan \in [Request -> PlanRecord]

SchedulingInit ==
  /\ Init
  /\ calendar = [e \in Event |-> NoEvent]
  /\ preview = [p \in Preview |-> NoPreview]
  /\ plan = [r \in Request |-> NoPlan]

-----------------------------------------------------------------------------
(* collect_scheduling_evidence, one SELECT after the other *)

Free(r) == request[r].phase = "idle" /\ plan[r].phase = "idle"

EndPlan(r) == plan' = [plan EXCEPT ![r] = NoPlan]

\* An error response: nothing was written.
Refuse(r) == EndPlan(r) /\ UNCHANGED <<vars, calendar, preview>>

ReadSelected(r, t) ==
  /\ plan[r].phase = "tasks"
  /\ t \in plan[r].selected
  /\ plan[r].evidence.rows[t] = NoRow
  /\ IF Active(t)
     THEN /\ plan' = [plan EXCEPT ![r].evidence.rows[t] = task[t]]
          /\ UNCHANGED <<vars, calendar, preview>>
     ELSE Refuse(r)

\* A task the session has loaded keeps the columns it was loaded with.
Loaded(r, t) ==
  IF plan[r].evidence.rows[t] # NoRow THEN plan[r].evidence.rows[t] ELSE task[t]

ReadDependencies(r) ==
  LET edges == {e \in dependency : e[1] \in plan[r].selected}
      found == {t \in Task : Active(t) /\ \E e \in edges : e[2] = t}
  IN  /\ plan[r].phase = "tasks"
      /\ \A t \in plan[r].selected : plan[r].evidence.rows[t] # NoRow
      /\ plan' = [plan EXCEPT ![r].phase = "scheduled",
           ![r].evidence.edges = edges,
           ![r].evidence.targets = [t \in Task |-> IF t \in found THEN Loaded(r, t)
                                                   ELSE NoRow]]
      /\ UNCHANGED <<vars, calendar, preview>>

\* The rows that take up time: live, not cancelled, with an interval.
Scheduled(t) == Active(t) /\ task[t].status # "cancelled" /\ task[t].slot # Null

ReadScheduled(r) ==
  /\ plan[r].phase = "scheduled"
  /\ plan' = [plan EXCEPT ![r].phase = "events",
       ![r].evidence.scheduled = [t \in Task |-> IF Scheduled(t) THEN Loaded(r, t)
                                                 ELSE NoRow]]
  /\ UNCHANGED <<vars, calendar, preview>>

ReadEvents(r) ==
  /\ plan[r].phase = "events"
  /\ plan' = [plan EXCEPT ![r].phase = "collected", ![r].evidence.events = calendar]
  /\ UNCHANGED <<vars, calendar, preview>>

\* Mutant: the fingerprint leaves out the dependencies.
FingerprintWithoutDependencies(evidence) ==
  LET columns(row) == <<row.state, row.revision, row.status, row.slot>>
  IN  [selected     |-> [t \in Task |-> columns(evidence.rows[t])],
       scheduled    |-> [t \in Task |-> columns(evidence.scheduled[t])],
       events       |-> {<<e, evidence.events[e].revision>> :
                           e \in {x \in Event : evidence.events[x].slot # Null}}]

\* source_fingerprint: revisions and planning columns, not whole rows.
Fingerprint(evidence) ==
  LET columns(row) == <<row.state, row.revision, row.status, row.slot>>
  IN  [selected     |-> [t \in Task |-> columns(evidence.rows[t])],
       scheduled    |-> [t \in Task |-> columns(evidence.scheduled[t])],
       dependencies |-> {<<e, evidence.targets[e[2]].revision>> : e \in evidence.edges},
       events       |-> {<<e, evidence.events[e].revision>> :
                           e \in {x \in Event : evidence.events[x].slot # Null}}]

-----------------------------------------------------------------------------
(* prepare_solver_tasks and solve_schedule: any placement that satisfies   *)
(* the hard constraints                                                    *)

Solvable(evidence, t) ==
  /\ evidence.rows[t].status \in {"todo", "in_progress"}
  /\ evidence.rows[t].slot = Null
  /\ \A e \in evidence.edges : e[1] = t => evidence.targets[e[2]] # NoRow

PrerequisiteMet(evidence, placement, t, d) ==
  LET target == evidence.targets[d]
  IN  \/ placement[d] # Null /\ Before(placement[d], placement[t])
      \/ target.status = "completed"
      \/ target.slot # Null /\ Before(target.slot, placement[t])

\* Free time: what scheduled tasks and events leave.
FreeSlots(evidence) ==
  {slot \in Slot :
     /\ \A t \in Task : (evidence.scheduled[t] # NoRow /\ evidence.scheduled[t].slot # Null) =>
                          ~Overlap(slot, evidence.scheduled[t].slot)
     /\ \A e \in Event : evidence.events[e].slot # Null =>
                           ~Overlap(slot, evidence.events[e].slot)}

Placed(placement) == {t \in DOMAIN placement : placement[t] # Null}

Schedules(evidence, selected) ==
  {placement \in [Task -> Field(FreeSlots(evidence))] :
     /\ Placed(placement) \subseteq {t \in selected : Solvable(evidence, t)}
     /\ \A t, u \in Placed(placement) : t # u => ~Overlap(placement[t], placement[u])
     /\ \A e \in evidence.edges :
          e[1] \in Placed(placement) => PrerequisiteMet(evidence, placement, e[1], e[2])}

-----------------------------------------------------------------------------
(* POST /scheduling/preview and POST /scheduling/apply *)

BeginPreview(r) ==
  /\ Free(r)
  /\ \E selected \in (SUBSET Task) \ {{}} :
       /\ Cardinality(selected) <= MaxSelected
       /\ plan' = [plan EXCEPT ![r] = [NoPlan EXCEPT !.phase = "tasks",
                                                     !.selected = selected]]
  /\ UNCHANGED <<vars, calendar, preview>>

\* create_scheduling_preview inserts the preview; no task changes.
StorePreview(r) ==
  /\ plan[r].phase = "collected"
  /\ plan[r].preview = Null
  /\ \E p \in Preview, placement \in Schedules(plan[r].evidence, plan[r].selected) :
       /\ preview[p].state = "absent"
       /\ preview' = [preview EXCEPT ![p] =
            [state |-> "open", expired |-> FALSE, selected |-> plan[r].selected,
             evidence |-> plan[r].evidence, placement |-> placement]]
  /\ EndPlan(r)
  /\ UNCHANGED <<vars, calendar>>

\* expires_at passes.
Expire(p) ==
  /\ preview[p].state = "open"
  /\ ~preview[p].expired
  /\ preview' = [preview EXCEPT ![p].expired = TRUE]
  /\ UNCHANGED <<vars, calendar, plan>>

\* The caller accepts every placement or a selection of tasks.
BeginApply(r, p) ==
  /\ Free(r)
  /\ preview[p].state = "open"
  /\ ~preview[p].expired
  /\ \E chosen \in (SUBSET Placed(preview[p].placement)) \ {{}} :
       plan' = [plan EXCEPT ![r] =
         [NoPlan EXCEPT !.phase = "tasks", !.preview = p,
                        !.selected = preview[p].selected, !.chosen = chosen]]
  /\ UNCHANGED <<vars, calendar, preview>>

FingerprintMatches(r) ==
  Fingerprint(plan[r].evidence) = Fingerprint(preview[plan[r].preview].evidence)

CheckApply(r) ==
  /\ plan[r].phase = "collected"
  /\ plan[r].preview # Null
  /\ IF FingerprintMatches(r)
     THEN /\ plan' = [plan EXCEPT ![r].phase = "write"]
          /\ UNCHANGED <<vars, calendar, preview>>
     ELSE Refuse(r)

\* Mutant: the task updates compare no revision.
PlacementsActive(r) == \A t \in plan[r].chosen : Active(t)

\* The WHERE clauses of the task updates, at placement.expected_revision.
PlacementsMatch(r) ==
  \A t \in plan[r].chosen :
    Active(t) /\ task[t].revision = preview[plan[r].preview].evidence.rows[t].revision

\* Mutant: mark_applied does not ask for applied_at IS NULL.
MayMarkAgain(p) == preview[p].state # "absent"

\* The WHERE clause of mark_applied.
MayMarkApplied(p) == preview[p].state = "open"

\* One transaction: the tasks' intervals and applied_at, or nothing.
CommitApply(r) ==
  LET p == plan[r].preview
  IN  /\ plan[r].phase = "write"
      /\ PlacementsMatch(r)
      /\ MayMarkApplied(p)
      /\ task' = [t \in Task |->
           IF t \in plan[r].chosen
           THEN Revise(task[t], [NoPatch EXCEPT !.slot = preview[p].placement[t]])
           ELSE task[t]]
      /\ preview' = [preview EXCEPT ![p].state = "applied"]
      /\ EndPlan(r)
      /\ UNCHANGED <<dependency, archived, request, calendar>>

ApplyConflict(r) ==
  /\ plan[r].phase = "write"
  /\ ~(PlacementsMatch(r) /\ MayMarkApplied(plan[r].preview))
  /\ Refuse(r)

-----------------------------------------------------------------------------
\* A calendar write: create, update, move, resize or delete (Null).
ChangeEvent(r, e) ==
  /\ Free(r)
  /\ calendar[e].revision < MaxRevision
  /\ \E slot \in Field(Slot) :
       /\ calendar[e].slot # slot
       /\ calendar' = [calendar EXCEPT ![e] = [revision |-> @.revision + 1, slot |-> slot]]
  /\ UNCHANGED <<vars, preview, plan>>

\* A task endpoint of Tasks.
ServeTask(r) ==
  /\ plan[r].phase = "idle"
  /\ Serve(r)
  /\ UNCHANGED <<calendar, preview, plan>>

ServePlan(r) ==
  \/ BeginPreview(r) \/ StorePreview(r)
  \/ \E p \in Preview : BeginApply(r, p)
  \/ \E t \in Task : ReadSelected(r, t)
  \/ ReadDependencies(r) \/ ReadScheduled(r) \/ ReadEvents(r)
  \/ CheckApply(r) \/ CommitApply(r) \/ ApplyConflict(r)
  \/ \E e \in Event : ChangeEvent(r, e)

SchedulingNext ==
  \/ \E r \in Request : ServeTask(r) \/ ServePlan(r)
  \/ \E p \in Preview : Expire(p)

SchedulingSpec == SchedulingInit /\ [][SchedulingNext]_schedVars

-----------------------------------------------------------------------------
(* Properties *)

\* The requests that apply placements in a step.
Applying == {r \in Request : plan[r].phase = "write" /\ task' # task
                             /\ plan'[r].phase = "idle"}

\* What apply schedules fits the schedule and the calendar of that moment
\* ("A changed task, dependency, calendar constraint, preference,
\* commitment, or existing scheduled task causes a structured HTTP 409").
Fits(t) ==
  /\ \A u \in Task \ {t} : Scheduled(u)' => ~Overlap(task'[t].slot, task'[u].slot)
  /\ \A e \in Event : calendar[e].slot # Null => ~Overlap(task'[t].slot, calendar[e].slot)

AppliedFits ==
  \A r \in Applying : \A t \in plan[r].chosen : Fits(t)

\* A whole plan that is applied respects the dependencies of that moment:
\* each placed task comes after its prerequisites.
AppliedInOrder ==
  \A r \in Applying :
    plan[r].chosen = Placed(preview[plan[r].preview].placement) =>
      \A e \in dependency : e[1] \in plan[r].chosen =>
        \/ task'[e[2]].status = "completed"
        \/ task'[e[2]].slot # Null /\ Before(task'[e[2]].slot, task'[e[1]].slot)

\* While one client works alone, what apply schedules is free time and in
\* the order of the dependencies, whatever was edited since the preview.
AppliedScheduleFits == [][AppliedFits /\ AppliedInOrder]_schedVars

\* Neither the dependencies nor the tree of tasks have a cycle.
RelationsAcyclic == DependenciesAcyclic /\ ParentsAcyclic

\* A preview is consumed by the first apply that commits, whichever of its
\* placements that apply chose.
AppliedOnce ==
  [][\A r \in Applying : preview[plan[r].preview].state = "open"
                         /\ preview'[plan[r].preview].state = "applied"]_schedVars

\* Whatever commits between the collection of the evidence and the write,
\* a placement lands only on a task that is as the solver saw it.
PlacedAsReviewed ==
  [][\A r \in Applying : \A t \in plan[r].chosen :
       LET seen == preview[plan[r].preview].evidence.rows[t]
       IN  /\ task[t].status = seen.status
           /\ task[t].status \in {"todo", "in_progress"}
           /\ task[t].slot = Null]_schedVars
=============================================================================
