-------------------------- MODULE SchedulingProofs --------------------------
(***************************************************************************)
(* Proofs about Scheduling for any set of tasks, intervals, events,        *)
(* previews and requests, whatever other requests commit between the reads *)
(* of a plan and its write: the types, that a placement lands only on a    *)
(* task that is as the solver saw it, and that a preview is applied once.  *)
(* They rest on the inductive invariant and the row steps of TasksProofs.  *)
(* At the end, that the windows of Capacity are exactly the suitable time. *)
(***************************************************************************)
EXTENDS Scheduling, Capacity, TasksProofs

-----------------------------------------------------------------------------
(* Facts about the records of a plan. *)

\* What stands for "nothing" has the type of what it stands for.
LEMMA EmptyTypes ==
  /\ NoRow \in Row /\ NoRow.revision = 0
  /\ NoEvent \in EventRow
  /\ NoEvidence \in Evidence /\ \A t \in Task : NoEvidence.rows[t] = NoRow
  /\ NoPreview \in PreviewRow
  /\ NoPreview.state = "absent" /\ NoPreview.evidence = NoEvidence
  /\ NoPreview.placement = NoPlacement /\ Placed(NoPlacement) = {}
  /\ NoPlan \in PlanRecord
  /\ NoPlan.phase = "idle" /\ NoPlan.preview = Null /\ NoPlan.evidence = NoEvidence
<1>1. NoRow \in Row /\ NoRow.revision = 0
  BY DEF NoRow, Row, Status, Field
<1>2. NoEvent \in EventRow
  BY DEF NoEvent, EventRow, Field
<1>3. NoEvidence \in Evidence /\ \A t \in Task : NoEvidence.rows[t] = NoRow
  BY <1>1, <1>2 DEF NoEvidence, Evidence, NoRows
<1>4. NoPlacement \in [Task -> Field(Slot)] /\ Placed(NoPlacement) = {}
  BY DEF NoPlacement, Field, Placed
<1>5. /\ NoPreview \in PreviewRow
      /\ NoPreview.state = "absent" /\ NoPreview.evidence = NoEvidence
      /\ NoPreview.placement = NoPlacement
  BY <1>3, <1>4 DEF NoPreview, PreviewRow
<1>6. /\ NoPlan \in PlanRecord
      /\ NoPlan.phase = "idle" /\ NoPlan.preview = Null /\ NoPlan.evidence = NoEvidence
  BY <1>3 DEF NoPlan, PlanRecord, Phases
<1> QED
  BY <1>1, <1>2, <1>3, <1>4, <1>5, <1>6

-----------------------------------------------------------------------------
(* The inductive invariant: what plans and previews hold, and how old it   *)
(* is.                                                                     *)

\* Rows that exist have a revision.
Born == \A t \in Task : task[t].state # "absent" => task[t].revision # 0

\* Evidence of a task that is still at the revision it was read at has the
\* status and the interval the task has now.
Held(row, t) ==
  row = NoRow \/ /\ row.revision <= task[t].revision
                 /\ (Active(t) /\ task[t].revision = row.revision) =>
                      task[t].status = row.status /\ task[t].slot = row.slot

EvidenceHeld(evidence) == \A t \in Task : Held(evidence.rows[t], t)

\* The solver placed only open tasks without an interval.
PlacedOpen(p) ==
  \A t \in Placed(preview[p].placement) :
    LET row == preview[p].evidence.rows[t]
    IN  row.status \in {"todo", "in_progress"} /\ row.slot = Null

\* A request that applies a preview took its selection from it.
AppliesPreview(r) ==
  /\ plan[r].preview # Null =>
       /\ preview[plan[r].preview].state # "absent"
       /\ plan[r].chosen \subseteq Placed(preview[plan[r].preview].placement)
  /\ plan[r].phase = "write" => plan[r].preview # Null

PlanInv ==
  /\ \A p \in Preview : EvidenceHeld(preview[p].evidence) /\ PlacedOpen(p)
  /\ \A r \in Request : EvidenceHeld(plan[r].evidence) /\ AppliesPreview(r)

SInv == IInv /\ Born /\ SchedulingTypeOK /\ PlanInv

-----------------------------------------------------------------------------
(* What a step does to the tasks. *)

\* A row that a step does not touch took a step of RowStep.
LEMMA SameRows ==
  ASSUME TypeOK, UNCHANGED task
  PROVE  \A t \in Task : RowStep(t)
<1> SUFFICES ASSUME NEW t \in Task PROVE RowStep(t)
  OBVIOUS
<1>1. task[t] \in Row /\ task'[t] = task[t] /\ task[t].revision \in Nat
  BY DEF TypeOK, Row
<1>2. task[t] = [task[t] EXCEPT !.parent = task[t].parent]
  BY <1>1 DEF Row
<1> QED
  BY <1>1, <1>2 DEF RowStep, WriteStep

\* Applying a preview revises active rows and leaves their status.
LEMMA ApplyRows ==
  ASSUME SInv, NEW r \in Request, CommitApply(r)
  PROVE  /\ task' \in [Task -> Row]
         /\ Unborn' /\ CompletionRecorded'
         /\ \A t \in Task : RowStep(t)
<1>0. /\ TypeOK /\ Unborn /\ CompletionRecorded
      /\ task \in [Task -> Row] /\ plan[r] \in PlanRecord
      /\ preview \in [Preview -> PreviewRow]
  BY DEF SInv, IInv, TypeInv, TypeOK, SchedulingTypeOK
<1> DEFINE p == plan[r].preview
           patch(t) == [NoPatch EXCEPT !.slot = preview[p].placement[t]]
<1>1. p \in Preview
  <2>1. p # Null
    BY DEF SInv, PlanInv, AppliesPreview, CommitApply
  <2> QED
    BY <1>0, <2>1 DEF PlanRecord
<1>2. /\ task' = [t \in Task |-> IF t \in plan[r].chosen
                                 THEN Revise(task[t], patch(t)) ELSE task[t]]
      /\ \A t \in plan[r].chosen : task[t].state = "active"
  BY DEF CommitApply, PlacementsMatch, Active
<1>3. \A t \in Task : patch(t) \in Patch /\ patch(t).status = Unset
  BY <1>0, <1>1 DEF NoPatch, Patch, PreviewRow, Field
<1> HIDE DEF p, patch
<1>4. ASSUME NEW t \in Task
      PROVE  /\ task'[t] \in Row
             /\ task'[t].state = "absent" => task'[t].revision = 0
             /\ task'[t].completedAt <=> (task'[t].status = "completed")
             /\ RowStep(t)
  <2>0. /\ task[t] \in Row /\ task[t].revision \in Nat
        /\ task[t].state = "absent" => task[t].revision = 0
        /\ task[t].completedAt <=> (task[t].status = "completed")
    BY <1>0 DEF Row, Unborn, CompletionRecorded
  <2>1. CASE t \in plan[r].chosen
    <3> DEFINE new == Revise(task[t], patch(t))
    <3>1. task'[t] = new /\ task[t].state = "active"
      BY <2>1, <1>2
    <3>2. /\ new \in Row
          /\ new.revision = task[t].revision + 1
          /\ new.state = task[t].state
          /\ new.status = Value(patch(t).status, task[t].status)
          /\ new.completedAt = (IF patch(t).status = Unset THEN task[t].completedAt
                                ELSE patch(t).status = "completed")
      BY <1>3, <2>0, ReviseType
    <3> HIDE DEF new
    <3>3. new.status = task[t].status
      BY <3>2, <1>3 DEF Value
    <3>4. new.completedAt = task[t].completedAt
      BY <3>2, <1>3
    <3>5. RowStep(t)
      BY <3>1, <3>2, <2>0 DEF RowStep, WriteStep
    <3> QED
      BY <3>1, <3>2, <3>3, <3>4, <3>5, <2>0
  <2>2. CASE t \notin plan[r].chosen
    <3>1. task'[t] = task[t]
      BY <2>2, <1>2
    <3>2. task[t] = [task[t] EXCEPT !.parent = task[t].parent]
      BY <2>0 DEF Row
    <3> QED
      BY <3>1, <3>2, <2>0 DEF RowStep, WriteStep
  <2> QED
    BY <2>1, <2>2
<1>5. task' \in [Task -> Row]
  BY <1>4, <1>2
<1> QED
  BY <1>4, <1>5 DEF Unborn, CompletionRecorded

\* Every step of the composition is one of these.
LEMMA SchedulingCases ==
  ASSUME [SchedulingNext]_schedVars
  PROVE  \/ UNCHANGED schedVars
         \/ \E r \in Request : ServeTask(r)
         \/ \E r \in Request : CommitApply(r)
         \/ \E r \in Request : ServePlan(r) /\ UNCHANGED vars
         \/ \E p \in Preview : Expire(p)
<1>1. ASSUME NEW r \in Request, ServePlan(r)
      PROVE  CommitApply(r) \/ UNCHANGED vars
  BY <1>1
  DEF ServePlan, BeginPreview, StorePreview, BeginApply, ReadSelected, ReadDependencies,
      ReadScheduled, ReadEvents, CheckApply, ApplyConflict, ChangeEvent, Refuse
<1> QED
  BY <1>1 DEF SchedulingNext

\* The invariant of the task service survives every step of a plan.
LEMMA TaskSteps ==
  ASSUME SInv, [SchedulingNext]_schedVars
  PROVE  IInv' /\ Born' /\ \A t \in Task : RowStep(t)
<1>1. IInv /\ TypeInv /\ TypeOK
  BY DEF SInv, IInv, TypeInv
<1>2. CASE UNCHANGED vars
  <2>1. \A t \in Task : RowStep(t)
    BY <1>1, <1>2, SameRows DEF vars
  <2>2. IInv'
    BY <1>1, <1>2
    DEF vars, IInv, Unborn, CompletionRecorded, Own, Fresh, TypeInv, TypeOK,
        BodyComplete, Active, Seen, Items
  <2> QED
    BY <1>2, <2>1, <2>2 DEF SInv, Born, vars
<1>3. ASSUME NEW r \in Request, ServeTask(r)
      PROVE  IInv' /\ \A t \in Task : RowStep(t)
  <2>1. Serve(r) /\ [Next]_vars
    BY <1>3 DEF ServeTask, Next
  <2> QED
    BY <1>1, <2>1, RowSteps, InductiveStep
<1>4. ASSUME NEW r \in Request, CommitApply(r)
      PROVE  IInv' /\ \A t \in Task : RowStep(t)
  <2>1. UNCHANGED <<dependency, archived, request>>
    BY <1>4 DEF CommitApply
  <2>2. /\ task' \in [Task -> Row]
        /\ Unborn' /\ CompletionRecorded' /\ \A t \in Task : RowStep(t)
    BY <1>4, ApplyRows
  <2>3. TypeInv'
    BY <1>1, <2>1, <2>2 DEF TypeInv, TypeOK, BodyComplete
  <2>4. \A q \in Request : Own(q)' /\ \A t \in Task : Fresh(q, t)'
    BY <1>1, <2>1, <2>2, <2>3, OtherInv
  <2> QED
    BY <2>2, <2>3, <2>4 DEF IInv
<1>5. ASSUME IInv', \A t \in Task : RowStep(t) PROVE Born'
  <2> SUFFICES ASSUME NEW t \in Task, task'[t].state # "absent" PROVE task'[t].revision # 0
    BY DEF Born
  <2>1. /\ task[t].revision \in Nat /\ task'[t].revision \in Nat
        /\ task[t].state \in {"absent", "active", "deleted"}
        /\ task[t].state # "absent" => task[t].revision # 0
        /\ RowStep(t)
    BY <1>1, <1>5 DEF IInv, TypeInv, TypeOK, Row, SInv, Born
  <2> QED
    BY <2>1 DEF RowStep, WriteStep
<1> QED
  BY SchedulingCases, <1>2, <1>3, <1>4, <1>5 DEF schedVars, Expire

-----------------------------------------------------------------------------
(* Evidence stays as fresh as it was read. *)

\* A step of a row keeps what was read of it.
LEMMA HeldStays ==
  ASSUME TypeOK, TypeOK', Unborn, NEW t \in Task, RowStep(t), NEW row \in Row, Held(row, t)
  PROVE  Held(row, t)'
<1>1. /\ task[t] \in Row /\ task[t].revision \in Nat /\ task'[t].revision \in Nat
      /\ row.revision \in Nat
      /\ task[t].state \in {"absent", "active", "deleted"}
  BY DEF TypeOK, Row
<1>2. CASE row = NoRow
  BY <1>2 DEF Held
<1>3. CASE row # NoRow
  <2>1. row.revision <= task'[t].revision
    BY <1>1, <1>3 DEF Held, RowStep, WriteStep
  <2>2. ASSUME task'[t].state = "active", task'[t].revision = row.revision
        PROVE  task'[t].status = row.status /\ task'[t].slot = row.slot
    <3>1. task[t].revision = task'[t].revision /\ row.revision <= task[t].revision
      BY <1>1, <1>3, <2>2 DEF Held, RowStep, WriteStep
    <3>2. CASE task[t].state = "active"
      <4>1. task'[t] = [task[t] EXCEPT !.parent = task'[t].parent]
        BY <3>1, <3>2 DEF RowStep, WriteStep
      <4>2. \A p : LET new == [task[t] EXCEPT !.parent = p]
                   IN  new.status = task[t].status /\ new.slot = task[t].slot
        BY <1>1 DEF Row
      <4> QED
        BY <4>1, <4>2, <3>1, <3>2, <2>2, <1>3 DEF Held, Active
    <3>3. CASE task[t].state = "deleted"
      BY <3>3, <2>2 DEF RowStep, WriteStep
    <3>4. CASE task[t].state = "absent"
      <4>1. task[t].revision = 0
        BY <3>4 DEF Unborn
      <4>2. task'[t] = task[t] \/ task'[t].revision = 1
        BY <3>4 DEF RowStep
      <4> QED
        BY <4>1, <4>2, <3>1, <3>4, <2>2
    <3> QED
      BY <1>1, <3>2, <3>3, <3>4
  <2> QED
    BY <2>1, <2>2, <1>3 DEF Held, Active
<1> QED
  BY <1>2, <1>3

\* The reads of a plan replace parts of its evidence by rows of the tables.
LEMMA EvidenceTypes ==
  ASSUME NEW evidence \in Evidence
  PROVE  /\ \A t \in Task, row \in Row : [evidence EXCEPT !.rows[t] = row] \in Evidence
         /\ \A edges \in SUBSET (Task \X Task), targets \in [Task -> Row] :
              [evidence EXCEPT !.edges = edges, !.targets = targets] \in Evidence
         /\ \A scheduled \in [Task -> Row] :
              [evidence EXCEPT !.scheduled = scheduled] \in Evidence
         /\ \A events \in [Event -> EventRow] :
              [evidence EXCEPT !.events = events] \in Evidence
  BY DEF Evidence

\* A plan moves on with the evidence it has, or with more of it.
LEMMA PlanTypes ==
  ASSUME NEW record \in PlanRecord, NEW evidence \in Evidence, NEW phase \in Phases
  PROVE  LET next == [record EXCEPT !.phase = phase, !.evidence = evidence]
         IN  /\ next \in PlanRecord
             /\ next.phase = phase /\ next.evidence = evidence
             /\ next.preview = record.preview /\ next.chosen = record.chosen
  BY DEF PlanRecord

\* What a plan may become: over, or further on with evidence that holds.
Continues(r, next) ==
  \/ next = NoPlan
  \/ /\ next \in PlanRecord
     /\ EvidenceHeld(next.evidence)
     /\ next.preview = plan[r].preview
     /\ next.chosen = plan[r].chosen
     /\ next.phase = "write" => plan[r].preview # Null

\* A read adds evidence of rows as they are.
LEMMA ReadSteps ==
  ASSUME SInv, NEW r \in Request,
         \/ \E t \in Task : ReadSelected(r, t)
         \/ ReadDependencies(r) \/ ReadScheduled(r) \/ ReadEvents(r)
  PROVE  /\ \E next : Continues(r, next) /\ plan' = [plan EXCEPT ![r] = next]
         /\ UNCHANGED <<vars, calendar, preview>>
<1>0. /\ TypeOK /\ plan \in [Request -> PlanRecord] /\ plan[r] \in PlanRecord
      /\ plan[r].evidence \in Evidence /\ calendar \in [Event -> EventRow]
      /\ EvidenceHeld(plan[r].evidence)
      /\ task \in [Task -> Row] /\ dependency \subseteq Task \X Task
  BY DEF SInv, SchedulingTypeOK, PlanRecord, PlanInv, TypeOK
<1> DEFINE old == plan[r].evidence
<1>1. \A t \in Task : Loaded(r, t) \in Row
  BY <1>0 DEF Loaded, Evidence
<1>2. ASSUME NEW evidence \in Evidence, EvidenceHeld(evidence), NEW phase \in Phases \ {"write"},
             plan' = [plan EXCEPT ![r] = [plan[r] EXCEPT !.phase = phase, !.evidence = evidence]]
      PROVE  \E next : Continues(r, next) /\ plan' = [plan EXCEPT ![r] = next]
  <2> DEFINE next == [plan[r] EXCEPT !.phase = phase, !.evidence = evidence]
  <2>1. /\ next \in PlanRecord
        /\ next.phase = phase /\ next.evidence = evidence
        /\ next.preview = plan[r].preview /\ next.chosen = plan[r].chosen
    BY <1>0, PlanTypes
  <2> HIDE DEF next
  <2>2. Continues(r, next)
    BY <1>2, <2>1 DEF Continues
  <2> QED
    BY <1>2, <2>2 DEF next
<1>3. ASSUME NEW evidence \in Evidence, evidence.rows = old.rows
      PROVE  EvidenceHeld(evidence)
  BY <1>0, <1>3 DEF EvidenceHeld
<1>4. ASSUME NEW t \in Task, ReadSelected(r, t), Active(t)
      PROVE  \E next : Continues(r, next) /\ plan' = [plan EXCEPT ![r] = next]
  <2> DEFINE evidence == [old EXCEPT !.rows[t] = task[t]]
  <2>1. evidence \in Evidence
    BY <1>0, EvidenceTypes
  <2>2. EvidenceHeld(evidence)
    BY <1>0 DEF EvidenceHeld, Held, Evidence, Row
  <2>3. plan' = [plan EXCEPT ![r] = [plan[r] EXCEPT !.phase = "tasks", !.evidence = evidence]]
    BY <1>0, <1>4 DEF ReadSelected, PlanRecord
  <2> HIDE DEF evidence
  <2> QED
    BY <2>1, <2>2, <2>3, <1>2 DEF Phases
<1>5. ASSUME NEW t \in Task, ReadSelected(r, t), ~Active(t)
      PROVE  \E next : Continues(r, next) /\ plan' = [plan EXCEPT ![r] = next]
  BY <1>5 DEF ReadSelected, Refuse, EndPlan, Continues
<1>6. ASSUME ReadDependencies(r)
      PROVE  \E next : Continues(r, next) /\ plan' = [plan EXCEPT ![r] = next]
  <2> DEFINE edges   == {e \in dependency : e[1] \in plan[r].selected}
             found   == {t \in Task : Active(t) /\ \E e \in edges : e[2] = t}
             targets == [t \in Task |-> IF t \in found THEN Loaded(r, t) ELSE NoRow]
             evidence == [old EXCEPT !.edges = edges, !.targets = targets]
  <2>1. targets \in [Task -> Row]
    BY <1>1, EmptyTypes
  <2>2. edges \in SUBSET (Task \X Task)
    BY <1>0
  <2>3. plan' = [plan EXCEPT ![r] = [plan[r] EXCEPT !.phase = "scheduled",
                                                    !.evidence = evidence]]
    <3>1. plan' = [plan EXCEPT ![r].phase = "scheduled", ![r].evidence.edges = edges,
                               ![r].evidence.targets = targets]
      BY <1>6, Zenon DEF ReadDependencies
    <3> HIDE DEF edges, targets
    <3> QED
      BY <3>1, <1>0 DEF PlanRecord, Evidence
  <2> HIDE DEF edges, targets
  <2>4. evidence \in Evidence
    BY <1>0, <2>1, <2>2, EvidenceTypes
  <2>5. evidence.rows = old.rows
    BY <1>0 DEF Evidence
  <2> HIDE DEF evidence
  <2>6. EvidenceHeld(evidence)
    BY <2>4, <2>5, <1>3
  <2>7. "scheduled" \in Phases \ {"write"}
    BY DEF Phases
  <2> QED
    BY <2>3, <2>4, <2>6, <2>7, <1>2
<1>7. ASSUME ReadScheduled(r)
      PROVE  \E next : Continues(r, next) /\ plan' = [plan EXCEPT ![r] = next]
  <2> DEFINE scheduled == [t \in Task |-> IF Scheduled(t) THEN Loaded(r, t) ELSE NoRow]
             evidence  == [old EXCEPT !.scheduled = scheduled]
  <2>1. scheduled \in [Task -> Row]
    BY <1>1, EmptyTypes
  <2>3. plan' = [plan EXCEPT ![r] = [plan[r] EXCEPT !.phase = "events",
                                                    !.evidence = evidence]]
    <3>1. plan' = [plan EXCEPT ![r].phase = "events", ![r].evidence.scheduled = scheduled]
      BY <1>7, Zenon DEF ReadScheduled
    <3> HIDE DEF scheduled
    <3> QED
      BY <3>1, <1>0 DEF PlanRecord, Evidence
  <2> HIDE DEF scheduled
  <2>4. evidence \in Evidence
    BY <1>0, <2>1, EvidenceTypes
  <2>5. evidence.rows = old.rows
    BY <1>0 DEF Evidence
  <2> HIDE DEF evidence
  <2>6. EvidenceHeld(evidence)
    BY <2>4, <2>5, <1>3
  <2>7. "events" \in Phases \ {"write"}
    BY DEF Phases
  <2> QED
    BY <2>3, <2>4, <2>6, <2>7, <1>2
<1>8. ASSUME ReadEvents(r)
      PROVE  \E next : Continues(r, next) /\ plan' = [plan EXCEPT ![r] = next]
  <2> DEFINE evidence == [old EXCEPT !.events = calendar]
  <2>3. plan' = [plan EXCEPT ![r] = [plan[r] EXCEPT !.phase = "collected",
                                                    !.evidence = evidence]]
    BY <1>8, <1>0 DEF ReadEvents, PlanRecord, Evidence
  <2>4. evidence \in Evidence
    BY <1>0, EvidenceTypes
  <2>5. evidence.rows = old.rows
    BY <1>0 DEF Evidence
  <2> HIDE DEF evidence
  <2>6. EvidenceHeld(evidence)
    BY <2>4, <2>5, <1>3
  <2>7. "collected" \in Phases \ {"write"}
    BY DEF Phases
  <2> QED
    BY <2>3, <2>4, <2>6, <2>7, <1>2
<1> QED
  BY <1>4, <1>5, <1>6, <1>7, <1>8
  DEF ReadSelected, ReadDependencies, ReadScheduled, ReadEvents, Refuse

-----------------------------------------------------------------------------
(* What a step does to the plans and the previews. *)

\* A preview that exists stays, with its selection, its placements and its
\* evidence.
Keeps(p) ==
  preview[p].state # "absent" =>
    /\ preview'[p].state # "absent"
    /\ preview'[p].selected = preview[p].selected
    /\ preview'[p].placement = preview[p].placement
    /\ preview'[p].evidence = preview[p].evidence

\* The previews after a step: typed, fresh at the tasks of before the step.
PreviewsStep ==
  /\ preview' \in [Preview -> PreviewRow]
  /\ calendar' \in [Event -> EventRow]
  /\ \A p \in Preview : Keeps(p) /\ EvidenceHeld(preview'[p].evidence) /\ PlacedOpen(p)'

LEMMA PreviewSteps ==
  ASSUME SInv, [SchedulingNext]_schedVars
  PROVE  PreviewsStep
<1>0. /\ preview \in [Preview -> PreviewRow] /\ calendar \in [Event -> EventRow]
      /\ plan \in [Request -> PlanRecord]
      /\ \A p \in Preview : EvidenceHeld(preview[p].evidence) /\ PlacedOpen(p)
      /\ \A r \in Request : EvidenceHeld(plan[r].evidence)
  BY DEF SInv, SchedulingTypeOK, PlanInv
<1>1. CASE UNCHANGED <<preview, calendar>>
  BY <1>0, <1>1 DEF PreviewsStep, Keeps, PlacedOpen
<1>2. ASSUME NEW r \in Request, NEW e \in Event, ChangeEvent(r, e) PROVE PreviewsStep
  <2>1. calendar[e] \in EventRow
    BY <1>0
  <2>2. calendar' \in [Event -> EventRow] /\ UNCHANGED preview
    BY <1>0, <1>2, <2>1 DEF ChangeEvent, EventRow
  <2> QED
    BY <1>0, <2>2 DEF PreviewsStep, Keeps, PlacedOpen
<1>3. ASSUME NEW p \in Preview, NEW row \in PreviewRow, UNCHANGED calendar,
             preview' = [preview EXCEPT ![p] = row],
             preview[p].state # "absent", row.state # "absent",
             row.selected = preview[p].selected,
             row.placement = preview[p].placement, row.evidence = preview[p].evidence
      PROVE  PreviewsStep
  BY <1>0, <1>3 DEF PreviewsStep, Keeps, PlacedOpen
<1>4. ASSUME NEW p \in Preview, Expire(p) PROVE PreviewsStep
  <2> DEFINE row == [preview[p] EXCEPT !.expired = TRUE]
  <2>1. /\ row \in PreviewRow /\ row.state = preview[p].state
        /\ row.selected = preview[p].selected
        /\ row.placement = preview[p].placement /\ row.evidence = preview[p].evidence
    BY <1>0 DEF PreviewRow
  <2>2. /\ preview' = [preview EXCEPT ![p] = row] /\ UNCHANGED calendar
        /\ preview[p].state # "absent"
    BY <1>4 DEF Expire
  <2> HIDE DEF row
  <2> QED
    BY <2>1, <2>2, <1>3
<1>5. ASSUME NEW r \in Request, CommitApply(r) PROVE PreviewsStep
  <2> DEFINE p   == plan[r].preview
             row == [preview[p] EXCEPT !.state = "applied"]
  <2>0. p \in Preview
    BY <1>0, <1>5 DEF SInv, PlanInv, AppliesPreview, CommitApply, PlanRecord
  <2>1. /\ row \in PreviewRow /\ row.state = "applied"
        /\ row.selected = preview[p].selected
        /\ row.placement = preview[p].placement /\ row.evidence = preview[p].evidence
    BY <1>0, <2>0 DEF PreviewRow
  <2>2. /\ preview' = [preview EXCEPT ![p] = row] /\ UNCHANGED calendar
        /\ preview[p].state # "absent"
    BY <1>5 DEF CommitApply, MayMarkApplied
  <2> HIDE DEF row, p
  <2> QED
    BY <2>0, <2>1, <2>2, <1>3
<1>6. ASSUME NEW r \in Request, StorePreview(r) PROVE PreviewsStep
  <2>1. PICK p \in Preview, placement \in Schedules(plan[r].evidence, plan[r].selected) :
          /\ preview[p].state = "absent"
          /\ preview' = [preview EXCEPT ![p] =
               [state |-> "open", expired |-> FALSE, selected |-> plan[r].selected,
                evidence |-> plan[r].evidence, placement |-> placement]]
    BY <1>6 DEF StorePreview
  <2> DEFINE row == [state |-> "open", expired |-> FALSE, selected |-> plan[r].selected,
                     evidence |-> plan[r].evidence, placement |-> placement]
  <2>2. placement \in [Task -> Field(Slot)]
    BY DEF Schedules, FreeSlots, Field
  <2>3. /\ row \in PreviewRow /\ row.evidence = plan[r].evidence
        /\ row.placement = placement
    BY <1>0, <2>2 DEF PreviewRow, PlanRecord
  <2>4. \A t \in Placed(placement) : Solvable(plan[r].evidence, t)
    BY DEF Schedules
  <2>5. preview' = [preview EXCEPT ![p] = row] /\ UNCHANGED calendar
    BY <1>6, <2>1 DEF StorePreview
  <2> HIDE DEF row
  <2>6. ASSUME NEW q \in Preview
        PROVE  Keeps(q) /\ EvidenceHeld(preview'[q].evidence) /\ PlacedOpen(q)'
    <3>1. CASE q = p
      BY <3>1, <2>1, <2>3, <2>4, <2>5, <1>0 DEF Keeps, PlacedOpen, Solvable
    <3>2. CASE q # p
      BY <3>2, <2>5, <1>0 DEF Keeps, PlacedOpen
    <3> QED
      BY <3>1, <3>2
  <2> QED
    BY <1>0, <2>3, <2>5, <2>6 DEF PreviewsStep
<1>7. ASSUME NEW r \in Request, ServePlan(r), ~CommitApply(r), ~StorePreview(r),
             \A e \in Event : ~ChangeEvent(r, e)
      PROVE  UNCHANGED <<preview, calendar>>
  BY <1>7
  DEF ServePlan, BeginPreview, BeginApply, ReadSelected, ReadDependencies, ReadScheduled,
      ReadEvents, CheckApply, ApplyConflict, Refuse
<1> QED
  BY SchedulingCases, <1>1, <1>2, <1>4, <1>5, <1>6, <1>7 DEF schedVars, ServeTask

\* The plans after a step: typed, fresh at the tasks of before the step, and
\* applying placements of their preview.
PlansStep ==
  /\ plan' \in [Request -> PlanRecord]
  /\ \A r \in Request : EvidenceHeld(plan'[r].evidence) /\ AppliesPreview(r)'

LEMMA PlanSteps ==
  ASSUME SInv, [SchedulingNext]_schedVars
  PROVE  PlansStep
<1>0. /\ preview \in [Preview -> PreviewRow] /\ plan \in [Request -> PlanRecord]
      /\ \A r \in Request : EvidenceHeld(plan[r].evidence) /\ AppliesPreview(r)
      /\ \A p \in Preview : Keeps(p)
  BY PreviewSteps DEF SInv, SchedulingTypeOK, PlanInv, PreviewsStep
<1>1. ASSUME NEW r \in Request, plan'[r] = plan[r]
      PROVE  AppliesPreview(r)'
  <2>1. plan[r].preview # Null => plan[r].preview \in Preview
    BY <1>0 DEF PlanRecord
  <2> QED
    BY <1>0, <1>1, <2>1 DEF AppliesPreview, Keeps
<1>2. CASE UNCHANGED plan
  BY <1>0, <1>1, <1>2 DEF PlansStep
<1>3. ASSUME NEW r \in Request, NEW next \in PlanRecord, EvidenceHeld(next.evidence),
             plan' = [plan EXCEPT ![r] = next], AppliesPreview(r)'
      PROVE  PlansStep
  <2>1. ASSUME NEW q \in Request
        PROVE  EvidenceHeld(plan'[q].evidence) /\ AppliesPreview(q)'
    <3>1. CASE q = r
      BY <3>1, <1>0, <1>3
    <3>2. CASE q # r
      BY <3>2, <1>0, <1>1, <1>3
    <3> QED
      BY <3>1, <3>2
  <2> QED
    BY <1>0, <1>3, <2>1 DEF PlansStep
<1>4. EvidenceHeld(NoEvidence)
  BY EmptyTypes DEF EvidenceHeld, Held
<1>5. ASSUME NEW r \in Request, NEW next, Continues(r, next), plan' = [plan EXCEPT ![r] = next]
      PROVE  PlansStep
  <2>1. CASE next = NoPlan
    <3>1. next \in PlanRecord /\ EvidenceHeld(next.evidence)
      BY <2>1, <1>4, EmptyTypes
    <3>2. plan'[r] = next
      BY <1>0, <1>5
    <3>3. AppliesPreview(r)'
      BY <3>2, <2>1, EmptyTypes DEF AppliesPreview
    <3> QED
      BY <3>1, <3>3, <1>3, <1>5
  <2>2. CASE next # NoPlan
    <3>1. /\ next \in PlanRecord /\ EvidenceHeld(next.evidence)
          /\ next.preview = plan[r].preview /\ next.chosen = plan[r].chosen
          /\ next.phase = "write" => plan[r].preview # Null
      BY <2>2, <1>5 DEF Continues
    <3>2. plan'[r] = next
      BY <1>0, <1>5
    <3>3. plan[r].preview # Null => plan[r].preview \in Preview
      BY <1>0 DEF PlanRecord
    <3>4. AppliesPreview(r)'
      BY <3>1, <3>2, <3>3, <1>0 DEF AppliesPreview, Keeps
    <3> QED
      BY <3>1, <3>4, <1>3, <1>5
  <2> QED
    BY <2>1, <2>2
<1>6. ASSUME NEW r \in Request, EndPlan(r) PROVE PlansStep
  BY <1>5, <1>6 DEF EndPlan, Continues
<1>7. ASSUME NEW r \in Request, BeginPreview(r) PROVE PlansStep
  <2>1. PICK selected \in SUBSET Task :
          plan' = [plan EXCEPT ![r] = [NoPlan EXCEPT !.phase = "tasks", !.selected = selected]]
    BY <1>7 DEF BeginPreview
  <2> DEFINE next == [NoPlan EXCEPT !.phase = "tasks", !.selected = selected]
  <2>2. /\ next \in PlanRecord /\ next.phase = "tasks" /\ next.preview = Null
        /\ next.evidence = NoEvidence
    BY EmptyTypes DEF PlanRecord, Phases
  <2>3. plan'[r] = next
    BY <1>0, <2>1
  <2> HIDE DEF next
  <2>4. AppliesPreview(r)'
    BY <2>2, <2>3 DEF AppliesPreview
  <2> QED
    BY <2>1, <2>2, <2>4, <1>3, <1>4 DEF next
<1>8. ASSUME NEW r \in Request, NEW p \in Preview, BeginApply(r, p) PROVE PlansStep
  <2>1. PICK chosen \in SUBSET Placed(preview[p].placement) :
          plan' = [plan EXCEPT ![r] =
            [NoPlan EXCEPT !.phase = "tasks", !.preview = p,
                           !.selected = preview[p].selected, !.chosen = chosen]]
    BY <1>8 DEF BeginApply
  <2> DEFINE next == [NoPlan EXCEPT !.phase = "tasks", !.preview = p,
                                    !.selected = preview[p].selected, !.chosen = chosen]
  <2>2. preview[p].selected \in SUBSET Task /\ chosen \in SUBSET Task
    BY <1>0 DEF PreviewRow, Placed
  <2>3. /\ next \in PlanRecord /\ next.phase = "tasks" /\ next.preview = p
        /\ next.chosen = chosen /\ next.evidence = NoEvidence
    BY <2>2, EmptyTypes DEF PlanRecord, Phases
  <2>4. plan'[r] = next
    BY <1>0, <2>1
  <2> HIDE DEF next
  <2>5. preview[p].state # "absent" /\ UNCHANGED preview
    BY <1>8 DEF BeginApply
  <2>6. AppliesPreview(r)'
    BY <2>1, <2>3, <2>4, <2>5 DEF AppliesPreview
  <2> QED
    BY <2>1, <2>3, <2>6, <1>3, <1>4 DEF next
<1>9. ASSUME NEW r \in Request, CheckApply(r) PROVE PlansStep
  <2>1. CASE plan' = [plan EXCEPT ![r].phase = "write"]
    <3> DEFINE next == [plan[r] EXCEPT !.phase = "write"]
    <3>1. /\ next \in PlanRecord /\ next.evidence = plan[r].evidence
          /\ next.preview = plan[r].preview /\ next.chosen = plan[r].chosen
      BY <1>0 DEF PlanRecord, Phases
    <3>2. plan[r].preview # Null
      BY <1>9 DEF CheckApply
    <3>3. plan' = [plan EXCEPT ![r] = next]
      BY <2>1
    <3> HIDE DEF next
    <3>4. Continues(r, next)
      BY <3>1, <3>2, <1>0 DEF Continues
    <3> QED
      BY <3>3, <3>4, <1>5
  <2>2. CASE EndPlan(r)
    BY <2>2, <1>6
  <2> QED
    BY <1>9, <2>1, <2>2 DEF CheckApply, Refuse
<1>10. ASSUME NEW r \in Request, ServePlan(r) PROVE PlansStep
  <2>1. ASSUME \/ \E t \in Task : ReadSelected(r, t)
               \/ ReadDependencies(r) \/ ReadScheduled(r) \/ ReadEvents(r)
        PROVE  PlansStep
    BY <2>1, <1>5, ReadSteps
  <2>2. CASE StorePreview(r) \/ CommitApply(r) \/ ApplyConflict(r)
    BY <2>2, <1>6 DEF StorePreview, CommitApply, ApplyConflict, Refuse
  <2>3. ASSUME NEW e \in Event, ChangeEvent(r, e) PROVE UNCHANGED plan
    BY <2>3 DEF ChangeEvent
  <2> QED
    BY <1>10, <2>1, <2>2, <2>3, <1>2, <1>7, <1>8, <1>9 DEF ServePlan
<1> QED
  BY <1>2, <1>6, <1>10, SchedulingCases DEF schedVars, ServeTask, Expire, CommitApply

-----------------------------------------------------------------------------
(* The theorems. *)

\* The invariant holds in every reachable state.
LEMMA SchedulingInductive == SchedulingSpec => []SInv
<1>1. SchedulingInit => SInv
  <2> SUFFICES ASSUME SchedulingInit PROVE SInv
    OBVIOUS
  <2>1. IInv /\ TypeOK
    <3>1. NoRow \in Row /\ NoRow.revision = 0 /\ NoRow.state = "absent"
          /\ (NoRow.completedAt <=> (NoRow.status = "completed"))
      BY DEF NoRow, Row, Status, Field
    <3>2. Idle.phase = "idle" /\ \A t \in Task : Idle.expected[t] = 0 /\ Idle.seen[t] = NoRow
      BY DEF Idle
    <3>3. TypeInv /\ TypeOK
      BY <3>1, <3>2, IdleType DEF SchedulingInit, Init, TypeInv, TypeOK, BodyComplete
    <3>4. Unborn /\ CompletionRecorded
      BY <3>1 DEF SchedulingInit, Init, Unborn, CompletionRecorded
    <3>5. \A r \in Request : Own(r) /\ \A t \in Task : Fresh(r, t)
      BY <3>1, <3>2 DEF SchedulingInit, Init, Own, Fresh
    <3> QED
      BY <3>3, <3>4, <3>5 DEF IInv
  <2>2. Born
    BY DEF SchedulingInit, Init, Born, NoRow
  <2>3. SchedulingTypeOK
    BY <2>1, EmptyTypes DEF SchedulingInit, SchedulingTypeOK
  <2>4. EvidenceHeld(NoEvidence)
    BY EmptyTypes DEF EvidenceHeld, Held
  <2>5. PlanInv
    BY <2>4, EmptyTypes DEF SchedulingInit, PlanInv, PlacedOpen, AppliesPreview
  <2> QED
    BY <2>1, <2>2, <2>3, <2>5 DEF SInv
<1>2. SInv /\ [SchedulingNext]_schedVars => SInv'
  <2> SUFFICES ASSUME SInv, [SchedulingNext]_schedVars PROVE SInv'
    OBVIOUS
  <2>1. IInv' /\ Born' /\ \A t \in Task : RowStep(t)
    BY TaskSteps
  <2>2. TypeOK /\ TypeOK' /\ Unborn
    BY <2>1 DEF SInv, IInv, TypeInv
  <2>3. PreviewsStep /\ PlansStep
    BY PreviewSteps, PlanSteps
  <2>4. SchedulingTypeOK'
    BY <2>2, <2>3 DEF SchedulingTypeOK, PreviewsStep, PlansStep
  <2>5. ASSUME NEW p \in Preview PROVE EvidenceHeld(preview[p].evidence)'
    <3> SUFFICES ASSUME NEW t \in Task PROVE Held(preview[p].evidence.rows[t], t)'
      BY DEF EvidenceHeld
    <3> DEFINE row == preview'[p].evidence.rows[t]
    <3>1. row \in Row /\ Held(row, t)
      BY <2>3 DEF PreviewsStep, PreviewRow, Evidence, EvidenceHeld
    <3>2. RowStep(t)
      BY <2>1
    <3> HIDE DEF row
    <3>3. row.revision \in Nat
      BY <3>1 DEF Row
    <3> QED
      BY <3>1, <3>2, <2>2, HeldStays DEF row, Held, Active
  <2>6. ASSUME NEW r \in Request PROVE EvidenceHeld(plan[r].evidence)'
    <3> SUFFICES ASSUME NEW t \in Task PROVE Held(plan[r].evidence.rows[t], t)'
      BY DEF EvidenceHeld
    <3> DEFINE row == plan'[r].evidence.rows[t]
    <3>1. row \in Row /\ Held(row, t)
      BY <2>3 DEF PlansStep, PlanRecord, Evidence, EvidenceHeld
    <3>2. RowStep(t)
      BY <2>1
    <3> QED
      BY <3>1, <3>2, <2>2, HeldStays DEF Held, Active
  <2>7. PlanInv'
    BY <2>3, <2>5, <2>6 DEF PlanInv, PreviewsStep, PlansStep
  <2> QED
    BY <2>1, <2>4, <2>7 DEF SInv
<1> QED
  BY <1>1, <1>2, PTL DEF SchedulingSpec

\* Tables, plans and previews have the declared types in every reachable
\* state: what CheckApply compares and CommitApply writes are rows.
THEOREM SchedulingTypes == SchedulingSpec => []SchedulingTypeOK
<1>1. SInv => SchedulingTypeOK
  BY DEF SInv
<1> QED
  BY <1>1, SchedulingInductive, PTL

\* A request that applies placements does it by CommitApply.
LEMMA ApplyingCommits ==
  ASSUME SInv, SchedulingNext, NEW r \in Applying
  PROVE  r \in Request /\ CommitApply(r) /\ plan[r].preview \in Preview
<1>1. /\ r \in Request /\ plan[r].phase = "write" /\ task' # task /\ plan'[r].phase = "idle"
      /\ plan \in [Request -> PlanRecord]
  BY DEF Applying, SInv, SchedulingTypeOK
<1>2. ASSUME NEW q \in Request, ServeTask(q) PROVE FALSE
  BY <1>1, <1>2 DEF ServeTask
<1>3. PICK q \in Request : CommitApply(q)
  BY <1>1, <1>2, SchedulingCases DEF vars, schedVars, Expire
<1>4. q = r
  BY <1>1, <1>3 DEF CommitApply, EndPlan
<1>5. plan[r].preview \in Preview
  BY <1>1 DEF SInv, PlanInv, AppliesPreview, PlanRecord
<1> QED
  BY <1>1, <1>3, <1>4, <1>5

\* mark_applied and the writes of the placements are one transaction: the
\* first apply that commits consumes the preview, and no other commits one.
THEOREM ApplyTheorem == SchedulingSpec => AppliedOnce
<1>1. SInv /\ [SchedulingNext]_schedVars =>
        [\A r \in Applying : preview[plan[r].preview].state = "open"
                             /\ preview'[plan[r].preview].state = "applied"]_schedVars
  <2> SUFFICES ASSUME SInv, SchedulingNext, NEW r \in Applying
               PROVE  /\ preview[plan[r].preview].state = "open"
                      /\ preview'[plan[r].preview].state = "applied"
    OBVIOUS
  <2>1. CommitApply(r) /\ plan[r].preview \in Preview
    BY ApplyingCommits
  <2>2. preview \in [Preview -> PreviewRow] /\ preview[plan[r].preview] \in PreviewRow
    BY <2>1 DEF SInv, SchedulingTypeOK
  <2>3. preview' = [preview EXCEPT ![plan[r].preview].state = "applied"]
        /\ preview[plan[r].preview].state = "open"
    BY <2>1 DEF CommitApply, MayMarkApplied
  <2> QED
    BY <2>1, <2>2, <2>3 DEF PreviewRow
<1> QED
  BY <1>1, SchedulingInductive, PTL DEF SchedulingSpec, AppliedOnce

\* The revision in the WHERE clause of the update identifies what the solver
\* saw.
LEMMA AppliesToReviewed ==
  ASSUME SInv, SchedulingNext, NEW r \in Applying, NEW t \in plan[r].chosen
  PROVE  LET seen == preview[plan[r].preview].evidence.rows[t]
         IN  /\ t \in Task /\ t \in Placed(preview[plan[r].preview].placement)
             /\ task[t].status = seen.status
             /\ task[t].status \in {"todo", "in_progress"}
             /\ task[t].slot = Null
<1> DEFINE p    == plan[r].preview
           seen == preview[p].evidence.rows[t]
<1>1. CommitApply(r) /\ p \in Preview /\ r \in Request
  BY ApplyingCommits
<1>2. Active(t) /\ task[t].revision = seen.revision
  BY <1>1 DEF CommitApply, PlacementsMatch
<1>3. t \in Placed(preview[p].placement)
  <2>1. p # Null
    BY <1>1 DEF SInv, PlanInv, AppliesPreview, CommitApply
  <2> QED
    BY <1>1, <2>1 DEF SInv, PlanInv, AppliesPreview
<1>4. t \in Task
  BY <1>1, <1>3 DEF Placed, SInv, SchedulingTypeOK, PreviewRow
<1>5. Held(seen, t) /\ seen.status \in {"todo", "in_progress"} /\ seen.slot = Null
  BY <1>1, <1>3, <1>4 DEF SInv, PlanInv, EvidenceHeld, PlacedOpen
<1>6. task[t].revision # 0
  BY <1>2, <1>4 DEF SInv, Born, Active
<1> HIDE DEF seen
<1>7. seen # NoRow
  BY <1>2, <1>6, EmptyTypes
<1> QED
  BY <1>2, <1>3, <1>4, <1>5, <1>7 DEF Held, seen

\* Whatever commits while apply collects its evidence or after it, the
\* revision in the WHERE clause of each task update makes sure that the
\* task still has the status and the missing interval the solver saw.
THEOREM PlacementTheorem == SchedulingSpec => PlacedAsReviewed
<1>1. SInv /\ [SchedulingNext]_schedVars =>
        [\A r \in Applying : \A t \in plan[r].chosen :
           LET seen == preview[plan[r].preview].evidence.rows[t]
           IN  /\ task[t].status = seen.status
               /\ task[t].status \in {"todo", "in_progress"}
               /\ task[t].slot = Null]_schedVars
  BY AppliesToReviewed
<1> QED
  BY <1>1, SchedulingInductive, PTL DEF SchedulingSpec, PlacedAsReviewed

-----------------------------------------------------------------------------
(* One client at a time. *)

\* A client is served by one endpoint at a time.
Busy(r) == request[r].phase = "idle" \/ plan[r].phase = "idle"

SoloInv == RelationsInv /\ \A r \in Request : Busy(r)

\* Applying a plan moves no task in the tree.
LEMMA ApplyRelations ==
  ASSUME SInv, RelationsInv, NEW r \in Request, CommitApply(r)
  PROVE  Relations'
<1>0. /\ task \in [Task -> Row] /\ \A t \in Task : task[t] \in Row
      /\ plan[r] \in PlanRecord /\ preview \in [Preview -> PreviewRow]
      /\ dependency \subseteq Task \X Task
      /\ Relations
  BY DEF SInv, IInv, TypeInv, TypeOK, SchedulingTypeOK, RelationsInv
<1> DEFINE p == plan[r].preview
           patch(t) == [NoPatch EXCEPT !.slot = preview[p].placement[t]]
<1>1. p \in Preview
  <2>1. p # Null
    BY DEF SInv, PlanInv, AppliesPreview, CommitApply
  <2> QED
    BY <1>0, <2>1 DEF PlanRecord
<1>2. /\ task' = [t \in Task |-> IF t \in plan[r].chosen
                                 THEN Revise(task[t], patch(t)) ELSE task[t]]
      /\ UNCHANGED dependency
  BY DEF CommitApply
<1>3. \A t \in Task : patch(t) \in Patch /\ patch(t).parent = Unset
  BY <1>0, <1>1 DEF NoPatch, Patch, PreviewRow, Field
<1> HIDE DEF p, patch
<1>4. \A t \in Task : task'[t].state = task[t].state /\ task'[t].parent = task[t].parent
  BY <1>0, <1>2, <1>3, ReviseType, ReviseParent DEF Value
<1>5. ParentEdges' = ParentEdges
  BY <1>4 DEF ParentEdges, Active
<1>6. LinksLive'
  <2>1. \A t \in Task : task[t].parent # Null => task[t].parent \in Task
    BY <1>0 DEF Row, Field
  <2> QED
    BY <1>0, <1>2, <1>4, <2>1 DEF LinksLive, Active, Relations
<1> QED
  BY <1>0, <1>2, <1>5, <1>6
  DEF Relations, DependenciesAcyclic, ParentsAcyclic, OnCycle, Reaches

LEMMA SoloStep ==
  ASSUME OneClient, SInv, SoloInv, [SchedulingNext]_schedVars
  PROVE  SoloInv'
<1>0. /\ IInv /\ RelationsInv /\ \A r \in Request : Busy(r)
      /\ plan \in [Request -> PlanRecord]
  BY DEF SInv, SoloInv, SchedulingTypeOK
<1>1. ASSUME UNCHANGED vars PROVE RelationsInv'
  BY <1>0, <1>1
  DEF vars, RelationsInv, Relations, DependenciesAcyclic, ParentsAcyclic, OnCycle, Reaches,
      LinksLive, Carries, ParentEdges, Active, LinkTo, Items
<1>2. CASE UNCHANGED schedVars
  BY <1>0, <1>1, <1>2 DEF schedVars, vars, SoloInv, Busy
<1>3. ASSUME NEW r \in Request, ServeTask(r) PROVE SoloInv'
  <2>1. plan'[r].phase = "idle" /\ Serve(r)
    BY <1>3 DEF ServeTask
  <2>2. \A q \in Request : Busy(q)'
    BY <2>1 DEF OneClient, Busy
  <2> QED
    BY <1>0, <2>1, <2>2, RelationsStep DEF SoloInv
<1>4. ASSUME NEW r \in Request, CommitApply(r) PROVE SoloInv'
  <2>1. plan'[r].phase = "idle" /\ plan[r].phase = "write" /\ UNCHANGED request
    BY <1>0, <1>4, EmptyTypes DEF CommitApply, EndPlan
  <2>2. request'[r].phase = "idle"
    BY <1>0, <2>1 DEF Busy
  <2>3. \A q \in Request : Carries(q)' /\ Busy(q)'
    BY <2>1, <2>2, IdleCarries DEF OneClient, Busy
  <2> QED
    BY <1>0, <1>4, <2>3, ApplyRelations DEF SoloInv, RelationsInv
<1>5. ASSUME NEW r \in Request, ServePlan(r), UNCHANGED vars PROVE SoloInv'
  <2>1. request[r].phase = "idle" \/ plan[r].phase = "idle"
    BY <1>0 DEF Busy
  <2>2. request[r].phase = "idle" \/ plan'[r].phase = "idle"
    BY <1>0, <1>5, <2>1
    DEF ServePlan, BeginPreview, StorePreview, BeginApply, ReadSelected, ReadDependencies,
        ReadScheduled, ReadEvents, CheckApply, CommitApply, ApplyConflict, ChangeEvent, Free
  <2>3. \A q \in Request : Busy(q)'
    BY <1>5, <2>2 DEF OneClient, Busy, vars
  <2> QED
    BY <1>1, <1>5, <2>3 DEF SoloInv
<1>6. ASSUME NEW p \in Preview, Expire(p) PROVE SoloInv'
  BY <1>0, <1>1, <1>6 DEF Expire, vars, SoloInv, Busy
<1> QED
  BY SchedulingCases, <1>2, <1>3, <1>4, <1>5, <1>6

LEMMA SoloInductive ==
  ASSUME OneClient
  PROVE  SchedulingSpec => []SoloInv
<1>1. SchedulingInit => SoloInv
  BY RelationsInit, EmptyTypes DEF SchedulingInit, SoloInv, Busy
<1>2. SInv /\ SoloInv /\ [SchedulingNext]_schedVars => SoloInv'
  BY SoloStep
<1> QED
  BY <1>1, <1>2, SchedulingInductive, PTL DEF SchedulingSpec

\* While one client links, moves, deletes, plans and applies, neither graph
\* nor tree gets a cycle.
THEOREM AcyclicTheorem ==
  ASSUME OneClient
  PROVE  SchedulingSpec => []RelationsAcyclic
<1>1. SoloInv => RelationsAcyclic
  BY DEF SoloInv, RelationsInv, Relations, RelationsAcyclic
<1> QED
  BY <1>1, SoloInductive, PTL

\* While one client works, no dependency and no parent is a deleted task.
THEOREM LinksTheorem ==
  ASSUME OneClient
  PROVE  SchedulingSpec => []LinksLive
<1>1. SoloInv => LinksLive
  BY DEF SoloInv, RelationsInv, Relations
<1> QED
  BY <1>1, SoloInductive, PTL

-----------------------------------------------------------------------------
(* Applying with one client: what a plan has collected is what the tables  *)
(* hold, and the fingerprint carries it over to the preview.               *)

Reached(r, phases) == plan[r].phase \in phases

\* The evidence of a plan is that of the tables, as far as it has got.
CurrentPlan(r) ==
  LET evidence == plan[r].evidence
  IN  /\ plan[r].phase = "idle" => plan[r] = NoPlan
      /\ \A t \in Task : evidence.rows[t] \in {NoRow, task[t]}
      /\ \A t \in Task : evidence.targets[t] \in {NoRow, task[t]}
      /\ Reached(r, {"scheduled", "events", "collected", "write"}) =>
           /\ evidence.edges = {e \in dependency : e[1] \in plan[r].selected}
           /\ \A e \in evidence.edges : Active(e[2]) => evidence.targets[e[2]] = task[e[2]]
      /\ Reached(r, {"events", "collected", "write"}) =>
           \A t \in Task : evidence.scheduled[t] = IF Scheduled(t) THEN task[t] ELSE NoRow
      /\ Reached(r, {"collected", "write"}) => evidence.events = calendar

\* A plan that applies a preview is for its tasks, and is about to write
\* only once the fingerprints agree.
MatchesPreview(r) ==
  /\ plan[r].preview # Null => plan[r].selected = preview[plan[r].preview].selected
  /\ plan[r].phase = "write" => FingerprintMatches(r)

\* An event that is still at the revision it was read at has not moved.
EventsHeld(evidence) ==
  \A e \in Event :
    /\ evidence.events[e].revision <= calendar[e].revision
    /\ evidence.events[e].revision = calendar[e].revision => evidence.events[e] = calendar[e]

TargetsHeld(evidence) == \A t \in Task : Held(evidence.targets[t], t)

\* A stored preview is a solution, and its evidence ages.
SolvedPreview(p) ==
  preview[p].state # "absent" =>
    /\ preview[p].placement \in Schedules(preview[p].evidence, preview[p].selected)
    /\ EventsHeld(preview[p].evidence)
    /\ TargetsHeld(preview[p].evidence)

ApplyInv ==
  /\ \A r \in Request : CurrentPlan(r) /\ MatchesPreview(r)
  /\ \A p \in Preview : SolvedPreview(p)

\* A plan that is over has collected nothing.
LEMMA OverCurrent ==
  ASSUME NEW r \in Request, plan'[r] = NoPlan
  PROVE  CurrentPlan(r)' /\ MatchesPreview(r)'
<1>1. \A t \in Task : NoEvidence.rows[t] = NoRow /\ NoEvidence.targets[t] = NoRow
  BY DEF NoEvidence, NoRows
<1>2. NoPlan.phase = "idle" /\ NoPlan.preview = Null /\ NoPlan.evidence = NoEvidence
  BY EmptyTypes
<1> QED
  BY <1>1, <1>2 DEF CurrentPlan, MatchesPreview, Reached

\* The reads of a plan copy the tables.
LEMMA ReadsCurrent ==
  ASSUME SInv, ApplyInv, NEW r \in Request, UNCHANGED <<task, dependency, calendar, preview>>,
         \/ \E t \in Task : ReadSelected(r, t)
         \/ ReadDependencies(r) \/ ReadScheduled(r) \/ ReadEvents(r)
  PROVE  CurrentPlan(r)' /\ MatchesPreview(r)'
<1>0. /\ plan \in [Request -> PlanRecord] /\ plan[r] \in PlanRecord
      /\ plan[r].evidence \in Evidence
      /\ CurrentPlan(r) /\ MatchesPreview(r)
      /\ dependency \subseteq Task \X Task
  BY DEF SInv, IInv, TypeInv, TypeOK, SchedulingTypeOK, PlanRecord, ApplyInv
<1> DEFINE old == plan[r].evidence
           new == plan'[r].evidence
<1>1. CASE plan'[r] = NoPlan
  BY <1>1, OverCurrent
<1>2. \A t \in Task : Loaded(r, t) = task[t]
  BY <1>0 DEF Loaded, CurrentPlan
<1>3. ASSUME plan'[r].preview = plan[r].preview, plan'[r].selected = plan[r].selected,
             plan'[r].phase # "write"
      PROVE  MatchesPreview(r)'
  BY <1>0, <1>3 DEF MatchesPreview
<1>4. ASSUME NEW t \in Task, ReadSelected(r, t), Active(t)
      PROVE  CurrentPlan(r)' /\ MatchesPreview(r)'
  <2> DEFINE evidence == [old EXCEPT !.rows[t] = task[t]]
  <2>0. plan' = [plan EXCEPT ![r] = [plan[r] EXCEPT !.phase = "tasks", !.evidence = evidence]]
    BY <1>0, <1>4 DEF ReadSelected, PlanRecord
  <2>3. evidence.rows = [old.rows EXCEPT ![t] = task[t]] /\ evidence.targets = old.targets
    BY <1>0 DEF Evidence
  <2> HIDE DEF evidence
  <2>4. /\ plan'[r].phase = "tasks" /\ plan'[r].selected = plan[r].selected
        /\ plan'[r].preview = plan[r].preview /\ new = evidence
    BY <1>0, <2>0 DEF PlanRecord
  <2>1. /\ plan'[r].phase = "tasks" /\ plan'[r].selected = plan[r].selected
        /\ plan'[r].preview = plan[r].preview
        /\ new.rows = [old.rows EXCEPT ![t] = task[t]] /\ new.targets = old.targets
    BY <2>3, <2>4
  <2>2. \A u \in Task : new.rows[u] \in {NoRow, task[u]} /\ new.targets[u] \in {NoRow, task[u]}
    BY <1>0, <2>1 DEF CurrentPlan, Evidence
  <2> HIDE DEF new
  <2> QED
    BY <1>3, <2>1, <2>2 DEF CurrentPlan, Reached, new
<1>5. CASE ReadDependencies(r)
  <2> DEFINE edges   == {e \in dependency : e[1] \in plan[r].selected}
             found   == {t \in Task : Active(t) /\ \E e \in edges : e[2] = t}
             targets == [t \in Task |-> IF t \in found THEN Loaded(r, t) ELSE NoRow]
  <2>1. plan' = [plan EXCEPT ![r].phase = "scheduled", ![r].evidence.edges = edges,
                             ![r].evidence.targets = targets]
    BY <1>5, Zenon DEF ReadDependencies
  <2>2. \A t \in Task : targets[t] \in {NoRow, task[t]}
    BY <1>2
  <2>3. \A e \in edges : Active(e[2]) => targets[e[2]] = task[e[2]]
    BY <1>0, <1>2
  <2> HIDE DEF edges, targets
  <2>4. /\ plan'[r].phase = "scheduled" /\ plan'[r].selected = plan[r].selected
        /\ plan'[r].preview = plan[r].preview
        /\ new.rows = old.rows /\ new.targets = targets /\ new.edges = edges
    BY <1>0, <2>1 DEF PlanRecord, Evidence
  <2>5. edges = {e \in dependency : e[1] \in plan[r].selected}
    BY DEF edges
  <2> HIDE DEF new
  <2> QED
    BY <1>0, <1>3, <2>2, <2>3, <2>4, <2>5 DEF CurrentPlan, Reached, Active, new
<1>6. CASE ReadScheduled(r)
  <2> DEFINE scheduled == [t \in Task |-> IF Scheduled(t) THEN Loaded(r, t) ELSE NoRow]
  <2>1. plan' = [plan EXCEPT ![r].phase = "events", ![r].evidence.scheduled = scheduled]
    BY <1>6, Zenon DEF ReadScheduled
  <2>2. \A t \in Task : scheduled[t] = IF Scheduled(t) THEN task[t] ELSE NoRow
    BY <1>2
  <2>3. plan[r].phase = "scheduled"
    BY <1>6 DEF ReadScheduled
  <2> HIDE DEF scheduled
  <2>4. /\ plan'[r].phase = "events" /\ plan'[r].selected = plan[r].selected
        /\ plan'[r].preview = plan[r].preview
        /\ new.rows = old.rows /\ new.targets = old.targets /\ new.edges = old.edges
        /\ new.scheduled = scheduled
    BY <1>0, <2>1 DEF PlanRecord, Evidence
  <2> HIDE DEF new
  <2> QED
    BY <1>0, <1>3, <2>2, <2>3, <2>4 DEF CurrentPlan, Reached, Active, Scheduled, new
<1>7. CASE ReadEvents(r)
  <2>1. /\ plan'[r].phase = "collected" /\ plan'[r].selected = plan[r].selected
        /\ plan'[r].preview = plan[r].preview
        /\ new.rows = old.rows /\ new.targets = old.targets /\ new.edges = old.edges
        /\ new.scheduled = old.scheduled /\ new.events = calendar
        /\ plan[r].phase = "events"
    BY <1>0, <1>7 DEF ReadEvents, PlanRecord, Evidence
  <2> HIDE DEF new
  <2> QED
    BY <1>0, <1>3, <2>1 DEF CurrentPlan, Reached, Active, Scheduled, new
<1>8. ASSUME NEW t \in Task, ReadSelected(r, t), ~Active(t)
      PROVE  plan'[r] = NoPlan
  BY <1>0, <1>8 DEF ReadSelected, Refuse, EndPlan
<1> QED
  BY <1>1, <1>4, <1>5, <1>6, <1>7, <1>8

\* Plans follow the tables: while a plan collects, its client writes nothing.
LEMMA PlansCurrent ==
  ASSUME OneClient, SInv, SoloInv, ApplyInv, [SchedulingNext]_schedVars, NEW r \in Request
  PROVE  CurrentPlan(r)' /\ MatchesPreview(r)'
<1>0. /\ plan \in [Request -> PlanRecord] /\ plan[r] \in PlanRecord
      /\ preview \in [Preview -> PreviewRow]
      /\ CurrentPlan(r) /\ MatchesPreview(r) /\ AppliesPreview(r)
      /\ \A p \in Preview : Keeps(p)
  BY PreviewSteps DEF SInv, SchedulingTypeOK, ApplyInv, PlanInv, PreviewsStep
<1>1. ASSUME UNCHANGED <<task, dependency, calendar>>, plan'[r] = plan[r]
      PROVE  CurrentPlan(r)' /\ MatchesPreview(r)'
  <2>1. CurrentPlan(r)'
    BY <1>0, <1>1 DEF CurrentPlan, Reached, Active, Scheduled
  <2>2. plan[r].preview # Null => plan[r].preview \in Preview
    BY <1>0 DEF PlanRecord
  <2>3. plan[r].phase = "write" => plan[r].preview # Null
    BY <1>0 DEF AppliesPreview
  <2>4. MatchesPreview(r)'
    BY <1>0, <1>1, <2>2, <2>3 DEF MatchesPreview, FingerprintMatches, Keeps, AppliesPreview
  <2> QED
    BY <2>1, <2>4
<1>2. ASSUME plan[r].phase = "idle", UNCHANGED plan
      PROVE  CurrentPlan(r)' /\ MatchesPreview(r)'
  BY <1>0, <1>2, OverCurrent DEF CurrentPlan
<1>3. ASSUME EndPlan(r)
      PROVE  CurrentPlan(r)' /\ MatchesPreview(r)'
  BY <1>0, <1>3, OverCurrent DEF EndPlan
<1>4. ASSUME NEW next \in PlanRecord, plan' = [plan EXCEPT ![r] = next],
             next.phase = "tasks", next.evidence = NoEvidence,
             next.preview # Null => next.selected = preview[next.preview].selected,
             UNCHANGED preview
      PROVE  CurrentPlan(r)' /\ MatchesPreview(r)'
  <2>1. \A t \in Task : NoEvidence.rows[t] = NoRow /\ NoEvidence.targets[t] = NoRow
    BY DEF NoEvidence, NoRows
  <2>2. plan'[r] = next
    BY <1>0, <1>4
  <2> QED
    BY <1>4, <2>1, <2>2 DEF CurrentPlan, MatchesPreview, Reached
<1>5. ASSUME BeginPreview(r)
      PROVE  CurrentPlan(r)' /\ MatchesPreview(r)'
  <2>1. PICK selected \in SUBSET Task :
          plan' = [plan EXCEPT ![r] = [NoPlan EXCEPT !.phase = "tasks", !.selected = selected]]
    BY <1>5 DEF BeginPreview
  <2> DEFINE next == [NoPlan EXCEPT !.phase = "tasks", !.selected = selected]
  <2>2. /\ next \in PlanRecord /\ next.phase = "tasks" /\ next.preview = Null
        /\ next.evidence = NoEvidence
    BY EmptyTypes DEF PlanRecord, Phases
  <2>3. plan' = [plan EXCEPT ![r] = next] /\ UNCHANGED preview
    BY <1>5, <2>1 DEF BeginPreview
  <2> HIDE DEF next
  <2> QED
    BY <2>2, <2>3, <1>4
<1>6. ASSUME NEW p \in Preview, BeginApply(r, p)
      PROVE  CurrentPlan(r)' /\ MatchesPreview(r)'
  <2>1. PICK chosen \in SUBSET Placed(preview[p].placement) :
          plan' = [plan EXCEPT ![r] =
            [NoPlan EXCEPT !.phase = "tasks", !.preview = p,
                           !.selected = preview[p].selected, !.chosen = chosen]]
    BY <1>6 DEF BeginApply
  <2> DEFINE next == [NoPlan EXCEPT !.phase = "tasks", !.preview = p,
                                    !.selected = preview[p].selected, !.chosen = chosen]
  <2>2. preview[p].selected \in SUBSET Task /\ chosen \in SUBSET Task
    BY <1>0 DEF PreviewRow, Placed
  <2>3. /\ next \in PlanRecord /\ next.phase = "tasks" /\ next.preview = p
        /\ next.selected = preview[p].selected /\ next.evidence = NoEvidence
    BY <2>2, EmptyTypes DEF PlanRecord, Phases
  <2>4. plan' = [plan EXCEPT ![r] = next] /\ UNCHANGED preview
    BY <1>6, <2>1 DEF BeginApply
  <2> HIDE DEF next
  <2> QED
    BY <2>3, <2>4, <1>4
<1>7. ASSUME CheckApply(r), ~EndPlan(r)
      PROVE  CurrentPlan(r)' /\ MatchesPreview(r)'
  <2>1. /\ plan' = [plan EXCEPT ![r].phase = "write"] /\ plan[r].phase = "collected"
        /\ plan[r].preview # Null /\ FingerprintMatches(r)
        /\ UNCHANGED <<task, dependency, calendar, preview>>
    BY <1>7 DEF CheckApply, Refuse, vars
  <2>2. /\ plan'[r].phase = "write" /\ plan'[r].evidence = plan[r].evidence
        /\ plan'[r].preview = plan[r].preview /\ plan'[r].selected = plan[r].selected
    BY <1>0, <2>1 DEF PlanRecord
  <2>3. CurrentPlan(r)'
    BY <1>0, <2>1, <2>2 DEF CurrentPlan, Reached, Active, Scheduled
  <2>4. MatchesPreview(r)'
    BY <1>0, <2>1, <2>2 DEF MatchesPreview, FingerprintMatches
  <2> QED
    BY <2>3, <2>4
<1>8. ASSUME NEW e \in Event, ChangeEvent(r, e)
      PROVE  CurrentPlan(r)' /\ MatchesPreview(r)'
  BY <1>2, <1>8 DEF ChangeEvent, Free
<1>9. ASSUME \/ \E t \in Task : ReadSelected(r, t)
             \/ ReadDependencies(r) \/ ReadScheduled(r) \/ ReadEvents(r)
      PROVE  CurrentPlan(r)' /\ MatchesPreview(r)'
  <2>1. UNCHANGED <<task, dependency, calendar, preview>>
    BY <1>9, ReadSteps DEF vars
  <2> QED
    BY <1>9, <2>1, ReadsCurrent
<1>10. ASSUME ServePlan(r) PROVE CurrentPlan(r)' /\ MatchesPreview(r)'
  <2>1. CASE StorePreview(r) \/ CommitApply(r) \/ ApplyConflict(r)
    BY <2>1, <1>3 DEF StorePreview, CommitApply, ApplyConflict, Refuse
  <2> QED
    BY <1>10, <2>1, <1>3, <1>5, <1>6, <1>7, <1>8, <1>9 DEF ServePlan
<1>11. ASSUME NEW q \in Request, ServeTask(q)
       PROVE  CurrentPlan(r)' /\ MatchesPreview(r)'
  <2>1. q = r
    BY DEF OneClient
  <2> QED
    BY <1>11, <2>1, <1>2 DEF ServeTask
<1>12. ASSUME NEW q \in Request, CommitApply(q) PROVE CurrentPlan(r)' /\ MatchesPreview(r)'
  <2>1. q = r
    BY DEF OneClient
  <2> QED
    BY <1>12, <2>1, <1>3 DEF CommitApply
<1>13. ASSUME NEW q \in Request, ServePlan(q) PROVE ServePlan(r)
  BY <1>13 DEF OneClient
<1> QED
  BY SchedulingCases, <1>1, <1>10, <1>11, <1>12, <1>13 DEF schedVars, vars, Expire

\* An event changes only with its revision.
LEMMA EventSteps ==
  ASSUME SInv, [SchedulingNext]_schedVars, NEW e \in Event
  PROVE  /\ calendar[e].revision \in Nat
         /\ calendar'[e] = calendar[e] \/ calendar'[e].revision = calendar[e].revision + 1
<1>1. calendar \in [Event -> EventRow] /\ calendar[e].revision \in Nat
  BY DEF SInv, SchedulingTypeOK, EventRow
<1>2. ASSUME NEW r \in Request, NEW x \in Event, ChangeEvent(r, x)
      PROVE  calendar'[e] = calendar[e] \/ calendar'[e].revision = calendar[e].revision + 1
  BY <1>1, <1>2 DEF ChangeEvent
<1>3. ASSUME NEW r \in Request, ServePlan(r), \A x \in Event : ~ChangeEvent(r, x)
      PROVE  UNCHANGED calendar
  BY <1>3
  DEF ServePlan, BeginPreview, StorePreview, BeginApply, ReadSelected, ReadDependencies,
      ReadScheduled, ReadEvents, CheckApply, CommitApply, ApplyConflict, Refuse
<1> QED
  BY SchedulingCases, <1>1, <1>2, <1>3 DEF schedVars, ServeTask, CommitApply, Expire

\* A stored preview stays a solution, and no younger than the tables.
LEMMA PreviewsAge ==
  ASSUME SInv, ApplyInv, [SchedulingNext]_schedVars, NEW p \in Preview
  PROVE  SolvedPreview(p)'
<1>0. /\ preview \in [Preview -> PreviewRow] /\ plan \in [Request -> PlanRecord]
      /\ Keeps(p) /\ SolvedPreview(p) /\ \A r \in Request : CurrentPlan(r)
      /\ TypeOK /\ TypeOK' /\ Unborn /\ \A t \in Task : RowStep(t)
  BY PreviewSteps, TaskSteps
  DEF SInv, IInv, TypeInv, SchedulingTypeOK, ApplyInv, PreviewsStep
<1>1. CASE preview[p].state # "absent"
  <2> DEFINE evidence == preview[p].evidence
  <2>1. /\ preview'[p].evidence = evidence /\ preview'[p].selected = preview[p].selected
        /\ preview'[p].placement = preview[p].placement
        /\ evidence \in Evidence
        /\ preview[p].placement \in Schedules(evidence, preview[p].selected)
        /\ EventsHeld(evidence) /\ TargetsHeld(evidence)
    BY <1>0, <1>1 DEF Keeps, SolvedPreview, PreviewRow
  <2> HIDE DEF evidence
  <2>2. ASSUME NEW e \in Event
        PROVE  /\ evidence.events[e].revision <= calendar'[e].revision
               /\ evidence.events[e].revision = calendar'[e].revision =>
                    evidence.events[e] = calendar'[e]
    <3>1. evidence.events[e].revision \in Nat
      BY <2>1 DEF Evidence, EventRow
    <3>2. /\ evidence.events[e].revision <= calendar[e].revision
          /\ evidence.events[e].revision = calendar[e].revision =>
               evidence.events[e] = calendar[e]
      BY <2>1 DEF EventsHeld
    <3> QED
      BY <3>1, <3>2, EventSteps
  <2>3. ASSUME NEW t \in Task
        PROVE  Held(preview[p].evidence.targets[t], t)'
    <3> DEFINE row == evidence.targets[t]
    <3>1. row \in Row /\ Held(row, t) /\ RowStep(t)
      BY <1>0, <2>1 DEF Evidence, TargetsHeld
    <3> QED
      BY <1>0, <2>1, <3>1, HeldStays DEF Held, Active
  <2>4. EventsHeld(preview[p].evidence)'
    BY <2>1, <2>2 DEF EventsHeld
  <2>5. TargetsHeld(preview[p].evidence)'
    BY <2>3 DEF TargetsHeld
  <2> QED
    BY <2>1, <2>4, <2>5 DEF SolvedPreview, Schedules, FreeSlots
<1>2. ASSUME NEW r \in Request, StorePreview(r), preview[p].state = "absent",
             preview'[p].state # "absent"
      PROVE  SolvedPreview(p)'
  <2>1. PICK q \in Preview, placement \in Schedules(plan[r].evidence, plan[r].selected) :
          preview' = [preview EXCEPT ![q] =
               [state |-> "open", expired |-> FALSE, selected |-> plan[r].selected,
                evidence |-> plan[r].evidence, placement |-> placement]]
    BY <1>2 DEF StorePreview
  <2>2. q = p
    BY <1>0, <1>2, <2>1
  <2>3. /\ preview'[p].selected = plan[r].selected /\ preview'[p].evidence = plan[r].evidence
        /\ preview'[p].placement = placement
    BY <1>0, <2>1, <2>2
  <2>4. /\ plan[r].evidence.events = calendar /\ UNCHANGED <<calendar, task>>
        /\ \A t \in Task : plan[r].evidence.targets[t] \in {NoRow, task[t]}
    BY <1>0, <1>2 DEF StorePreview, CurrentPlan, Reached, vars
  <2>5. \A t \in Task : task[t].revision \in Nat
    BY <1>0 DEF TypeOK, Row
  <2>6. \A e \in Event : calendar[e].revision \in Nat
    BY DEF SInv, SchedulingTypeOK, EventRow
  <2>7. EventsHeld(preview[p].evidence)'
    BY <2>3, <2>4, <2>6 DEF EventsHeld
  <2>8. TargetsHeld(preview[p].evidence)'
    BY <2>3, <2>4, <2>5 DEF TargetsHeld, Held, Active
  <2>9. placement \in Schedules(preview'[p].evidence, preview'[p].selected)
    BY <2>1, <2>3
  <2> QED
    BY <2>3, <2>7, <2>8, <2>9 DEF SolvedPreview, Schedules, FreeSlots
<1>3. ASSUME preview[p].state = "absent", \A r \in Request : ~StorePreview(r)
      PROVE  preview'[p].state = "absent"
  <2>1. ASSUME NEW r \in Request, ServePlan(r), ~CommitApply(r)
        PROVE  UNCHANGED preview
    BY <1>3, <2>1
    DEF ServePlan, BeginPreview, BeginApply, ReadSelected, ReadDependencies,
        ReadScheduled, ReadEvents, CheckApply, ApplyConflict, Refuse, ChangeEvent
  <2>2. ASSUME NEW r \in Request, CommitApply(r) PROVE preview'[p] = preview[p]
    <3>1. preview[plan[r].preview].state = "open"
          /\ preview' = [preview EXCEPT ![plan[r].preview].state = "applied"]
      BY <2>2 DEF CommitApply, MayMarkApplied
    <3> QED
      BY <1>0, <1>3, <3>1
  <2>3. ASSUME NEW q \in Preview, Expire(q) PROVE preview'[p] = preview[p]
    BY <1>0, <1>3, <2>3 DEF Expire
  <2> QED
    BY <1>3, <2>1, <2>2, <2>3, SchedulingCases DEF schedVars, ServeTask
<1>4. CASE preview'[p].state = "absent"
  BY <1>4 DEF SolvedPreview
<1> QED
  BY <1>1, <1>2, <1>3, <1>4

LEMMA ApplyInductive ==
  ASSUME OneClient
  PROVE  SchedulingSpec => []ApplyInv
<1>1. SchedulingInit => ApplyInv
  <2>1. ASSUME NEW r \in Request, SchedulingInit
        PROVE  CurrentPlan(r) /\ MatchesPreview(r)
    <3>1. \A t \in Task : NoEvidence.rows[t] = NoRow /\ NoEvidence.targets[t] = NoRow
      BY DEF NoEvidence, NoRows
    <3>2. plan[r] = NoPlan
      BY <2>1 DEF SchedulingInit
    <3> QED
      BY <3>1, <3>2, EmptyTypes DEF CurrentPlan, MatchesPreview, Reached
  <2>2. ASSUME NEW p \in Preview, SchedulingInit PROVE SolvedPreview(p)
    BY <2>2, EmptyTypes DEF SchedulingInit, SolvedPreview
  <2> QED
    BY <2>1, <2>2 DEF ApplyInv
<1>2. SInv /\ SoloInv /\ ApplyInv /\ [SchedulingNext]_schedVars => ApplyInv'
  BY PlansCurrent, PreviewsAge DEF ApplyInv
<1> QED
  BY <1>1, <1>2, SchedulingInductive, SoloInductive, PTL DEF SchedulingSpec

-----------------------------------------------------------------------------
(* What equal fingerprints say of the evidence behind them. *)

LEMMA SameFingerprint ==
  ASSUME NEW a \in Evidence, NEW b \in Evidence, Fingerprint(a) = Fingerprint(b)
  PROVE  /\ \A t \in Task : /\ a.scheduled[t].state = b.scheduled[t].state
                            /\ a.scheduled[t].slot = b.scheduled[t].slot
         /\ \A e \in a.edges : /\ e \in b.edges
                               /\ a.targets[e[2]].revision = b.targets[e[2]].revision
         /\ \A e \in Event : a.events[e].slot # Null =>
              /\ b.events[e].slot # Null
              /\ a.events[e].revision = b.events[e].revision
<1> DEFINE columns(row) == <<row.state, row.revision, row.status, row.slot>>
           edges(x)  == {<<e, x.targets[e[2]].revision>> : e \in x.edges}
           events(x) == {<<e, x.events[e].revision>> :
                           e \in {y \in Event : x.events[y].slot # Null}}
<1>1. /\ [t \in Task |-> columns(a.scheduled[t])] = [t \in Task |-> columns(b.scheduled[t])]
      /\ edges(a) = edges(b)
      /\ events(a) = events(b)
  BY DEF Fingerprint
<1>2. ASSUME NEW t \in Task
      PROVE  /\ a.scheduled[t].state = b.scheduled[t].state
             /\ a.scheduled[t].slot = b.scheduled[t].slot
  <2>1. columns(a.scheduled[t]) = columns(b.scheduled[t])
    BY <1>1
  <2> QED
    BY <2>1
<1>3. ASSUME NEW e \in a.edges
      PROVE  e \in b.edges /\ a.targets[e[2]].revision = b.targets[e[2]].revision
  <2>1. <<e, a.targets[e[2]].revision>> \in edges(b)
    BY <1>1
  <2> QED
    BY <2>1
<1>4. ASSUME NEW e \in Event, a.events[e].slot # Null
      PROVE  b.events[e].slot # Null /\ a.events[e].revision = b.events[e].revision
  <2>1. <<e, a.events[e].revision>> \in events(b)
    BY <1>1, <1>4
  <2> QED
    BY <2>1
<1> QED
  BY <1>2, <1>3, <1>4

\* What a request applies, and to what.
LEMMA AppliedRows ==
  ASSUME SInv, SchedulingNext, NEW r \in Applying
  PROVE  LET place == preview[plan[r].preview].placement
         IN  \A t \in Task :
               IF t \in plan[r].chosen
               THEN task'[t].slot = place[t] /\ task'[t].status = task[t].status
               ELSE task'[t] = task[t]
<1> DEFINE p == plan[r].preview
           patch(t) == [NoPatch EXCEPT !.slot = preview[p].placement[t]]
<1>1. CommitApply(r) /\ p \in Preview /\ r \in Request
  BY ApplyingCommits
<1>2. preview \in [Preview -> PreviewRow] /\ task \in [Task -> Row]
  BY DEF SInv, IInv, TypeInv, TypeOK, SchedulingTypeOK
<1>3. task' = [t \in Task |-> IF t \in plan[r].chosen
                             THEN Revise(task[t], patch(t)) ELSE task[t]]
  BY <1>1 DEF CommitApply
<1>4. ASSUME NEW t \in Task
      PROVE  /\ patch(t).slot = preview[p].placement[t] /\ patch(t).status = Unset
             /\ preview[p].placement[t] # Unset
  BY <1>1, <1>2, ConstantsAssumption DEF NoPatch, PreviewRow
<1> HIDE DEF patch, p
<1>5. ASSUME NEW t \in Task, t \in plan[r].chosen
      PROVE  task'[t].slot = preview[p].placement[t] /\ task'[t].status = task[t].status
  <2>1. task[t] \in Row /\ task'[t] = Revise(task[t], patch(t))
    BY <1>2, <1>3, <1>5
  <2> QED
    BY <2>1, <1>4 DEF Revise, Value, Row
<1> QED
  BY <1>3, <1>5 DEF p

\* What apply schedules is free of the schedule and of the calendar.
LEMMA AppliedIsFree ==
  ASSUME OneClient, SInv, SoloInv, ApplyInv, SchedulingNext,
         NEW r \in Applying, NEW t \in plan[r].chosen
  PROVE  Fits(t)
<1> DEFINE p     == plan[r].preview
           place == preview[p].placement
           now   == plan[r].evidence
           old   == preview[p].evidence
<1>1. /\ r \in Request /\ p \in Preview /\ plan[r].phase = "write"
      /\ preview[p].state # "absent"
  BY ApplyingCommits DEF CommitApply, MayMarkApplied
<1>2. /\ now \in Evidence /\ old \in Evidence
      /\ \A u \in Task : now.scheduled[u] = IF Scheduled(u) THEN task[u] ELSE NoRow
      /\ now.events = calendar
      /\ Fingerprint(now) = Fingerprint(old)
      /\ place \in Schedules(old, preview[p].selected) /\ EventsHeld(old)
  BY <1>1
  DEF SInv, SchedulingTypeOK, PlanRecord, PreviewRow, ApplyInv, CurrentPlan, Reached,
      MatchesPreview, FingerprintMatches, SolvedPreview
<1>3. t \in Task /\ t \in Placed(place)
  BY AppliesToReviewed
<1>4. plan[r].chosen \subseteq Placed(place)
  BY AppliesToReviewed
<1>5. /\ task'[t].slot = place[t]
      /\ \A u \in Task : IF u \in plan[r].chosen THEN task'[u].slot = place[u]
                         ELSE task'[u] = task[u]
  BY <1>3, AppliedRows
<1> HIDE DEF p, now, old, place
<1>6. place[t] \in FreeSlots(old)
  BY <1>2, <1>3 DEF Schedules, Placed, Field
<1>7. ASSUME NEW u \in Task, u # t, Scheduled(u)'
      PROVE  ~Overlap(task'[t].slot, task'[u].slot)
  <2>1. CASE u \in plan[r].chosen
    <3>1. u \in Placed(place)
      BY <2>1, <1>4
    <3>2. ~Overlap(place[t], place[u])
      BY <3>1, <1>2, <1>3, <1>7 DEF Schedules
    <3> QED
      BY <2>1, <3>2, <1>5
  <2>2. CASE u \notin plan[r].chosen
    <3>1. task'[u] = task[u] /\ Scheduled(u)
      BY <2>2, <1>5, <1>7 DEF Scheduled, Active
    <3>2. old.scheduled[u].state = "active" /\ old.scheduled[u].slot = task[u].slot
          /\ task[u].slot # Null
      <4>1. now.scheduled[u] = task[u] /\ task[u].state = "active" /\ task[u].slot # Null
        BY <3>1, <1>2 DEF Scheduled, Active
      <4> QED
        BY <4>1, <1>2, SameFingerprint
    <3>3. old.scheduled[u] # NoRow
      BY <3>2 DEF NoRow
    <3>4. ~Overlap(place[t], task[u].slot)
      BY <3>2, <3>3, <1>6 DEF FreeSlots
    <3> QED
      BY <3>1, <3>4, <1>5
  <2> QED
    BY <2>1, <2>2
<1>8. ASSUME NEW e \in Event, calendar[e].slot # Null
      PROVE  ~Overlap(task'[t].slot, calendar[e].slot)
  <2>1. old.events[e].slot # Null /\ old.events[e].revision = calendar[e].revision
    BY <1>2, <1>8, SameFingerprint
  <2>2. old.events[e] = calendar[e]
    BY <2>1, <1>2 DEF EventsHeld
  <2> QED
    BY <2>1, <2>2, <1>5, <1>6 DEF FreeSlots
<1> QED
  BY <1>7, <1>8 DEF Fits

\* A whole plan that is applied is in the order of the dependencies.
LEMMA AppliedIsOrdered ==
  ASSUME OneClient, SInv, SoloInv, ApplyInv, SchedulingNext, NEW r \in Applying,
         plan[r].chosen = Placed(preview[plan[r].preview].placement),
         NEW e \in dependency, e[1] \in plan[r].chosen
  PROVE  \/ task'[e[2]].status = "completed"
         \/ task'[e[2]].slot # Null /\ Before(task'[e[2]].slot, task'[e[1]].slot)
<1> DEFINE p      == plan[r].preview
           place  == preview[p].placement
           now    == plan[r].evidence
           old    == preview[p].evidence
           target == old.targets[e[2]]
<1>1. /\ r \in Request /\ p \in Preview /\ plan[r].phase = "write"
      /\ preview[p].state # "absent" /\ p # Null
  BY ApplyingCommits DEF CommitApply, MayMarkApplied, SInv, PlanInv, AppliesPreview
<1>2. /\ now \in Evidence /\ old \in Evidence
      /\ plan[r].selected = preview[p].selected
      /\ now.edges = {x \in dependency : x[1] \in plan[r].selected}
      /\ \A x \in now.edges : Active(x[2]) => now.targets[x[2]] = task[x[2]]
      /\ Fingerprint(now) = Fingerprint(old)
      /\ place \in Schedules(old, preview[p].selected) /\ TargetsHeld(old)
  BY <1>1
  DEF SInv, SchedulingTypeOK, PlanRecord, PreviewRow, ApplyInv, CurrentPlan, Reached,
      MatchesPreview, FingerprintMatches, SolvedPreview
<1>3. e[1] \in Task /\ e[2] \in Task /\ Active(e[2])
  BY DEF SInv, IInv, TypeInv, TypeOK, SoloInv, RelationsInv, Relations, LinksLive
<1>4. task[e[2]].revision # 0
  BY <1>3 DEF SInv, Born, Active
<1>5. \A t \in Task : IF t \in plan[r].chosen
                      THEN task'[t].slot = place[t] /\ task'[t].status = task[t].status
                      ELSE task'[t] = task[t]
  BY AppliedRows
<1>6. e[2] \in plan[r].chosen => task[e[2]].slot = Null
  BY AppliesToReviewed
<1> HIDE DEF p, place, now, old
<1>7. e \in now.edges
  <2>1. e[1] \in preview[p].selected
    BY <1>2 DEF Schedules, p, place
  <2> QED
    BY <2>1, <1>2
<1>8. e \in old.edges /\ target.revision = task[e[2]].revision
  BY <1>2, <1>3, <1>7, SameFingerprint
<1>9. target # NoRow
  BY <1>4, <1>8, EmptyTypes
<1>10. task[e[2]].status = target.status /\ task[e[2]].slot = target.slot
  BY <1>2, <1>3, <1>8, <1>9 DEF TargetsHeld, Held
<1>11. PrerequisiteMet(old, place, e[1], e[2])
  BY <1>2, <1>8 DEF Schedules, p, place
<1>12. CASE place[e[2]] # Null /\ Before(place[e[2]], place[e[1]])
  <2>1. e[2] \in plan[r].chosen
    BY <1>2, <1>3, <1>12 DEF Placed, Schedules, p, place
  <2> QED
    BY <2>1, <1>3, <1>5, <1>12
<1>13. CASE target.status = "completed"
  BY <1>3, <1>5, <1>10, <1>13
<1>14. CASE target.slot # Null /\ Before(target.slot, place[e[1]])
  BY <1>3, <1>5, <1>6, <1>10, <1>14
<1> QED
  BY <1>11, <1>12, <1>13, <1>14 DEF PrerequisiteMet

\* While one client works alone, the fingerprint that apply recomputes and
\* the WHERE clauses of its updates suffice: what it schedules is free time
\* and in the order of the dependencies, whatever was edited since the
\* preview.
THEOREM ApplyFitsTheorem ==
  ASSUME OneClient
  PROVE  SchedulingSpec => AppliedScheduleFits
<1>1. SInv /\ SoloInv /\ ApplyInv /\ [SchedulingNext]_schedVars
        => [AppliedFits /\ AppliedInOrder]_schedVars
  <2>1. ASSUME SInv, SoloInv, ApplyInv, SchedulingNext
        PROVE  AppliedFits /\ AppliedInOrder
    <3>1. AppliedFits
      BY <2>1, AppliedIsFree DEF AppliedFits
    <3>2. AppliedInOrder
      BY <2>1, AppliedIsOrdered DEF AppliedInOrder
    <3> QED
      BY <3>1, <3>2
  <2> QED
    BY <2>1
<1> QED
  BY <1>1, SchedulingInductive, SoloInductive, ApplyInductive, PTL
  DEF SchedulingSpec, AppliedScheduleFits

(***************************************************************************)
(* Windows (Capacity).                                                     *)
(***************************************************************************)
\* Rounding to minutes, seen from the whole minutes.
LEMMA Rounding ==
  ASSUME NEW x \in Int, NEW k \in Int
  PROVE  /\ Ceil(x) \in Int /\ Floor(x) \in Int
         /\ Ceil(x) <= k <=> x <= k * Minute
         /\ k <= Floor(x) <=> k * Minute <= x
BY DEF Ceil, Floor, Minute

Need == [duration : Nat \ {0}, earliest : Int, deadline : Int]

\* A clipped interval.
LEMMA Clipped ==
  ASSUME NEW f \in Int \X Int, NEW from \in Int, NEW to \in Int, NEW i \in Clip(f, from, to)
  PROVE  /\ i = <<Latest(f[1], from), Earliest(f[2], to)>>
         /\ i \in Int \X Int /\ i[1] < i[2]
         /\ f[1] <= i[1] /\ from <= i[1] /\ i[2] <= f[2] /\ i[2] <= to
BY DEF Clip, Latest, Earliest

\* Whatever the solver chooses from a window is time that suits the task.
THEOREM OfferedTimeSuits ==
  ASSUME NEW need \in Need, NEW free \in SUBSET (Int \X Int), NEW days \in SUBSET (Int \X Int),
         NEW starts \in SUBSET Int
  PROVE  OfferedSuits(need, free, days, starts)
<1> SUFFICES ASSUME NEW w \in TaskWindows(need, free, days), NEW start \in starts,
                    start \in w.first .. w.last
             PROVE  \E f \in free : Suits(need, start, f, w.day)
  BY DEF OfferedSuits
<1>0. PICK f \in free, day \in days :
        \E i \in Clip(f, need.earliest, need.deadline) : w = Window(need, i, day)
  BY DEF TaskWindows, LongEnough
<1>1. PICK i \in Clip(f, need.earliest, need.deadline) : w = Window(need, i, day)
  BY <1>0
<1>2. need.duration \in Nat /\ need.earliest \in Int /\ need.deadline \in Int
  BY DEF Need
<1>3. /\ i \in Int \X Int /\ f[1] <= i[1] /\ need.earliest <= i[1]
      /\ i[2] <= f[2] /\ i[2] <= need.deadline
  BY <1>2, Clipped
<1>4. /\ w.day = day
      /\ Latest(Ceil(i[1]), Ceil(day[1])) <= start
      /\ start <= Earliest(Floor(i[2]) - need.duration, Ceil(day[2]) - 1)
      /\ start \in Int
  BY <1>1 DEF Window
<1>5. /\ i[1] \in Int /\ i[2] \in Int /\ day[1] \in Int /\ day[2] \in Int
      /\ f[1] \in Int /\ f[2] \in Int
  BY <1>3
<1>6. /\ Ceil(i[1]) \in Int /\ Ceil(day[1]) \in Int /\ Floor(i[2]) \in Int /\ Ceil(day[2]) \in Int
  BY <1>5, Rounding
<1>7. /\ Ceil(i[1]) <= start /\ Ceil(day[1]) <= start
      /\ start + need.duration <= Floor(i[2]) /\ start < Ceil(day[2])
  BY <1>2, <1>4, <1>6 DEF Latest, Earliest
<1>8. /\ i[1] <= start * Minute /\ day[1] <= start * Minute
      /\ (start + need.duration) * Minute <= i[2]
  <2>1. start + need.duration \in Int
    BY <1>2, <1>4
  <2>2. (start + need.duration) * Minute <= i[2]
    BY <1>5, <1>7, <2>1, Rounding
  <2> QED BY <1>4, <1>5, <1>7, <2>2, Rounding
<1>9. start * Minute < day[2]
  BY <1>4, <1>5, <1>6, <1>7, Rounding DEF Minute
<1> QED BY <1>2, <1>3, <1>4, <1>5, <1>8, <1>9 DEF Suits, Inside, Within, Minute

\* No time that suits a task is withheld from the solver.
THEOREM SuitableTimeOffered ==
  ASSUME NEW need \in Need, NEW free \in SUBSET (Int \X Int), NEW days \in SUBSET (Int \X Int),
         NEW starts \in SUBSET Int
  PROVE  SuitableOffered(need, free, days, starts)
<1> SUFFICES ASSUME NEW start \in starts, NEW f \in free, NEW day \in days,
                    Suits(need, start, f, day)
             PROVE  \E w \in TaskWindows(need, free, days) :
                      w.day = day /\ start \in w.first .. w.last
                      /\ start + need.duration <= w.until
  BY DEF SuitableOffered
<1> DEFINE i == <<Latest(f[1], need.earliest), Earliest(f[2], need.deadline)>>
           w == Window(need, i, day)
<1>1. /\ need.duration \in Nat \ {0} /\ need.earliest \in Int /\ need.deadline \in Int
      /\ start \in Int /\ start + need.duration \in Int
      /\ f[1] \in Int /\ f[2] \in Int /\ day[1] \in Int /\ day[2] \in Int
  BY DEF Need
<1>2. /\ f[1] <= start * Minute /\ need.earliest <= start * Minute
      /\ (start + need.duration) * Minute <= f[2]
      /\ (start + need.duration) * Minute <= need.deadline
      /\ day[1] <= start * Minute /\ start * Minute < day[2]
  BY DEF Suits, Inside, Within
<1>3. /\ i[1] \in Int /\ i[2] \in Int
      /\ i[1] <= start * Minute /\ (start + need.duration) * Minute <= i[2]
  BY <1>1, <1>2 DEF Latest, Earliest, Minute
<1>4. i[1] < i[2] /\ i[2] - i[1] >= need.duration * Minute
  BY <1>1, <1>3 DEF Minute
<1>5. i \in Clip(f, need.earliest, need.deadline)
  BY <1>4 DEF Clip
<1>6. Duration(i) >= need.duration
  <2>1. need.duration <= Floor(i[2] - i[1])
    BY <1>1, <1>3, <1>4, Rounding
  <2> QED BY <1>3, <1>4, <2>1, Rounding DEF Duration
<1>7. /\ Ceil(i[1]) <= start /\ Ceil(day[1]) <= start
      /\ start + need.duration <= Floor(i[2])
      /\ Ceil(i[1]) \in Int /\ Ceil(day[1]) \in Int /\ Floor(i[2]) \in Int /\ Ceil(day[2]) \in Int
  BY <1>1, <1>2, <1>3, Rounding
<1>8. start < Ceil(day[2])
  BY <1>1, <1>2, <1>7, Rounding DEF Minute
<1> HIDE DEF i
<1>9. /\ w.first \in Int /\ w.last \in Int /\ w.first <= start /\ start <= w.last
      /\ w.day = day /\ w.until = Floor(i[2])
  BY <1>1, <1>7, <1>8 DEF Window, Latest, Earliest
<1>10. w \in TaskWindows(need, free, days)
  BY <1>1, <1>5, <1>6, <1>9 DEF TaskWindows, LongEnough
<1> QED BY <1>1, <1>7, <1>9, <1>10
=============================================================================
