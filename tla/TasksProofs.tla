---------------------------- MODULE TasksProofs ----------------------------
(***************************************************************************)
(* Proofs about Tasks for any set of tasks, projects, intervals and        *)
(* requests, and any request bodies: types, the two columns of a           *)
(* completion, the freshness of what a request validated, and that the     *)
(* interleaved service implements TaskLifecycle.                           *)
(***************************************************************************)
EXTENDS Tasks, TLAPS

-----------------------------------------------------------------------------
(* Facts about the helpers. *)

\* The initial, idle request is a request.
LEMMA IdleType == Idle \in RequestRecord
  BY ConstantsAssumption
  DEF Idle, RequestRecord, NoRow, Row, NoPatch, Patch, Operations, Status, Field

\* Every step of the service is one of these, made by one request.
LEMMA StepCases ==
  ASSUME NEW r \in Request, Serve(r)
  PROVE  \/ BeginCreate(r) \/ CommitCreate(r)
         \/ \E op \in Operations, items \in SUBSET Task, patch \in Patch :
              /\ op = "complete" => patch.status = "completed"
              /\ op = "reschedule" => patch.status = Unset
              /\ op \in {"update", "delete"} => \E t \in Task : items = {t}
              /\ op \in {"complete", "reschedule"} => patch.parent = Unset
              /\ op \in {"update", "complete", "reschedule", "delete"}
              /\ Begin(r, op, items, patch)
         \/ BeginDepend(r) \/ CheckBulk(r) \/ CommitWrite(r) \/ Conflict(r)
         \/ CommitDepend(r)
         \/ \E t \in Task : ReadItem(r, t)
         \/ \E t \in Task : CheckUpdate(r, t)
         \/ \E t \in Task : ReadEdges(r, t)
         \/ \E t \in Task : CommitDelete(r, t)
         \/ \E t, d \in Task : CheckDepend(r, t, d)
         \/ \E t, d \in Task : RemoveDependency(r, t, d)
         \/ \E p \in Project : ArchiveProject(r, p)
<1>1. NoPatch \in Patch /\ NoPatch.status = Unset
  BY DEF NoPatch, Patch
<1>2. [NoPatch EXCEPT !.status = "completed"] \in Patch
      /\ [NoPatch EXCEPT !.status = "completed"].status = "completed"
      /\ [NoPatch EXCEPT !.status = "completed"].parent = Unset
  BY DEF NoPatch, Patch, Status
<1>3. \A s \in Slot : /\ [NoPatch EXCEPT !.slot = s] \in Patch
                      /\ [NoPatch EXCEPT !.slot = s].status = Unset
                      /\ [NoPatch EXCEPT !.slot = s].parent = Unset
  BY DEF NoPatch, Patch, Field
<1>4. ASSUME BeginUpdate(r)
      PROVE  \E items \in SUBSET Task, patch \in Patch :
               (\E t \in Task : items = {t}) /\ Begin(r, "update", items, patch)
  BY <1>4, ConstantsAssumption DEF BeginUpdate
<1>5. ASSUME BeginBulkComplete(r)
      PROVE  \E items \in SUBSET Task, patch \in Patch :
               /\ patch.status = "completed" /\ patch.parent = Unset
               /\ Begin(r, "complete", items, patch)
  BY <1>5, <1>2 DEF BeginBulkComplete, Bulk
<1>6. ASSUME BeginBulkReschedule(r)
      PROVE  \E items \in SUBSET Task, patch \in Patch :
               /\ patch.status = Unset /\ patch.parent = Unset
               /\ Begin(r, "reschedule", items, patch)
  BY <1>6, <1>3 DEF BeginBulkReschedule, Bulk
<1>7. ASSUME BeginDelete(r)
      PROVE  \E items \in SUBSET Task, patch \in Patch :
               (\E t \in Task : items = {t}) /\ Begin(r, "delete", items, patch)
  BY <1>7, <1>1 DEF BeginDelete
<1>8. {"update", "complete", "reschedule", "delete"} \subseteq Operations
  BY DEF Operations
<1> QED
  BY <1>4, <1>5, <1>6, <1>7, <1>8 DEF Serve

\* Writing a patch to a live row gives a row, one revision further.
LEMMA ReviseType ==
  ASSUME NEW row \in Row, NEW patch \in Patch
  PROVE  /\ Revise(row, patch) \in Row
         /\ Revise(row, patch).revision = row.revision + 1
         /\ Revise(row, patch).state = row.state
         /\ Revise(row, patch).status = Value(patch.status, row.status)
         /\ Revise(row, patch).completedAt =
              (IF patch.status = Unset THEN row.completedAt
               ELSE patch.status = "completed")
<1> DEFINE done == IF patch.status = Unset THEN row.completedAt
                   ELSE patch.status = "completed"
<1>1. done \in BOOLEAN
  BY DEF Row
<1>2. /\ Value(patch.status, row.status) \in Status
      /\ Value(patch.parent, row.parent) \in Field(Task)
      /\ Value(patch.project, row.project) \in Field(Project)
      /\ Value(patch.slot, row.slot) \in Field(Slot)
  BY DEF Value, Patch, Row
<1>3. Revise(row, patch) =
        [row EXCEPT !.revision = @ + 1, !.status = Value(patch.status, @),
                    !.completedAt = done, !.parent = Value(patch.parent, @),
                    !.project = Value(patch.project, @),
                    !.slot = Value(patch.slot, @)]
  BY Zenon DEF Revise
<1> HIDE DEF done
<1>4. row.state \in {"absent", "active", "deleted"} /\ row.revision + 1 \in Nat
  BY DEF Row
<1>5. Revise(row, patch) =
        [state |-> row.state, revision |-> row.revision + 1,
         status |-> Value(patch.status, row.status), completedAt |-> done,
         parent |-> Value(patch.parent, row.parent),
         project |-> Value(patch.project, row.project),
         slot |-> Value(patch.slot, row.slot)]
  BY <1>3 DEF Row
<1>6. Revise(row, patch) \in Row
  BY <1>1, <1>2, <1>5, <1>4 DEF Row
<1>7. Revise(row, patch).completedAt = done
  BY <1>5
<1>8. /\ Revise(row, patch).revision = row.revision + 1
      /\ Revise(row, patch).state = row.state
      /\ Revise(row, patch).status = Value(patch.status, row.status)
  BY <1>5
<1>9. Revise(row, patch).completedAt =
        (IF patch.status = Unset THEN row.completedAt ELSE patch.status = "completed")
  BY <1>7, Zenon DEF done
<1> QED
  BY <1>6, <1>8, <1>9, Zenon

\* The two writes of a deletion: to the row, and to its children.
LEMMA DeletionType ==
  ASSUME NEW row \in Row
  PROVE  /\ SoftDelete(row) \in Row
         /\ SoftDelete(row).state = "deleted"
         /\ SoftDelete(row).revision = row.revision + 1
         /\ SoftDelete(row).status = row.status
         /\ SoftDelete(row).completedAt <=> row.completedAt
         /\ Detach(row) \in Row
         /\ Detach(row).state = row.state
         /\ Detach(row).revision = row.revision
         /\ Detach(row).status = row.status
         /\ Detach(row).completedAt <=> row.completedAt
         /\ Detach(row) = [row EXCEPT !.parent = Detach(row).parent]
<1> DEFINE gone     == [row EXCEPT !.state = "deleted", !.revision = @ + 1]
           detached == [row EXCEPT !.parent = Null]
<1>0. row.revision + 1 \in Nat
  BY DEF Row
<1>1. gone \in Row
  <2>1. \A n \in Nat : [row EXCEPT !.state = "deleted", !.revision = n] \in Row
    BY DEF Row
  <2> QED
    BY <1>0, <2>1
<1>2. gone.state = "deleted" /\ gone.revision = row.revision + 1 /\ gone.status = row.status
  BY DEF Row
<1>3. gone.completedAt <=> row.completedAt
  BY DEF Row
<1>4. detached \in Row
  BY DEF Row, Field
<1>5. detached.parent = Null
  BY DEF Row
<1>6. detached = [row EXCEPT !.parent = detached.parent]
  BY <1>5, Zenon
<1>7. /\ detached.state = row.state
      /\ detached.revision = row.revision
      /\ detached.status = row.status
      /\ detached.completedAt <=> row.completedAt
  BY DEF Row
<1> QED
  BY <1>1, <1>2, <1>3, <1>4, <1>6, <1>7 DEF SoftDelete, Detach

\* The first read of add_task_dependency.
LEMMA DependType ==
  ASSUME NEW t \in Task, NEW d \in Task
  PROVE  /\ [Idle EXCEPT !.phase = "read", !.op = "depend", !.edges = {<<t, d>>}]
              \in RequestRecord
         /\ [Idle EXCEPT !.phase = "read", !.op = "depend", !.edges = {<<t, d>>}].phase
              = "read"
<1>1. {<<t, d>>} \in SUBSET (Task \X Task)
  OBVIOUS
<1>2. "depend" \in Operations /\ "read" \in {"idle", "read", "checked"}
  BY DEF Operations
<1>3. ASSUME NEW q \in RequestRecord, NEW edges \in SUBSET (Task \X Task)
      PROVE  /\ [q EXCEPT !.phase = "read", !.op = "depend", !.edges = edges]
                  \in RequestRecord
             /\ [q EXCEPT !.phase = "read", !.op = "depend", !.edges = edges].phase
                  = "read"
  BY <1>2 DEF RequestRecord
<1> QED
  BY <1>1, <1>3, IdleType

-----------------------------------------------------------------------------
(* Types *)

\* TypeOK alone is not inductive: an INSERT gives a row only because a
\* request to create carries every field.
BodyComplete(r) ==
  (request[r].phase = "checked" /\ request[r].op = "create") =>
    /\ request[r].patch.status # Unset
    /\ request[r].patch.parent # Unset
    /\ request[r].patch.project # Unset
    /\ request[r].patch.slot # Unset

TypeInv == TypeOK /\ \A r \in Request : BodyComplete(r)

\* What CheckUpdate leaves in the request is a patch: the project it may
\* take over is that of a row.
LEMMA CheckUpdateType ==
  ASSUME TypeOK, NEW r \in Request, NEW t \in Task, CheckUpdate(r, t)
  PROVE  /\ request' \in [Request -> RequestRecord]
         /\ UNCHANGED <<task, dependency, archived>>
         /\ \/ request' = [request EXCEPT ![r] = Idle]
            \/ /\ request'[r].phase = "checked"
               /\ request'[r].op = "update"
               /\ request'[r].expected = request[r].expected
               /\ request'[r].seen = request[r].seen
               /\ request'[r].patch.status = request[r].patch.status
               /\ AllSeen(r)
               /\ t \in Items(r)
               /\ request[r].patch.status # Unset =>
                    ValidTransition(request[r].seen[t].status, request[r].patch.status)
               /\ \A q \in Request \ {r} : request'[q] = request[q]
<1> DEFINE row     == request[r].seen[t]
           patch   == request[r].patch
           parent  == Value(patch.parent, row.parent)
           project == Value(patch.project, row.project)
           taken   == IF parent # Null /\ project = Null
                      THEN task[parent].project ELSE patch.project
<1>0. request[r] \in RequestRecord /\ patch \in Patch /\ row \in Row
  BY DEF TypeOK, RequestRecord
<1>1. CASE Reject(r)
  BY <1>1, IdleType DEF Reject, Finish, TypeOK
<1>2. CASE /\ ValidParent(t, parent, project)
           /\ patch.status # Unset => ValidTransition(row.status, patch.status)
           /\ request' = [request EXCEPT ![r].phase = "checked",
                                         ![r].patch.project = taken]
           /\ UNCHANGED <<task, dependency, archived>>
  <2>1. parent = Null \/ parent \in Task
    BY <1>2 DEF ValidParent
  <2>2. taken \in Field(Project) \cup {Unset}
    BY <2>1, <1>0 DEF TypeOK, Row, Patch
  <2>3. [patch EXCEPT !.project = taken] \in Patch
    BY <2>2, <1>0 DEF Patch
  <2>4. request' = [request EXCEPT ![r] =
           [request[r] EXCEPT !.phase = "checked",
                              !.patch = [patch EXCEPT !.project = taken]]]
    BY <1>2, <1>0 DEF RequestRecord, Patch, TypeOK
  <2>5. [request[r] EXCEPT !.phase = "checked",
                           !.patch = [patch EXCEPT !.project = taken]] \in RequestRecord
    BY <2>3, <1>0 DEF RequestRecord
  <2>6. request' \in [Request -> RequestRecord]
    BY <2>4, <2>5 DEF TypeOK
  <2>7. /\ request'[r].phase = "checked"
        /\ request'[r].op = request[r].op
        /\ request'[r].expected = request[r].expected
        /\ request'[r].seen = request[r].seen
        /\ request'[r].patch.status = request[r].patch.status
        /\ \A q \in Request \ {r} : request'[q] = request[q]
    BY <2>4, <1>0 DEF RequestRecord, Patch, TypeOK
  <2> QED
    BY <2>6, <2>7, <1>2 DEF CheckUpdate
<1> QED
  BY <1>1, <1>2 DEF CheckUpdate

\* The state after Begin: the items at the revisions sent, one item read.
Started(r, op, items, patch, sent, first) ==
  /\ \A t \in items : sent[t] <= task[t].revision
  /\ Active(first)
  /\ op = "complete" => ValidTransition(task[first].status, "completed")
  /\ request' \in [Request -> RequestRecord]
  /\ request'[r].phase = "read"
  /\ request'[r].op = op
  /\ request'[r].patch = patch
  /\ request'[r].expected = [t \in Task |-> IF t \in items THEN sent[t] ELSE 0]
  /\ request'[r].seen = [Idle.seen EXCEPT ![first] = task[first]]
  /\ \A q \in Request \ {r} : request'[q] = request[q]
  /\ UNCHANGED <<task, dependency, archived>>

\* Begin starts the request r with one item read.
LEMMA BeginType ==
  ASSUME TypeOK, NEW r \in Request, NEW op \in Operations,
         NEW items \in SUBSET Task, NEW patch \in Patch, Begin(r, op, items, patch)
  PROVE  \E sent \in [items -> Nat \ {0}], first \in items :
           Started(r, op, items, patch, sent, first)
<1>1. PICK sent \in [items -> 1..(MaxRevision - 1)], first \in items :
           /\ \A t \in items : sent[t] <= task[t].revision
           /\ Active(first)
           /\ op = "complete" => ValidTransition(task[first].status, "completed")
           /\ request' = [request EXCEPT ![r] =
                [Idle EXCEPT !.phase = "read", !.op = op, !.patch = patch,
                             !.expected = [t \in Task |->
                                             IF t \in items THEN sent[t] ELSE 0],
                             !.seen[first] = task[first]]]
  BY DEF Begin
<1>2. 1..(MaxRevision - 1) \subseteq Nat \ {0}
  BY ConstantsAssumption
<1>3. sent \in [items -> Nat \ {0}]
  BY <1>1, <1>2
<1>4. [t \in Task |-> IF t \in items THEN sent[t] ELSE 0] \in [Task -> Nat]
  BY <1>3
<1>5. [Idle.seen EXCEPT ![first] = task[first]] \in [Task -> Row]
  BY IdleType DEF RequestRecord, TypeOK
<1> DEFINE new == [Idle EXCEPT !.phase = "read", !.op = op, !.patch = patch,
                     !.expected = [t \in Task |-> IF t \in items THEN sent[t] ELSE 0],
                     !.seen = [Idle.seen EXCEPT ![first] = task[first]]]
<1>6. new \in RequestRecord
  BY <1>4, <1>5, IdleType DEF RequestRecord
<1>7. request' = [request EXCEPT ![r] = new]
  BY <1>1, IdleType DEF RequestRecord, Idle
<1>8. /\ new.phase = "read" /\ new.op = op /\ new.patch = patch
      /\ new.expected = [t \in Task |-> IF t \in items THEN sent[t] ELSE 0]
      /\ new.seen = [Idle.seen EXCEPT ![first] = task[first]]
  BY IdleType DEF RequestRecord
<1> HIDE DEF new
<1>9. request' \in [Request -> RequestRecord] /\ request'[r] = new
      /\ \A q \in Request \ {r} : request'[q] = request[q]
  BY <1>6, <1>7 DEF TypeOK
<1>10. UNCHANGED <<task, dependency, archived>>
  BY DEF Begin
<1> QED
  BY <1>1, <1>3, <1>8, <1>9, <1>10 DEF Started

\* One more item is read, or the request is over.
LEMMA ReadItemType ==
  ASSUME TypeOK, NEW r \in Request, NEW t \in Task, ReadItem(r, t)
  PROVE  /\ request' \in [Request -> RequestRecord]
         /\ UNCHANGED <<task, dependency, archived>>
         /\ \/ request' = [request EXCEPT ![r] = Idle]
            \/ /\ request[r].phase = "read"
               /\ request'[r].phase = "read"
               /\ request'[r].op = request[r].op
               /\ request'[r].patch = request[r].patch
               /\ request'[r].expected = request[r].expected
               /\ request'[r].seen = [request[r].seen EXCEPT ![t] = task[t]]
               /\ request[r].expected[t] # 0
               /\ Active(t)
               /\ request[r].op = "complete" => ValidTransition(task[t].status, "completed")
               /\ \A q \in Request \ {r} : request'[q] = request[q]
<1>0. request[r] \in RequestRecord
  BY DEF TypeOK
<1>1. CASE Reject(r)
  BY <1>1, IdleType DEF Reject, Finish, TypeOK
<1>2. CASE ~Reject(r)
  <2> DEFINE new == [request[r] EXCEPT !.seen = [request[r].seen EXCEPT ![t] = task[t]]]
  <2>1. /\ Active(t)
        /\ request[r].op = "complete" => ValidTransition(task[t].status, "completed")
        /\ request' = [request EXCEPT ![r].seen[t] = task[t]]
        /\ UNCHANGED <<task, dependency, archived>>
        /\ request[r].phase = "read"
        /\ request[r].expected[t] # 0
    BY <1>2 DEF ReadItem, Items
  <2>2. request' = [request EXCEPT ![r] = new]
    BY <2>1, <1>0 DEF RequestRecord, TypeOK
  <2>3. new \in RequestRecord
    BY <1>0 DEF RequestRecord, TypeOK
  <2>4. /\ new.phase = request[r].phase /\ new.op = request[r].op
        /\ new.patch = request[r].patch /\ new.expected = request[r].expected
        /\ new.seen = [request[r].seen EXCEPT ![t] = task[t]]
    BY <1>0 DEF RequestRecord
  <2> HIDE DEF new
  <2> QED
    BY <2>1, <2>2, <2>3, <2>4 DEF TypeOK
<1> QED
  BY <1>1, <1>2

\* The tables after a step, the request made by r aside.
LEMMA TablesType ==
  ASSUME TypeInv, NEW r \in Request, Serve(r)
  PROVE  /\ task' \in [Task -> Row]
         /\ dependency' \subseteq Task \X Task
         /\ archived' \subseteq Project
<1> USE DEF TypeInv, TypeOK
<1>1. request[r] \in RequestRecord
  OBVIOUS
<1>2. CASE CommitCreate(r)
  <2>1. Insert(request[r].patch) \in Row
    BY <1>1, <1>2 DEF BodyComplete, Insert, Row, RequestRecord, Patch, Field, CommitCreate
  <2> QED
    BY <1>2, <2>1 DEF CommitCreate
<1>3. CASE CommitWrite(r)
  BY <1>1, <1>3, ReviseType DEF CommitWrite, RequestRecord
<1>4. ASSUME NEW t \in Task, CommitDelete(r, t)
      PROVE  task' \in [Task -> Row] /\ dependency' \subseteq Task \X Task
  BY <1>4, DeletionType DEF CommitDelete
<1>5. CASE CommitDepend(r)
  BY <1>1, <1>5 DEF CommitDepend, RequestRecord
<1>6. ASSUME NEW t \in Task, NEW d \in Task, RemoveDependency(r, t, d)
      PROVE  dependency' \subseteq Task \X Task /\ UNCHANGED <<task, archived>>
  BY <1>6 DEF RemoveDependency
<1>7. ASSUME NEW p \in Project, ArchiveProject(r, p)
      PROVE  archived' \subseteq Project /\ UNCHANGED <<task, dependency>>
  BY <1>7 DEF ArchiveProject
<1>8. CASE UNCHANGED <<task, dependency, archived>>
  BY <1>8
<1> QED
  BY StepCases, <1>2, <1>3, <1>4, <1>5, <1>6, <1>7, <1>8
  DEF BeginCreate, Begin, BeginDepend, CheckBulk, Conflict, Reject, ReadItem,
      CheckUpdate, ReadEdges, CheckDepend, CommitDelete

\* The step of a request leaves every other request alone.
LEMMA RequestsType ==
  ASSUME TypeInv, NEW r \in Request, Serve(r)
  PROVE  /\ request' \in [Request -> RequestRecord]
         /\ \A q \in Request \ {r} : request'[q] = request[q]
         /\ BodyComplete(r)'
<1> USE DEF TypeInv, TypeOK
<1>1. request[r] \in RequestRecord /\ BodyComplete(r)
  OBVIOUS
<1>2. ASSUME request' = [request EXCEPT ![r] = Idle]
      PROVE  /\ request' \in [Request -> RequestRecord]
             /\ \A q \in Request \ {r} : request'[q] = request[q]
             /\ BodyComplete(r)'
  BY <1>2, IdleType DEF BodyComplete, Idle
<1>3. CASE BeginCreate(r)
  <2>1. PICK body \in NewRows :
          /\ ValidParent(Null, body.parent, body.project)
          /\ request' = [request EXCEPT ![r] =
               [Idle EXCEPT !.phase = "checked", !.op = "create",
                  !.patch = [body EXCEPT !.project =
                               InheritedProject(body.parent, body.project)]]]
    BY <1>3 DEF BeginCreate
  <2>2. /\ body \in Patch
        /\ body.status # Unset /\ body.parent # Unset
        /\ body.project # Unset /\ body.slot # Unset
    BY ConstantsAssumption
  <2>3. /\ InheritedProject(body.parent, body.project) \in Field(Project)
        /\ InheritedProject(body.parent, body.project) # Unset
    BY <2>1, <2>2, ConstantsAssumption
    DEF InheritedProject, Patch, Field, Row, ValidParent
  <2> DEFINE full == [body EXCEPT !.project = InheritedProject(body.parent, body.project)]
  <2>4. /\ full \in Patch
        /\ full.status # Unset /\ full.parent # Unset
        /\ full.project # Unset /\ full.slot # Unset
    BY <2>2, <2>3 DEF Patch
  <2> HIDE DEF full
  <2> QED
    BY <2>1, <2>4, IdleType DEF full, BodyComplete, RequestRecord, Operations
<1>4. CASE Finish(r)
  BY <1>2, <1>4 DEF Finish
<1>5. ASSUME NEW op \in Operations, NEW items \in SUBSET Task,
             NEW patch \in Patch, Begin(r, op, items, patch)
      PROVE  /\ request' \in [Request -> RequestRecord]
             /\ \A q \in Request \ {r} : request'[q] = request[q]
             /\ BodyComplete(r)'
  BY <1>5, BeginType DEF BodyComplete, Started
<1>6. CASE BeginDepend(r)
  <2>1. PICK t \in Task, d \in Task :
          request' = [request EXCEPT ![r] =
            [Idle EXCEPT !.phase = "read", !.op = "depend", !.edges = {<<t, d>>}]]
    BY <1>6 DEF BeginDepend
  <2> QED
    BY <2>1, DependType DEF BodyComplete
<1>7. CASE CheckBulk(r)
  BY <1>7, <1>1 DEF CheckBulk, RequestRecord, BodyComplete
<1>8. ASSUME NEW t \in Task, ReadItem(r, t)
      PROVE  /\ request' \in [Request -> RequestRecord]
             /\ \A q \in Request \ {r} : request'[q] = request[q]
             /\ BodyComplete(r)'
  BY <1>8, <1>2, ReadItemType DEF BodyComplete
<1>9. ASSUME NEW t \in Task, CheckUpdate(r, t)
      PROVE  /\ request' \in [Request -> RequestRecord]
             /\ \A q \in Request \ {r} : request'[q] = request[q]
             /\ BodyComplete(r)'
  BY <1>9, <1>2, CheckUpdateType DEF BodyComplete
<1>10. ASSUME NEW t \in Task, ReadEdges(r, t)
       PROVE  /\ request' \in [Request -> RequestRecord]
              /\ \A q \in Request \ {r} : request'[q] = request[q]
              /\ BodyComplete(r)'
  BY <1>10, <1>1 DEF ReadEdges, RequestRecord, BodyComplete
<1>11. ASSUME NEW t \in Task, NEW d \in Task, CheckDepend(r, t, d)
       PROVE  /\ request' \in [Request -> RequestRecord]
              /\ \A q \in Request \ {r} : request'[q] = request[q]
              /\ BodyComplete(r)'
  <2>1. CASE Reject(r)
    BY <2>1, <1>4 DEF Reject
  <2>2. CASE request' = [request EXCEPT ![r].phase = "checked"]
    <3>1. /\ [request[r] EXCEPT !.phase = "checked"] \in RequestRecord
          /\ [request[r] EXCEPT !.phase = "checked"].op = request[r].op
      BY <1>1 DEF RequestRecord
    <3>2. request[r].op = "depend"
      BY <1>11 DEF CheckDepend
    <3> QED
      BY <2>2, <3>1, <3>2 DEF BodyComplete
  <2> QED
    BY <1>11, <2>1, <2>2 DEF CheckDepend
<1>12. CASE UNCHANGED request
  BY <1>12 DEF BodyComplete
<1> QED
  BY StepCases, <1>3, <1>4, <1>5, <1>6, <1>7, <1>8, <1>9, <1>10, <1>11, <1>12
  DEF CommitCreate, CommitWrite, Conflict, Reject, CommitDepend, CommitDelete,
      RemoveDependency, ArchiveProject

\* Every reachable state has the declared types, and a request about to
\* INSERT carries a whole row.
THEOREM TypeCorrect == Spec => []TypeOK
<1>1. Init => TypeInv
  <2>1. NoRow \in Row
    BY DEF NoRow, Row, Status, Field
  <2>2. Idle.phase = "idle"
    BY DEF Idle
  <2> QED
    BY <2>1, <2>2, IdleType DEF Init, TypeInv, TypeOK, BodyComplete
<1>2. TypeInv /\ [Next]_vars => TypeInv'
  <2> SUFFICES ASSUME TypeInv, [Next]_vars PROVE TypeInv'
    OBVIOUS
  <2>1. CASE UNCHANGED vars
    BY <2>1 DEF vars, TypeInv, TypeOK, BodyComplete
  <2>2. ASSUME NEW r \in Request, Serve(r) PROVE TypeInv'
    <3>1. TypeOK'
      BY <2>2, TablesType, RequestsType DEF TypeOK
    <3>2. ASSUME NEW q \in Request PROVE BodyComplete(q)'
      BY <2>2, RequestsType DEF TypeInv, BodyComplete
    <3> QED
      BY <3>1, <3>2 DEF TypeInv
  <2> QED
    BY <2>1, <2>2 DEF Next
<1>3. TypeInv => TypeOK
  BY DEF TypeInv
<1> QED
  BY <1>1, <1>2, <1>3, PTL DEF Spec

-----------------------------------------------------------------------------
(* The inductive invariant: what a request has read, and how old it is. *)

Writing == {"update", "complete", "reschedule"}

\* What a request holds agrees with itself: before the transaction opens,
\* every item has been read and may take the new status from the status it
\* was read in.
Own(r) ==
  /\ request[r].phase = "read" =>
       /\ request[r].op = "complete" =>
            /\ request[r].patch.status = "completed"
            /\ \A t \in Seen(r) : ValidTransition(request[r].seen[t].status, "completed")
       /\ request[r].op = "reschedule" => request[r].patch.status = Unset
       /\ request[r].op = "update" => \A t, u \in Items(r) : t = u
  /\ (request[r].phase = "checked" /\ request[r].op \in Writing) =>
       /\ Seen(r) = Items(r)
       /\ request[r].patch.status # Unset =>
            \A t \in Items(r) :
              ValidTransition(request[r].seen[t].status, request[r].patch.status)

\* A row was read at or after the revision its request expects, and while
\* it stays at the revision it was read at, it stays as it was read.
Fresh(r, t) ==
  /\ request[r].expected[t] <= task[t].revision
  /\ request[r].seen[t].state # "absent" =>
       /\ request[r].expected[t] # 0
       /\ request[r].expected[t] <= request[r].seen[t].revision
       /\ request[r].seen[t].revision <= task[t].revision
       /\ (Active(t) /\ task[t].revision = request[r].seen[t].revision) =>
            /\ task[t].status = request[r].seen[t].status
            /\ task[t].project = request[r].seen[t].project
            /\ task[t].slot = request[r].seen[t].slot

Unborn == \A t \in Task : task[t].state = "absent" => task[t].revision = 0

IInv ==
  /\ TypeInv
  /\ Unborn
  /\ CompletionRecorded
  /\ \A r \in Request : Own(r) /\ \A t \in Task : Fresh(r, t)

\* A step writes a live row only by taking it to its next revision, or
\* clears its parent; a row that appears does so at revision 1.
RowStep(t) ==
  /\ WriteStep(t)
  /\ task[t].state = "absent" => (task'[t] = task[t] \/ task'[t].revision = 1)

\* Each action writes rows that way, and keeps completion marks in step with
\* the status.
LEMMA RowSteps ==
  ASSUME IInv, NEW r \in Request, Serve(r)
  PROVE  Unborn' /\ CompletionRecorded' /\ \A t \in Task : RowStep(t)
<1> USE DEF Unborn, CompletionRecorded, RowStep, WriteStep
<1>0. /\ task \in [Task -> Row] /\ request[r] \in RequestRecord /\ Unborn /\ CompletionRecorded
      /\ BodyComplete(r)
      /\ \A t \in Task : task[t] \in Row
      /\ \A t \in Task : request[r].expected[t] \in Nat
  BY DEF IInv, TypeInv, TypeOK, RequestRecord
<1>1. CASE CommitCreate(r)
  <2>1. PICK t \in Task : /\ task[t].state = "absent"
                          /\ task' = [task EXCEPT ![t] = Insert(request[r].patch)]
    BY <1>1 DEF CommitCreate
  <2> DEFINE new == Insert(request[r].patch)
  <2>2. /\ new.state = "active" /\ new.revision = 1
        /\ new.completedAt <=> (new.status = "completed")
    BY DEF Insert
  <2> HIDE DEF new
  <2>3. task'[t] = new /\ \A c \in Task \ {t} : task'[c] = task[c]
    BY <2>1, <1>0 DEF new
  <2>4. ASSUME NEW c \in Task
        PROVE  /\ task'[c].state = "absent" => task'[c].revision = 0
               /\ task'[c].completedAt <=> (task'[c].status = "completed")
               /\ RowStep(c)
    <3>1. CASE c = t
      BY <3>1, <2>1, <2>2, <2>3, <1>0 DEF Row
    <3>2. CASE c # t
      <4>1. task'[c] = task[c]
        BY <2>3, <3>2
      <4>2. task[c] = [task[c] EXCEPT !.parent = task[c].parent]
        BY <1>0 DEF Row
      <4> QED
        BY <4>1, <4>2, <1>0 DEF Row
    <3> QED
      BY <3>1, <3>2
  <2> QED
    BY <2>4
<1>2. CASE CommitWrite(r)
  <2>1. request[r].patch \in Patch
    BY <1>0 DEF RequestRecord
  <2>2. ASSUME NEW c \in Task
        PROVE  /\ task'[c].state = "absent" => task'[c].revision = 0
               /\ task'[c].completedAt <=> (task'[c].status = "completed")
               /\ RowStep(c)
    <3>1. CASE c \in Items(r)
      <4> DEFINE new == Revise(task[c], request[r].patch)
      <4>1. task'[c] = new /\ Active(c)
        BY <3>1, <1>2 DEF CommitWrite, Matches
      <4>2. /\ new.revision = task[c].revision + 1
            /\ new.state = task[c].state
            /\ new.status = Value(request[r].patch.status, task[c].status)
            /\ new.completedAt = (IF request[r].patch.status = Unset
                                  THEN task[c].completedAt
                                  ELSE request[r].patch.status = "completed")
        BY <2>1, <1>0, ReviseType
      <4> HIDE DEF new
      <4>3. new.completedAt <=> (new.status = "completed")
        <5>1. CASE request[r].patch.status = Unset
          BY <5>1, <4>2, <1>0 DEF Value
        <5>2. CASE request[r].patch.status # Unset
          BY <5>2, <4>2 DEF Value
        <5> QED
          BY <5>1, <5>2
      <4>4. task[c].revision \in Nat /\ task[c].state = "active"
        BY <4>1, <1>0 DEF Row, Active
      <4>5. RowStep(c)
        BY <4>1, <4>2, <4>4
      <4> QED
        BY <4>1, <4>2, <4>3, <4>4, <4>5
    <3>2. CASE c \notin Items(r)
      <4>1. task'[c] = task[c]
        BY <3>2, <1>2 DEF CommitWrite
      <4>2. task[c] = [task[c] EXCEPT !.parent = task[c].parent]
        BY <1>0 DEF Row
      <4> QED
        BY <4>1, <4>2, <1>0 DEF Row
    <3> QED
      BY <3>1, <3>2
  <2> QED
    BY <2>2
<1>3. ASSUME NEW t \in Task, CommitDelete(r, t)
      PROVE  Unborn' /\ CompletionRecorded' /\ \A c \in Task : RowStep(c)
  <2>1. ASSUME NEW c \in Task
        PROVE  /\ task'[c].state = "absent" => task'[c].revision = 0
               /\ task'[c].completedAt <=> (task'[c].status = "completed")
               /\ RowStep(c)
    <3>0. task[c].revision \in Nat
      BY <1>0 DEF Row
    <3>1. CASE c = t
      <4>1. task'[c] = SoftDelete(task[c]) /\ Active(c)
        BY <3>1, <1>3 DEF CommitDelete, Matches
      <4>2. /\ task'[c].state = "deleted"
            /\ task'[c].revision = task[c].revision + 1
            /\ task'[c].status = task[c].status
            /\ task'[c].completedAt <=> task[c].completedAt
        BY <4>1, <1>0, DeletionType
      <4>3. task[c].state = "active"
        BY <4>1 DEF Active
      <4> QED
        BY <4>2, <4>3, <3>0, <1>0
    <3>2. CASE c # t /\ Active(c) /\ task[c].parent = t
      <4>0. task'[c] = Detach(task[c])
        BY <3>2, <1>3 DEF CommitDelete
      <4>1. /\ task'[c] = [task[c] EXCEPT !.parent = task'[c].parent]
            /\ task'[c].state = task[c].state
            /\ task'[c].revision = task[c].revision
            /\ task'[c].status = task[c].status
            /\ task'[c].completedAt <=> task[c].completedAt
        BY <4>0, <1>0, DeletionType
      <4>2. task[c].state = "active"
        BY <3>2 DEF Active
      <4> QED
        BY <4>1, <4>2, <3>0, <1>0
    <3>3. CASE task'[c] = task[c]
      <4>1. task[c] = [task[c] EXCEPT !.parent = task[c].parent]
        BY <1>0 DEF Row
      <4> QED
        BY <4>1, <3>3, <3>0, <1>0
    <3> QED
      BY <1>3, <3>1, <3>2, <3>3 DEF CommitDelete
  <2> QED
    BY <2>1
<1>4. CASE UNCHANGED task
  <2>1. \A c \in Task : task[c] = [task[c] EXCEPT !.parent = task[c].parent]
    BY <1>0 DEF Row
  <2> QED
    BY <1>4, <1>0, <2>1 DEF Row
<1> QED
  BY StepCases, <1>1, <1>2, <1>3, <1>4
  DEF BeginCreate, Begin, BeginDepend, CheckBulk, Conflict, Reject, ReadItem,
      CheckUpdate, ReadEdges, CheckDepend, CommitDepend, RemoveDependency, ArchiveProject

\* A request that is over holds nothing.
LEMMA IdleInv ==
  ASSUME TypeInv', NEW r \in Request, request'[r] = Idle
  PROVE  Own(r)' /\ \A t \in Task : Fresh(r, t)'
<1>1. /\ Idle.phase = "idle"
      /\ \A t \in Task : Idle.expected[t] = 0 /\ Idle.seen[t].state = "absent"
  BY DEF Idle, NoRow
<1>2. \A t \in Task : task'[t].revision \in Nat
  BY DEF TypeInv, TypeOK, Row
<1> QED
  BY <1>1, <1>2 DEF Own, Fresh

\* Steps of others keep what a request has read fresh.
LEMMA OtherInv ==
  ASSUME IInv, TypeInv', NEW q \in Request, request'[q] = request[q],
         \A t \in Task : RowStep(t)
  PROVE  Own(q)' /\ \A t \in Task : Fresh(q, t)'
<1>1. Own(q)'
  BY DEF IInv, Own, Seen, Items
<1>2. ASSUME NEW t \in Task PROVE Fresh(q, t)'
  <2>1. /\ task[t] \in Row /\ task'[t] \in Row
        /\ request[q].seen[t] \in Row /\ request[q].expected[t] \in Nat
    BY DEF IInv, TypeInv, TypeOK, RequestRecord
  <2>2. Fresh(q, t) /\ RowStep(t) /\ (task[t].state = "absent" => task[t].revision = 0)
    BY DEF IInv, Unborn
  <2>3. /\ task[t].revision \in Nat /\ task'[t].revision \in Nat
        /\ request[q].seen[t].revision \in Nat
        /\ task[t].state \in {"absent", "active", "deleted"}
    BY <2>1 DEF Row
  <2>4. task[t].revision <= task'[t].revision
    BY <2>2 DEF RowStep, WriteStep
  <2>5. ASSUME task'[t].state = "active", task'[t].revision = task[t].revision
        PROVE  /\ task[t].state = "active"
               /\ task'[t].status = task[t].status
               /\ task'[t].project = task[t].project
               /\ task'[t].slot = task[t].slot
    <3>1. CASE task[t].state = "active"
      <4>1. task'[t] = [task[t] EXCEPT !.parent = task'[t].parent]
        BY <3>1, <2>2, <2>5 DEF RowStep, WriteStep
      <4>2. \A p : LET new == [task[t] EXCEPT !.parent = p]
                   IN  /\ new.status = task[t].status
                       /\ new.project = task[t].project
                       /\ new.slot = task[t].slot
        BY <2>1 DEF Row
      <4> QED
        BY <4>1, <4>2, <3>1
    <3>2. CASE task[t].state # "active"
      BY <3>2, <2>2, <2>3, <2>5 DEF RowStep, WriteStep
    <3> QED
      BY <3>1, <3>2
  <2>6. request[q].expected[t] <= task'[t].revision
    BY <2>1, <2>2, <2>3, <2>4 DEF Fresh
  <2>7. ASSUME request[q].seen[t].state # "absent"
        PROVE  /\ request[q].expected[t] # 0
               /\ request[q].expected[t] <= request[q].seen[t].revision
               /\ request[q].seen[t].revision <= task'[t].revision
               /\ (task'[t].state = "active" /\ task'[t].revision = request[q].seen[t].revision) =>
                    /\ task'[t].status = request[q].seen[t].status
                    /\ task'[t].project = request[q].seen[t].project
                    /\ task'[t].slot = request[q].seen[t].slot
    BY <2>2, <2>3, <2>4, <2>5, <2>7 DEF Fresh, Active
  <2> QED
    BY <2>6, <2>7 DEF Fresh, Active
<1> QED
  BY <1>1, <1>2

\* The request that takes the step: it is over, or it has read or checked
\* more and the tasks are as they were.
LEMMA RequestSteps ==
  ASSUME IInv, TypeInv', NEW r \in Request, Serve(r)
  PROVE  \/ request'[r] = Idle
         \/ request'[r] = request[r]
         \/ Own(r)' /\ \A t \in Task : Fresh(r, t)'
<1>0. /\ TypeOK /\ request[r] \in RequestRecord /\ Own(r)
      /\ \A t \in Task : /\ task[t] \in Row /\ Fresh(r, t)
                         /\ request[r].seen[t] \in Row
                         /\ request[r].expected[t] \in Nat
  BY DEF IInv, TypeInv, TypeOK, RequestRecord
<1>1. CASE Finish(r)
  BY <1>1, <1>0 DEF Finish, TypeOK
<1>2. CASE BeginCreate(r)
  <2>1. PICK patch :
          request' = [request EXCEPT ![r] =
            [Idle EXCEPT !.phase = "checked", !.op = "create", !.patch = patch]]
    BY <1>2 DEF BeginCreate
  <2>2. request'[r] = [Idle EXCEPT !.phase = "checked", !.op = "create", !.patch = patch]
    BY <2>1, <1>0 DEF TypeOK
  <2>3. /\ request'[r].phase = "checked" /\ request'[r].op = "create"
        /\ \A t \in Task : /\ request'[r].expected[t] = 0
                           /\ request'[r].seen[t].state = "absent"
    BY <2>2 DEF Idle, NoRow
  <2>4. \A t \in Task : task'[t].revision \in Nat
    BY DEF TypeInv, TypeOK, Row
  <2> QED
    BY <2>3, <2>4 DEF Own, Fresh, Writing
<1>3. ASSUME NEW op \in Operations, NEW items \in SUBSET Task, NEW patch \in Patch,
             op = "complete" => patch.status = "completed",
             op = "reschedule" => patch.status = Unset,
             op = "update" => \E t \in Task : items = {t},
             Begin(r, op, items, patch)
      PROVE  Own(r)' /\ \A t \in Task : Fresh(r, t)'
  <2>0. TypeOK /\ Begin(r, op, items, patch)
    BY <1>0, <1>3
  <2>1. PICK sent \in [items -> Nat \ {0}], first \in items :
           Started(r, op, items, patch, sent, first)
    BY <2>0, BeginType
  <2>2. Items(r)' = items
    BY <2>1 DEF Items, Started
  <2>3. /\ request'[r].seen[first] = task[first]
        /\ \A t \in Task \ {first} : request'[r].seen[t].state = "absent"
    BY <2>1 DEF Idle, NoRow, Started
  <2>4. \A t \in Seen(r)' : t = first
    BY <2>3 DEF Seen
  <2>5. Own(r)'
    BY <1>3, <2>1, <2>2, <2>3, <2>4 DEF Own, Started
  <2>6. ASSUME NEW t \in Task PROVE Fresh(r, t)'
    <3>1. task[t].revision \in Nat
      BY <1>0 DEF Row
    <3>2. CASE t = first
      BY <3>1, <3>2, <2>1, <2>3 DEF Fresh, Active, Started
    <3>3. CASE t # first
      BY <3>1, <3>3, <2>1, <2>3 DEF Fresh, Started
    <3> QED
      BY <3>2, <3>3
  <2> QED
    BY <2>5, <2>6
<1>4. CASE BeginDepend(r)
  <2>1. PICK edges :
          request' = [request EXCEPT ![r] =
            [Idle EXCEPT !.phase = "read", !.op = "depend", !.edges = edges]]
    BY <1>4 DEF BeginDepend
  <2>2. request'[r] = [Idle EXCEPT !.phase = "read", !.op = "depend", !.edges = edges]
    BY <2>1, <1>0 DEF TypeOK
  <2>3. /\ request'[r].phase = "read" /\ request'[r].op = "depend"
        /\ \A t \in Task : /\ request'[r].expected[t] = 0
                           /\ request'[r].seen[t].state = "absent"
    BY <2>2 DEF Idle, NoRow
  <2>4. \A t \in Task : task'[t].revision \in Nat
    BY DEF TypeInv, TypeOK, Row
  <2> QED
    BY <2>3, <2>4 DEF Own, Fresh
<1>5. ASSUME request'[r].phase = "checked",
             request'[r].op = request[r].op,
             request'[r].expected = request[r].expected,
             request'[r].seen = request[r].seen,
             task' = task,
             request[r].op \in Writing =>
               /\ Seen(r) = Items(r)
               /\ request'[r].patch.status # Unset =>
                    \A t \in Items(r) :
                      ValidTransition(request[r].seen[t].status, request'[r].patch.status)
      PROVE  Own(r)' /\ \A t \in Task : Fresh(r, t)'
  <2>1. Seen(r)' = Seen(r) /\ Items(r)' = Items(r)
    BY <1>5 DEF Seen, Items
  <2>2. Own(r)'
    BY <1>5, <2>1 DEF Own
  <2> QED
    BY <2>2, <1>0, <1>5 DEF Fresh, Active
<1>6. CASE CheckBulk(r)
  <2>1. /\ request'[r] = [request[r] EXCEPT !.phase = "checked"]
        /\ task' = task
        /\ request[r].phase = "read"
        /\ Seen(r) = Items(r)
        /\ request[r].op \in {"complete", "reschedule"}
    BY <1>6, <1>0 DEF CheckBulk, AllSeen, TypeOK
  <2>2. /\ request'[r].phase = "checked" /\ request'[r].op = request[r].op
        /\ request'[r].expected = request[r].expected
        /\ request'[r].seen = request[r].seen
        /\ request'[r].patch = request[r].patch
    BY <2>1, <1>0 DEF RequestRecord
  <2> QED
    BY <2>1, <2>2, <1>0, <1>5 DEF Own
<1>7. ASSUME NEW t \in Task, CheckUpdate(r, t)
      PROVE  request'[r] = Idle \/ (Own(r)' /\ \A c \in Task : Fresh(r, c)')
  <2>1. CASE request' = [request EXCEPT ![r] = Idle]
    BY <2>1, <1>0 DEF TypeOK
  <2>2. CASE ~(request' = [request EXCEPT ![r] = Idle])
    <3>1. /\ request'[r].phase = "checked"
          /\ request'[r].op = "update"
          /\ request'[r].expected = request[r].expected
          /\ request'[r].seen = request[r].seen
          /\ request'[r].patch.status = request[r].patch.status
          /\ AllSeen(r)
          /\ t \in Items(r)
          /\ request[r].patch.status # Unset =>
               ValidTransition(request[r].seen[t].status, request[r].patch.status)
          /\ task' = task
      BY <2>2, <1>0, <1>7, CheckUpdateType
    <3>2. request[r].op = "update" /\ request[r].phase = "read" /\ Seen(r) = Items(r)
      BY <1>7, <3>1 DEF CheckUpdate, AllSeen
    <3>3. \A c \in Items(r) : c = t
      BY <3>1, <3>2, <1>0 DEF Own
    <3> QED
      BY <3>1, <3>2, <3>3, <1>5
  <2> QED
    BY <2>1, <2>2
<1>8. ASSUME NEW t \in Task, ReadItem(r, t)
      PROVE  request'[r] = Idle \/ (Own(r)' /\ \A c \in Task : Fresh(r, c)')
  <2>1. CASE request' = [request EXCEPT ![r] = Idle]
    BY <2>1, <1>0 DEF TypeOK
  <2>2. CASE ~(request' = [request EXCEPT ![r] = Idle])
    <3>1. /\ request[r].phase = "read"
          /\ request'[r].phase = "read"
          /\ request'[r].op = request[r].op
          /\ request'[r].patch = request[r].patch
          /\ request'[r].expected = request[r].expected
          /\ request'[r].seen = [request[r].seen EXCEPT ![t] = task[t]]
          /\ request[r].expected[t] # 0
          /\ Active(t)
          /\ request[r].op = "complete" => ValidTransition(task[t].status, "completed")
          /\ task' = task
      BY <2>2, <1>0, <1>8, ReadItemType
    <3>2. /\ request'[r].seen[t] = task[t]
          /\ \A c \in Task \ {t} : request'[r].seen[c] = request[r].seen[c]
      BY <3>1, <1>0 DEF RequestRecord
    <3>3. Items(r)' = Items(r) /\ Seen(r)' = Seen(r) \cup {t}
      BY <3>1, <3>2 DEF Items, Seen, Active
    <3>4. Own(r)'
      BY <3>1, <3>2, <3>3, <1>0 DEF Own
    <3>5. ASSUME NEW c \in Task PROVE Fresh(r, c)'
      <4>1. task[c].revision \in Nat
        BY <1>0 DEF Row
      <4>2. CASE c = t
        BY <4>1, <4>2, <3>1, <3>2, <1>0 DEF Fresh, Active
      <4>3. CASE c # t
        BY <4>1, <4>3, <3>1, <3>2, <1>0 DEF Fresh, Active
      <4> QED
        BY <4>2, <4>3
    <3> QED
      BY <3>4, <3>5
  <2> QED
    BY <2>1, <2>2
<1>9. ASSUME NEW t \in Task, ReadEdges(r, t)
      PROVE  Own(r)' /\ \A c \in Task : Fresh(r, c)'
  <2>1. /\ request[r].op = "delete" /\ task' = task
        /\ request'[r].phase = "checked"
        /\ request'[r].op = request[r].op
        /\ request'[r].expected = request[r].expected
        /\ request'[r].seen = request[r].seen
    BY <1>9, <1>0 DEF ReadEdges, RequestRecord, TypeOK
  <2> QED
    BY <2>1, <1>5 DEF Writing
<1>10. ASSUME NEW t \in Task, NEW d \in Task, CheckDepend(r, t, d)
       PROVE  request'[r] = Idle \/ (Own(r)' /\ \A c \in Task : Fresh(r, c)')
  <2>1. CASE Reject(r)
    BY <2>1, <1>0 DEF Reject, Finish, TypeOK
  <2>2. CASE ~Reject(r)
    <3>1. /\ request[r].op = "depend" /\ task' = task
          /\ request'[r].phase = "checked"
          /\ request'[r].op = request[r].op
          /\ request'[r].expected = request[r].expected
          /\ request'[r].seen = request[r].seen
      BY <2>2, <1>10, <1>0 DEF CheckDepend, RequestRecord, TypeOK
    <3> QED
      BY <3>1, <1>5 DEF Writing
  <2> QED
    BY <2>1, <2>2
<1>11. CASE UNCHANGED request
  BY <1>11
<1> QED
  BY StepCases, <1>1, <1>2, <1>3, <1>4, <1>6, <1>7, <1>8, <1>9, <1>10, <1>11
  DEF CommitCreate, CommitWrite, Conflict, Reject, CommitDepend, CommitDelete,
      RemoveDependency, ArchiveProject

-----------------------------------------------------------------------------
(* The theorems. *)

\* Every step of a request keeps the inductive invariant.
LEMMA InductiveStep ==
  ASSUME IInv, NEW r \in Request, Serve(r)
  PROVE  IInv'
<1>1. TypeInv
  BY DEF IInv
<1>2. TypeInv'
  <2>1. TypeOK'
    BY <1>1, TablesType, RequestsType DEF TypeOK
  <2>2. ASSUME NEW q \in Request PROVE BodyComplete(q)'
    BY <1>1, RequestsType DEF TypeInv, BodyComplete
  <2> QED
    BY <2>1, <2>2 DEF TypeInv
<1>3. Unborn' /\ CompletionRecorded' /\ \A t \in Task : RowStep(t)
  BY RowSteps
<1>4. ASSUME NEW q \in Request
      PROVE  Own(q)' /\ \A t \in Task : Fresh(q, t)'
  <2>1. CASE request'[q] = request[q]
    BY <2>1, <1>2, <1>3, OtherInv
  <2>2. CASE request'[q] # request[q]
    <3>1. q = r
      BY <2>2, <1>1, RequestsType
    <3>2. request'[r] = Idle \/ (Own(r)' /\ \A t \in Task : Fresh(r, t)')
      BY <2>2, <3>1, <1>2, RequestSteps
    <3> QED
      BY <3>1, <3>2, <1>2, IdleInv
  <2> QED
    BY <2>1, <2>2
<1> QED
  BY <1>2, <1>3, <1>4 DEF IInv

\* The inductive invariant holds throughout.
LEMMA Inductive == Spec => []IInv
<1>1. Init => IInv
  <2> SUFFICES ASSUME Init PROVE IInv
    OBVIOUS
  <2>1. NoRow \in Row /\ NoRow.revision = 0 /\ NoRow.state = "absent"
        /\ (NoRow.completedAt <=> (NoRow.status = "completed"))
    BY DEF NoRow, Row, Status, Field
  <2>2. Idle.phase = "idle" /\ \A t \in Task : Idle.expected[t] = 0 /\ Idle.seen[t] = NoRow
    BY DEF Idle
  <2>3. TypeInv
    BY <2>1, <2>2, IdleType DEF Init, TypeInv, TypeOK, BodyComplete
  <2>4. Unborn /\ CompletionRecorded
    BY <2>1 DEF Init, Unborn, CompletionRecorded
  <2>5. \A r \in Request : Own(r) /\ \A t \in Task : Fresh(r, t)
    BY <2>1, <2>2 DEF Init, Own, Fresh
  <2> QED
    BY <2>3, <2>4, <2>5 DEF IInv
<1>2. IInv /\ [Next]_vars => IInv'
  <2> SUFFICES ASSUME IInv, [Next]_vars PROVE IInv'
    OBVIOUS
  <2>1. CASE UNCHANGED vars
    BY <2>1 DEF vars, IInv, TypeInv, TypeOK, BodyComplete, Unborn, CompletionRecorded,
                Own, Fresh, Seen, Items, Active
  <2>2. CASE Next
    BY <2>2, InductiveStep DEF Next
  <2> QED
    BY <2>1, <2>2
<1> QED
  BY <1>1, <1>2, PTL DEF Spec

\* A row has a completion time exactly when it is completed, whichever of
\* create, update, bulk complete and delete wrote it last.
THEOREM CompletionTheorem == Spec => []CompletionRecorded
<1>1. IInv => CompletionRecorded
  BY DEF IInv
<1> QED
  BY <1>1, Inductive, PTL

\* In the state a request is in, the rows its WHERE clause would match are
\* as it read them.
LEMMA Current ==
  ASSUME IInv, NEW r \in Request, NEW t \in Seen(r),
         Active(t), task[t].revision = request[r].expected[t]
  PROVE  /\ task[t].revision = request[r].seen[t].revision
         /\ task[t].status = request[r].seen[t].status
         /\ task[t].project = request[r].seen[t].project
         /\ task[t].slot = request[r].seen[t].slot
<1>1. t \in Task /\ Fresh(r, t) /\ request[r].seen[t].state # "absent"
  BY DEF IInv, Seen
<1>2. task[t].revision \in Nat /\ request[r].seen[t].revision \in Nat
  BY <1>1 DEF IInv, TypeInv, TypeOK, RequestRecord, Row
<1> QED
  BY <1>1, <1>2 DEF Fresh

\* The check a request made on a row it read holds of the row it overwrites,
\* although nothing locks the row between the two.
THEOREM SeenTheorem == Spec => []SeenIsCurrent
<1>1. IInv => SeenIsCurrent
  BY Current DEF SeenIsCurrent
<1> QED
  BY <1>1, Inductive, PTL

\* Every write of a live row takes it to its next revision, but for the
\* detachment of the children of a deleted task; deleted rows are final.
THEOREM RevisionTheorem == Spec => WritesAdvanceRevision
<1>1. IInv /\ [Next]_vars => [\A t \in Task : WriteStep(t)]_vars
  <2> SUFFICES ASSUME IInv, Next PROVE \A t \in Task : WriteStep(t)
    OBVIOUS
  <2> QED
    BY RowSteps DEF Next, RowStep
<1> QED
  BY <1>1, Inductive, PTL DEF Spec, WritesAdvanceRevision

-----------------------------------------------------------------------------
(* A transaction writes all items or none. *)

DeletesOne ==
  \A r \in Request : request[r].op = "delete" => \A t, u \in Items(r) : t = u

\* A request keeps the items it came with, and a deletion comes with one.
LEMMA SingleDeletions == Spec => []DeletesOne
<1>1. Init => DeletesOne
  BY DEF Init, DeletesOne, Idle
<1>2. IInv /\ DeletesOne /\ [Next]_vars => DeletesOne'
  <2> SUFFICES ASSUME IInv, DeletesOne, [Next]_vars PROVE DeletesOne'
    OBVIOUS
  <2>1. CASE request' = request
    BY <2>1 DEF DeletesOne, Items
  <2>2. ASSUME NEW r \in Request, Serve(r) PROVE DeletesOne'
    <3>1. \A q \in Request \ {r} : request'[q] = request[q]
      BY <2>2, RequestsType DEF IInv
    <3>2. request[r] \in RequestRecord /\ request \in [Request -> RequestRecord]
      BY DEF IInv, TypeInv, TypeOK
    <3>3. ASSUME request'[r].op = request[r].op, request'[r].expected = request[r].expected
          PROVE  DeletesOne'
      BY <3>1, <3>3 DEF DeletesOne, Items
    <3>4. ASSUME request'[r].op # "delete" PROVE DeletesOne'
      BY <3>1, <3>4 DEF DeletesOne, Items
    <3>5. CASE Finish(r)
      BY <3>2, <3>4, <3>5 DEF Finish, Idle
    <3>6. ASSUME NEW op \in Operations, NEW items \in SUBSET Task, NEW patch \in Patch,
                 op \in {"update", "delete"} => \E t \in Task : items = {t},
                 Begin(r, op, items, patch)
          PROVE  DeletesOne'
      <4>1. PICK sent, first : Started(r, op, items, patch, sent, first)
        BY <3>6, BeginType DEF IInv, TypeInv
      <4>2. /\ request'[r].op = op
            /\ \A t \in Task : request'[r].expected[t] # 0 => t \in items
        BY <4>1 DEF Started
      <4> QED
        BY <3>1, <3>6, <4>2 DEF DeletesOne, Items
    <3>7. CASE BeginCreate(r) \/ BeginDepend(r)
      BY <3>2, <3>4, <3>7 DEF BeginCreate, BeginDepend, Idle
    <3>8. CASE CheckBulk(r)
      BY <3>2, <3>3, <3>8 DEF CheckBulk
    <3>9. ASSUME NEW t \in Task, ReadItem(r, t) PROVE DeletesOne'
      BY <3>2, <3>3, <3>5, <3>9, ReadItemType DEF Finish, IInv, TypeInv
    <3>10. ASSUME NEW t \in Task, CheckUpdate(r, t) PROVE DeletesOne'
      BY <3>4, <3>5, <3>10, CheckUpdateType DEF Finish, IInv, TypeInv
    <3>11. ASSUME NEW t \in Task, ReadEdges(r, t) PROVE DeletesOne'
      BY <3>2, <3>3, <3>11 DEF ReadEdges
    <3>12. ASSUME NEW t \in Task, NEW d \in Task, CheckDepend(r, t, d) PROVE DeletesOne'
      <4>1. CASE request' = [request EXCEPT ![r].phase = "checked"]
        BY <3>2, <3>3, <4>1
      <4> QED
        BY <3>5, <3>12, <4>1 DEF CheckDepend, Reject
    <3> QED
      BY <2>1, <2>2, <3>5, <3>6, <3>7, <3>8, <3>9, <3>10, <3>11, <3>12, StepCases
      DEF CommitCreate, CommitWrite, Conflict, Reject, CommitDepend, CommitDelete,
          RemoveDependency, ArchiveProject
  <2> QED
    BY <2>1, <2>2 DEF Next, vars
<1> QED
  BY <1>1, <1>2, Inductive, PTL DEF Spec

\* What the transaction of a request does to its items: it takes each of them
\* to the revision after the one the client sent, or leaves each as it was.
THEOREM BulkTheorem == Spec => BulkAllOrNothing
<1> DEFINE Whole(r) == (request[r].phase = "checked" /\ request'[r].phase = "idle")
                         => \/ \A t \in Items(r) : task'[t].revision = request[r].expected[t] + 1
                            \/ \A t \in Items(r) : task'[t] = task[t]
<1>1. IInv /\ DeletesOne /\ [Next]_vars => [\A r \in Request : Whole(r)]_vars
  <2> SUFFICES ASSUME IInv, DeletesOne, NEW q \in Request, Serve(q), NEW r \in Request
               PROVE  Whole(r)
    BY DEF Next
  <2>1. CASE r # q
    <3>1. request'[r] = request[r]
      BY <2>1, RequestsType DEF IInv
    <3> QED
      BY <3>1
  <2>2. CASE UNCHANGED task
    BY <2>2
  <2>3. ASSUME CommitWrite(r) PROVE Whole(r)
    <3>1. \A t \in Items(r) :
            task'[t] = Revise(task[t], request[r].patch) /\ task[t].revision = request[r].expected[t]
      BY <2>3 DEF CommitWrite, Matches, Items
    <3>2. \A t \in Items(r) : Revise(task[t], request[r].patch).revision = task[t].revision + 1
      BY DEF Items, IInv, TypeInv, TypeOK, Revise, Row
    <3> QED
      BY <3>1, <3>2
  <2>4. ASSUME NEW d \in Task, CommitDelete(r, d) PROVE Whole(r)
    <3>1. Items(r) = {d}
      BY <2>4 DEF CommitDelete, DeletesOne, Items
    <3>2. task'[d] = SoftDelete(task[d]) /\ task[d].revision = request[r].expected[d]
      BY <2>4 DEF CommitDelete, Matches
    <3>3. SoftDelete(task[d]).revision = task[d].revision + 1
      BY DEF IInv, TypeInv, TypeOK, SoftDelete, Row
    <3> QED
      BY <3>1, <3>2, <3>3
  <2>5. ASSUME CommitCreate(r) PROVE Whole(r)
    <3>1. PICK c \in Task : /\ task[c].state = "absent"
                            /\ task' = [task EXCEPT ![c] = Insert(request[r].patch)]
      BY <2>5 DEF CommitCreate
    <3>2. c \notin Items(r)
      BY <3>1 DEF IInv, Unborn, Fresh, Items, TypeInv, TypeOK, RequestRecord
    <3> QED
      BY <3>1, <3>2 DEF Items, IInv, TypeInv, TypeOK
  <2> QED
    <3> HIDE DEF Whole
    <3>1. CASE r = q
      <4> QED
        BY <3>1, <2>2, <2>3, <2>4, <2>5, StepCases
        DEF BeginCreate, Begin, BeginDepend, CheckBulk, Conflict, Reject, ReadItem,
            CheckUpdate, ReadEdges, CheckDepend, CommitDepend, RemoveDependency, ArchiveProject
    <3> QED
      BY <2>1, <3>1
<1> QED
  <2>1. BulkAllOrNothing <=> [][\A r \in Request : Whole(r)]_vars
    BY DEF BulkAllOrNothing
  <2> HIDE DEF Whole
  <2> QED
    BY <1>1, <2>1, Inductive, SingleDeletions, PTL DEF Spec

-----------------------------------------------------------------------------
(* Tasks implements TaskLifecycle. *)

\* What TaskLifecycle sees of the tasks table.
abstract == [t \in Task |-> [state |-> task[t].state, revision |-> task[t].revision,
                            status |-> task[t].status,
                            completedAt |-> task[t].completedAt]]

\* An INSERT is an appearance.
LEMMA CreateRefines ==
  ASSUME IInv, NEW r \in Request, CommitCreate(r)
  PROVE  Life!LifeNext
<1>1. PICK t \in Task : /\ task[t].state = "absent"
                        /\ task' = [task EXCEPT ![t] = Insert(request[r].patch)]
  BY DEF CommitCreate
<1> DEFINE s == request[r].patch.status
           new == Insert(request[r].patch)
<1>2. s \in Life!Status
  BY DEF CommitCreate, IInv, TypeInv, TypeOK, BodyComplete, RequestRecord, Patch,
         Status, Life!Status
<1>3. /\ new.state = "active" /\ new.revision = 1 /\ new.status = s
      /\ new.completedAt = (s = "completed")
  BY DEF Insert
<1>4. task'[t] = new /\ \A c \in Task \ {t} : task'[c] = task[c]
  BY <1>1 DEF IInv, TypeInv, TypeOK
<1> HIDE DEF new
<1>5. abstract' = [abstract EXCEPT ![t] =
        [state |-> "active", revision |-> 1, status |-> s,
         completedAt |-> (s = "completed")]]
  BY <1>3, <1>4 DEF abstract
<1>6. abstract[t].state = "absent"
  BY <1>1 DEF abstract
<1>7. Life!Appear(t)
  BY <1>2, <1>5, <1>6 DEF abstract, Life!Appear
<1> QED
  BY <1>7 DEF Life!LifeNext

\* A soft delete is a disappearance.
LEMMA DeleteRefines ==
  ASSUME IInv, NEW r \in Request, NEW t \in Task, CommitDelete(r, t)
  PROVE  Life!LifeNext
<1>0. \A c \in Task : task[c] \in Row
  BY DEF IInv, TypeInv, TypeOK
<1>1. task[t].state = "active"
  BY DEF CommitDelete, Matches, Active
<1>2. task'[t] = SoftDelete(task[t])
  BY DEF CommitDelete
<1>3. \A c \in Task \ {t} : task'[c] = task[c] \/ task'[c] = Detach(task[c])
  BY DEF CommitDelete
<1>4. abstract'[t] = [state |-> "deleted", revision |-> abstract[t].revision + 1,
                      status |-> abstract[t].status,
                      completedAt |-> abstract[t].completedAt]
  <2>1. /\ task'[t].state = "deleted"
        /\ task'[t].revision = task[t].revision + 1
        /\ task'[t].status = task[t].status
        /\ task'[t].completedAt = task[t].completedAt
    BY <1>0, <1>2 DEF SoftDelete, Row
  <2>2. /\ abstract[t].revision = task[t].revision
        /\ abstract[t].status = task[t].status
        /\ abstract[t].completedAt = task[t].completedAt
    BY DEF abstract
  <2> QED
    BY <2>1, <2>2 DEF abstract
<1>5. \A c \in Task \ {t} : abstract'[c] = abstract[c]
  BY <1>0, <1>3 DEF abstract, Detach, Row
<1>6. Life!Vanish(t)
  BY <1>1, <1>4, <1>5 DEF abstract, Life!Vanish
<1> QED
  BY <1>6 DEF Life!LifeNext

\* The UPDATEs of one transaction are one Write: their rows are as they
\* were when the transitions were checked.
LEMMA WriteRefines ==
  ASSUME IInv, NEW r \in Request, CommitWrite(r)
  PROVE  Life!LifeNext
<1>a. PICK rows \in SUBSET Task : rows = Items(r)
  BY DEF Items
<1> DEFINE patch == request[r].patch
           to    == [t \in rows |-> Value(patch.status, task[t].status)]
<1>0. /\ \A t \in Task : task[t] \in Row
      /\ patch \in Patch
      /\ Own(r)
  BY DEF IInv, TypeInv, TypeOK, RequestRecord
<1>1. /\ request[r].phase = "checked" /\ request[r].op \in Writing
      /\ \A t \in rows : Active(t) /\ task[t].revision = request[r].expected[t]
      /\ \A t \in Task : task'[t] = IF t \in rows THEN Revise(task[t], patch) ELSE task[t]
  BY <1>a DEF CommitWrite, Matches, Writing
<1>2. Seen(r) = Items(r)
  BY <1>0, <1>1 DEF Own
<1>3. \A t \in rows : patch.status # Unset => ValidTransition(task[t].status, patch.status)
  BY <1>a, <1>0, <1>1, <1>2, Current DEF Own
<1>4. ASSUME NEW t \in rows
      PROVE  /\ to[t] \in Life!Status
             /\ Life!MayBecome(task[t].status, to[t])
  <2>1. task[t].status \in Status /\ patch.status \in Status \cup {Unset}
    BY <1>0 DEF Row, Patch
  <2>2. \A a, b : Life!MayBecome(a, b) <=> ValidTransition(a, b)
    BY DEF Life!MayBecome, ValidTransition, Life!AllowedTransitions, AllowedTransitions
  <2> QED
    BY <2>1, <2>2, <1>3 DEF Value, Status, Life!Status, ValidTransition
<1>5. ASSUME NEW t \in Task
      PROVE  abstract'[t] = IF t \in rows
                            THEN [state |-> "active",
                                  revision |-> abstract[t].revision + 1,
                                  status |-> to[t],
                                  completedAt |-> (to[t] = "completed")]
                            ELSE abstract[t]
  <2>1. CASE t \in rows
    <3>1. /\ task'[t].state = "active"
          /\ task'[t].revision = task[t].revision + 1
          /\ task'[t].status = to[t]
      BY <2>1, <1>0, <1>1, ReviseType DEF Active
    <3>2. task'[t].completedAt <=> (task'[t].status = "completed")
      BY RowSteps DEF CompletionRecorded, Serve
    <3>3. task'[t].completedAt = (to[t] = "completed")
      <4>1. task'[t] \in Row
        BY <2>1, <1>0, <1>1, ReviseType
      <4>2. task'[t].completedAt \in BOOLEAN
        BY <4>1 DEF Row
      <4>3. (task'[t].status = "completed") <=> (to[t] = "completed")
        BY <3>1
      <4> HIDE DEF to
      <4> QED
        BY <3>2, <4>2, <4>3, Zenon
    <3> QED
      BY <2>1, <3>1, <3>3 DEF abstract
  <2>2. CASE t \notin rows
    BY <2>2, <1>1 DEF abstract
  <2> QED
    BY <2>1, <2>2
<1>6. /\ \A t \in rows : abstract[t].state = "active"
      /\ \A t \in rows : abstract[t].status = task[t].status
  BY <1>0, <1>1 DEF abstract, Active
<1>7. to \in [rows -> Life!Status]
  BY <1>4
<1>8. Life!Write(rows)
  <2>1. \A t \in rows : Life!MayBecome(abstract[t].status, to[t])
    BY <1>4, <1>6
  <2>2. abstract' = [t \in Task |->
                       IF t \in rows
                       THEN [state |-> "active",
                             revision |-> abstract[t].revision + 1,
                             status |-> to[t],
                             completedAt |-> (to[t] = "completed")]
                       ELSE abstract[t]]
    BY <1>5 DEF abstract
  <2> HIDE DEF to
  <2>3. \E next \in [rows -> Life!Status] :
          /\ \A t \in rows : Life!MayBecome(abstract[t].status, next[t])
          /\ abstract' = [t \in Task |->
                            IF t \in rows
                            THEN [state |-> "active",
                                  revision |-> abstract[t].revision + 1,
                                  status |-> next[t],
                                  completedAt |-> (next[t] = "completed")]
                            ELSE abstract[t]]
    BY <1>7, <2>1, <2>2
  <2> QED
    BY <1>6, <2>3, Zenon DEF abstract, Life!Write
<1> QED
  BY <1>8 DEF Life!LifeNext

\* Requests that validate rows without a lock and write them later give the
\* same histories of rows as requests that validate and write in one step.
THEOREM LifecycleTheorem == Spec => LifecycleImplemented
<1>1. Init => Life!LifeInit
  BY DEF Init, Life!LifeInit, NoRow
<1>2. IInv /\ [Next]_vars => [Life!LifeNext]_abstract
  <2> SUFFICES ASSUME IInv, [Next]_vars PROVE [Life!LifeNext]_abstract
    OBVIOUS
  <2>1. CASE UNCHANGED task
    BY <2>1 DEF abstract
  <2>2. ASSUME NEW r \in Request, Serve(r) PROVE [Life!LifeNext]_abstract
    BY <2>1, <2>2, StepCases, CreateRefines, WriteRefines, DeleteRefines
    DEF BeginCreate, Begin, BeginDepend, CheckBulk, Conflict, Reject, ReadItem,
        CheckUpdate, ReadEdges, CheckDepend, CommitDepend, RemoveDependency, ArchiveProject
  <2> QED
    BY <2>1, <2>2 DEF Next, vars
<1>3. LifecycleImplemented <=> (Life!LifeInit /\ [][Life!LifeNext]_abstract)
  BY DEF LifecycleImplemented, Life!LifeSpec, abstract
<1> QED
  BY <1>1, <1>2, <1>3, Inductive, PTL DEF Spec

-----------------------------------------------------------------------------
(* Paths and cycles.  Reachability is stated with closed sets, so that     *)
(* facts about paths need no induction over their length.                  *)

\* An edge that closes no path keeps a graph without cycles.
LEMMA AcyclicEdge ==
  ASSUME NEW D, NEW E, NEW t \in Task, NEW d \in Task,
         E \subseteq D \cup {<<t, d>>}, ~Reaches(E, d, t),
         \A u \in Task : ~OnCycle(D, u)
  PROVE  \A u \in Task : ~OnCycle(E, u)
<1> SUFFICES ASSUME NEW u \in Task, NEW e \in E, e[1] = u, Reaches(E, e[2], u)
             PROVE  FALSE
  BY DEF OnCycle
<1>1. PICK S \in SUBSET Task : d \in S /\ t \notin S /\ \A f \in E : f[1] \in S => f[2] \in S
  BY DEF Reaches
<1>2. e # <<t, d>>
  BY DEF Reaches
<1>3. e \in D /\ ~Reaches(D, e[2], u)
  BY <1>2 DEF OnCycle
<1>4. PICK T \in SUBSET Task : e[2] \in T /\ u \notin T /\ \A f \in D : f[1] \in T => f[2] \in T
  BY <1>3 DEF Reaches
<1>5. \A f \in E : f \in D \/ f = <<t, d>>
  OBVIOUS
<1>6. u \in S
  <2>1. \A f \in E : f[1] \in S \cup T => f[2] \in S \cup T
    BY <1>1, <1>4, <1>5
  <2> QED
    BY <1>4, <2>1 DEF Reaches
<1>7. e[2] \in S
  BY <1>1, <1>6
<1>8. \A f \in E : f[1] \in S \cap T => f[2] \in S \cap T
  BY <1>1, <1>4, <1>5
<1> QED
  BY <1>4, <1>7, <1>8 DEF Reaches

-----------------------------------------------------------------------------
(* One client at a time: what a request has checked still holds when it    *)
(* writes.                                                                 *)

OneClient == \A q, r \in Request : q = r

LinkTo(p) == p = Null \/ (p \in Task /\ Active(p))

\* What a request that is about to write knows of the graph and the tree.
Carries(r) ==
  LET op == request[r].op
      p  == request[r].patch.parent
  IN  /\ request[r].phase # "idle" =>
           /\ op \in {"update", "delete"} => \A t, u \in Items(r) : t = u
           /\ op \in {"complete", "reschedule"} => p = Unset
           /\ op = "depend" => \E t, d \in Task :
                /\ request[r].edges = {<<t, d>>} /\ Active(t) /\ Active(d)
                /\ request[r].phase = "checked" =>
                     ~Reaches(dependency \cup {<<t, d>>}, d, t)
      /\ request[r].phase = "checked" =>
           /\ op = "create" => LinkTo(p)
           /\ op = "update" => p = Unset \/
                /\ LinkTo(p)
                /\ p # Null => \A t \in Items(r) : t # p /\ ~Reaches(ParentEdges, p, t)
           /\ op = "delete" => \A t \in Items(r) :
                request[r].edges = {e \in dependency : t \in {e[1], e[2]}}

Relations == DependenciesAcyclic /\ ParentsAcyclic /\ LinksLive

RelationsInv == Relations /\ \A r \in Request : Carries(r)

\* A request that is over knows nothing.
LEMMA IdleCarries ==
  ASSUME NEW r \in Request, request'[r].phase = "idle"
  PROVE  Carries(r)'
  BY DEF Carries

\* Steps that leave tasks and dependencies alone.
LEMMA ReadsCarry ==
  ASSUME IInv, RelationsInv, NEW r \in Request, Serve(r), UNCHANGED <<task, dependency>>
  PROVE  Carries(r)'
<1>0. /\ request \in [Request -> RequestRecord] /\ request[r] \in RequestRecord
      /\ Carries(r)
  BY DEF IInv, TypeInv, TypeOK, RelationsInv
<1>1. CASE request'[r] = Idle
  BY <1>1, IdleCarries DEF Idle
<1>2. CASE request' = request
  BY <1>0, <1>2 DEF Carries, Items, LinkTo, Active, ParentEdges
<1>3. CASE BeginCreate(r)
  <2>1. PICK body \in NewRows :
          /\ ValidParent(Null, body.parent, body.project)
          /\ request' = [request EXCEPT ![r] =
               [Idle EXCEPT !.phase = "checked", !.op = "create",
                  !.patch = [body EXCEPT !.project =
                               InheritedProject(body.parent, body.project)]]]
    BY <1>3 DEF BeginCreate
  <2>2. body \in Patch
    BY ConstantsAssumption
  <2>3. /\ request'[r].phase = "checked" /\ request'[r].op = "create"
        /\ request'[r].patch.parent = body.parent
    BY <1>0, <2>1, <2>2 DEF Idle, Patch
  <2>4. LinkTo(body.parent)
    BY <2>1 DEF ValidParent, LinkTo
  <2> QED
    BY <2>3, <2>4, <1>3 DEF Carries, LinkTo, Active, BeginCreate
<1>4. ASSUME NEW op \in Operations, NEW items \in SUBSET Task, NEW patch \in Patch,
             op \in {"complete", "reschedule"} => patch.parent = Unset,
             op \in {"update", "delete"} => \E t \in Task : items = {t},
             op \in {"update", "complete", "reschedule", "delete"},
             Begin(r, op, items, patch)
      PROVE  Carries(r)'
  <2>1. /\ request'[r].phase = "read" /\ request'[r].op = op /\ request'[r].patch = patch
        /\ \A t \in Task : request'[r].expected[t] # 0 => t \in items
    BY <1>0, <1>4 DEF Begin, Idle
  <2> QED
    BY <1>4, <2>1 DEF Carries, Items
<1>5. ASSUME NEW t \in Task, ReadItem(r, t), request' = [request EXCEPT ![r].seen[t] = task[t]]
      PROVE  Carries(r)'
  <2>1. /\ request'[r].phase = request[r].phase /\ request'[r].op = request[r].op
        /\ request'[r].patch = request[r].patch /\ request'[r].expected = request[r].expected
        /\ request'[r].edges = request[r].edges
    BY <1>0, <1>5 DEF RequestRecord
  <2> QED
    BY <1>0, <2>1 DEF Carries, Items, LinkTo, Active, ParentEdges, Reaches
<1>6. ASSUME NEW t \in Task, CheckUpdate(r, t), request'[r].phase = "checked"
      PROVE  Carries(r)'
  <2> DEFINE row     == request[r].seen[t]
             patch   == request[r].patch
             parent  == Value(patch.parent, row.parent)
             project == Value(patch.project, row.project)
             final   == IF parent # Null /\ project = Null THEN task[parent].project
                        ELSE patch.project
  <2>1. request' # [request EXCEPT ![r] = Idle]
    BY <1>0, <1>6 DEF Idle
  <2>2. /\ ValidParent(t, parent, project)
        /\ request' = [request EXCEPT ![r].phase = "checked", ![r].patch.project = final]
    BY <1>6, <2>1, Zenon DEF CheckUpdate, Reject, Finish
  <2>3. /\ request'[r].op = "update" /\ request'[r].patch.parent = patch.parent
        /\ request'[r].expected = request[r].expected
        /\ request[r].op = "update" /\ request[r].phase = "read" /\ t \in Items(r)
    <3> HIDE DEF final
    <3> QED
      BY <1>0, <1>6, <2>2 DEF RequestRecord, Patch, CheckUpdate, AllSeen
  <2>4. ASSUME patch.parent # Unset
        PROVE  /\ LinkTo(patch.parent)
               /\ patch.parent # Null => t # patch.parent /\ ~Reaches(ParentEdges, patch.parent, t)
    BY <2>2, <2>4, ConstantsAssumption DEF ValidParent, Value, CreatesParentCycle, LinkTo
  <2>5. \A u \in Items(r) : u = t
    BY <1>0, <2>3 DEF Carries
  <2> HIDE DEF patch
  <2> QED
    BY <1>6, <2>3, <2>4, <2>5 DEF Carries, Items, LinkTo, Active, ParentEdges, patch
<1>7. ASSUME request' = [request EXCEPT ![r].phase = "checked"], CheckBulk(r)
      PROVE  Carries(r)'
  BY <1>0, <1>7 DEF CheckBulk, AllSeen, Carries, RequestRecord, Items
<1>8. ASSUME NEW t \in Task, ReadEdges(r, t) PROVE Carries(r)'
  <2>1. /\ request'[r].op = "delete" /\ request'[r].phase = "checked"
        /\ request'[r].expected = request[r].expected
        /\ request'[r].edges = {e \in dependency : t \in {e[1], e[2]}}
        /\ \A u \in Items(r) : u = t
    BY <1>0, <1>8 DEF ReadEdges, AllSeen, RequestRecord, Carries
  <2> QED
    BY <1>8, <2>1 DEF Carries, Items
<1>9. CASE BeginDepend(r)
  <2>1. PICK t, d \in Task :
          /\ Active(t) /\ Active(d)
          /\ request' = [request EXCEPT ![r] =
               [Idle EXCEPT !.phase = "read", !.op = "depend", !.edges = {<<t, d>>}]]
    BY <1>9 DEF BeginDepend
  <2>2. /\ request'[r].phase = "read" /\ request'[r].op = "depend"
        /\ request'[r].edges = {<<t, d>>}
    BY <1>0, <2>1 DEF Idle
  <2>3. Active(t)' /\ Active(d)'
    BY <2>1 DEF Active
  <2> QED
    BY <2>2, <2>3 DEF Carries
<1>10. ASSUME NEW t \in Task, NEW d \in Task, CheckDepend(r, t, d),
              request' = [request EXCEPT ![r].phase = "checked"]
       PROVE  Carries(r)'
  <2>1. /\ request'[r].phase = "checked" /\ request'[r].op = "depend"
        /\ request'[r].edges = {<<t, d>>} /\ request[r].edges = {<<t, d>>}
        /\ request[r].op = "depend" /\ request[r].phase = "read"
    BY <1>0, <1>10 DEF CheckDepend, RequestRecord
  <2>2. ~Reaches(dependency \cup {<<t, d>>}, d, t)
    <3>1. request' # [request EXCEPT ![r] = Idle]
      BY <1>0, <2>1 DEF Idle
    <3> QED
      BY <1>10, <3>1 DEF CheckDepend, Reject, Finish, WouldCreateDependencyCycle
  <2>3. Active(t) /\ Active(d)
    <3>1. PICK x, y \in Task : request[r].edges = {<<x, y>>} /\ Active(x) /\ Active(y)
      BY <1>0, <2>1 DEF Carries
    <3>2. <<x, y>> = <<t, d>>
      BY <2>1, <3>1
    <3> QED
      BY <3>1, <3>2
  <2>4. Active(t)' /\ Active(d)' /\ (~Reaches(dependency \cup {<<t, d>>}, d, t))'
    BY <2>2, <2>3 DEF Active, Reaches
  <2> QED
    BY <2>1, <2>4 DEF Carries
<1>11. CASE Finish(r)
  BY <1>0, <1>1, <1>11 DEF Finish
<1>12. CASE CommitCreate(r) \/ CommitWrite(r) \/ Conflict(r) \/ CommitDepend(r)
            \/ (\E t \in Task : CommitDelete(r, t))
  BY <1>11, <1>12 DEF CommitCreate, CommitWrite, CommitDelete, CommitDepend, Conflict, Reject
<1>13. CASE CheckBulk(r)
  BY <1>7, <1>13 DEF CheckBulk
<1>14. ASSUME NEW t \in Task, ReadItem(r, t) PROVE Carries(r)'
  BY <1>5, <1>11, <1>14 DEF ReadItem, Reject
<1>15. ASSUME NEW t \in Task, CheckUpdate(r, t) PROVE Carries(r)'
  <2>1. Finish(r) \/ request'[r].phase = "checked"
    BY <1>0, <1>15 DEF CheckUpdate, Reject, RequestRecord
  <2> QED
    BY <2>1, <1>6, <1>11, <1>15
<1>16. ASSUME NEW t \in Task, NEW d \in Task, CheckDepend(r, t, d) PROVE Carries(r)'
  BY <1>10, <1>11, <1>16 DEF CheckDepend, Reject
<1>17. CASE (\E t, d \in Task : RemoveDependency(r, t, d)) \/ \E q \in Project : ArchiveProject(r, q)
  BY <1>2, <1>17 DEF RemoveDependency, ArchiveProject
<1> QED
  BY StepCases, <1>3, <1>4, <1>8, <1>9, <1>12, <1>13, <1>14, <1>15, <1>16, <1>17

\* A write of a row moves it to the parent it names, or leaves it.
LEMMA ReviseParent ==
  ASSUME NEW row \in Row, NEW patch \in Patch
  PROVE  Revise(row, patch).parent = Value(patch.parent, row.parent)
<1> DEFINE done == IF patch.status = Unset THEN row.completedAt
                   ELSE patch.status = "completed"
<1>1. Revise(row, patch) =
        [row EXCEPT !.revision = @ + 1, !.status = Value(patch.status, @),
                    !.completedAt = done, !.parent = Value(patch.parent, @),
                    !.project = Value(patch.project, @),
                    !.slot = Value(patch.slot, @)]
  BY Zenon DEF Revise
<1> HIDE DEF done
<1> QED
  BY <1>1 DEF Row

\* Every write keeps the graph and the tree as they were checked.
LEMMA WritesKeepRelations ==
  ASSUME IInv, RelationsInv, NEW r \in Request, Serve(r)
  PROVE  Relations'
<1>0. /\ task \in [Task -> Row] /\ dependency \subseteq Task \X Task
      /\ request \in [Request -> RequestRecord] /\ request[r] \in RequestRecord
      /\ \A t \in Task : task[t] \in Row
      /\ Carries(r) /\ DependenciesAcyclic /\ ParentsAcyclic /\ LinksLive
      /\ ParentEdges \subseteq Task \X Task
  BY DEF IInv, TypeInv, TypeOK, RelationsInv, Relations, ParentEdges, Row, Field
<1> DEFINE p == request[r].patch.parent
<1>1. ASSUME UNCHANGED dependency PROVE DependenciesAcyclic'
  BY <1>0, <1>1 DEF DependenciesAcyclic, OnCycle, Reaches
<1>2. ASSUME ParentEdges' \subseteq ParentEdges PROVE ParentsAcyclic'
  BY <1>0, <1>2 DEF ParentsAcyclic, OnCycle, Reaches
<1>3. ASSUME NEW t \in Task, NEW q \in Task, ParentEdges' \subseteq ParentEdges \cup {<<t, q>>},
             ~Reaches(ParentEdges', q, t)
      PROVE  ParentsAcyclic'
  <2>1. \A u \in Task : ~OnCycle(ParentEdges', u)
    BY <1>0, <1>3, AcyclicEdge DEF ParentsAcyclic
  <2> QED
    BY <2>1 DEF ParentsAcyclic, OnCycle, Reaches
<1>4. CASE UNCHANGED <<task, dependency>>
  BY <1>0, <1>1, <1>2, <1>4 DEF Relations, LinksLive, Active, ParentEdges
<1>5. CASE CommitCreate(r)
  <2>1. PICK t \in Task : /\ task[t].state = "absent"
                          /\ task' = [task EXCEPT ![t] = Insert(request[r].patch)]
    BY <1>5 DEF CommitCreate
  <2>2. /\ task'[t].state = "active" /\ task'[t].parent = p
        /\ \A c \in Task : c # t => task'[c] = task[c]
    BY <1>0, <2>1 DEF Insert
  <2>3. LinkTo(p) /\ p # t /\ UNCHANGED dependency
    BY <1>0, <1>5, <2>1, ConstantsAssumption DEF Carries, CommitCreate, LinkTo, Active
  <2>4. \A c \in Task : (c # t /\ Active(c) /\ task[c].parent # Null) =>
          task[c].parent \in Task /\ Active(task[c].parent) /\ task[c].parent # t
    BY <1>0, <2>1 DEF LinksLive, Active, Row, Field
  <2>5. LinksLive'
    <3>1. \A e \in dependency : e[1] \in Task /\ e[2] \in Task
                               /\ Active(e[1]) /\ Active(e[2]) /\ e[1] # t /\ e[2] # t
      BY <1>0, <2>1 DEF LinksLive, Active
    <3>2. \A c \in Task : (task'[c].state = "active" /\ task'[c].parent # Null) =>
            task'[task'[c].parent].state = "active"
      BY <2>2, <2>3, <2>4 DEF Active, LinkTo
    <3> QED
      BY <2>2, <2>3, <3>1, <3>2 DEF LinksLive, Active
  <2>6. \A e \in ParentEdges' :
          \/ e = <<t, p>> /\ p # Null
          \/ e \in ParentEdges /\ e[1] # t /\ e[2] # t /\ e[2] \in Task
    BY <2>2, <2>4 DEF ParentEdges, Active
  <2>7. ParentsAcyclic'
    <3>1. CASE p = Null
      BY <3>1, <2>6, <1>2
    <3>2. CASE p # Null
      <4>1. p \in Task \ {t}
        BY <3>2, <2>3 DEF LinkTo
      <4>2. \A e \in ParentEdges' : e[1] \in Task \ {t} => e[2] \in Task \ {t}
        BY <2>6
      <4>3. ~Reaches(ParentEdges', p, t)
        BY <4>1, <4>2 DEF Reaches
      <4> QED
        BY <4>1, <4>3, <2>6, <1>3
    <3> QED
      BY <3>1, <3>2
  <2> QED
    BY <2>3, <2>5, <2>7, <1>1 DEF Relations
<1>6. CASE CommitWrite(r)
  <2>1. /\ UNCHANGED dependency /\ request[r].patch \in Patch
        /\ \A c \in Task : /\ task'[c].state = task[c].state
                           /\ task'[c].parent = IF c \in Items(r) THEN Value(p, task[c].parent)
                                                ELSE task[c].parent
    BY <1>0, <1>6, ReviseType, ReviseParent DEF CommitWrite, RequestRecord
  <2>2. CASE p = Unset
    <3>1. \A c \in Task : task'[c].state = task[c].state /\ task'[c].parent = task[c].parent
      BY <2>1, <2>2 DEF Value
    <3>2. LinksLive'
      BY <1>0, <2>1, <3>1 DEF LinksLive, Active, Row, Field
    <3>3. ParentEdges' \subseteq ParentEdges
      BY <3>1 DEF ParentEdges, Active
    <3> QED
      BY <2>1, <3>2, <3>3, <1>1, <1>2 DEF Relations
  <2>3. CASE p # Unset
    <3>0. /\ LinkTo(p)
          /\ p # Null => \A t \in Items(r) : t # p /\ ~Reaches(ParentEdges, p, t)
          /\ \A t, u \in Items(r) : t = u
      BY <1>0, <1>6, <2>3 DEF Carries, CommitWrite
    <3>1. \A c \in Task : /\ task'[c].state = task[c].state
                          /\ task'[c].parent = IF c \in Items(r) THEN p ELSE task[c].parent
      BY <2>1, <2>3 DEF Value
    <3>2. LinksLive'
      <4>1. \A e \in dependency : e[1] \in Task /\ e[2] \in Task /\ Active(e[1]) /\ Active(e[2])
        BY <1>0 DEF LinksLive
      <4>2. \A c \in Task : (task'[c].state = "active" /\ task'[c].parent # Null) =>
              task'[task'[c].parent].state = "active"
        BY <1>0, <3>0, <3>1 DEF LinksLive, Active, LinkTo, Row, Field
      <4> QED
        BY <2>1, <3>1, <4>1, <4>2 DEF LinksLive, Active
    <3>3. CASE p = Null \/ Items(r) = {}
      <4>1. ParentEdges' \subseteq ParentEdges
        BY <3>1, <3>3 DEF ParentEdges, Active
      <4> QED
        BY <2>1, <3>2, <4>1, <1>1, <1>2 DEF Relations
    <3>4. CASE p # Null /\ Items(r) # {}
      <4>1. PICK t \in Task : Items(r) = {t}
        BY <3>0, <3>4 DEF Items
      <4>2. p \in Task /\ ~Reaches(ParentEdges, p, t)
        BY <3>0, <3>4, <4>1 DEF LinkTo
      <4>3. PICK S \in SUBSET Task :
              p \in S /\ t \notin S /\ \A e \in ParentEdges : e[1] \in S => e[2] \in S
        BY <4>2 DEF Reaches
      <4>4. \A e \in ParentEdges' : e = <<t, p>> \/ e \in ParentEdges
        BY <3>1, <4>1 DEF ParentEdges, Active
      <4>5. \A e \in ParentEdges' : e[1] \in S => e[2] \in S
        BY <4>3, <4>4
      <4>6. ~Reaches(ParentEdges', p, t)
        BY <4>3, <4>5 DEF Reaches
      <4>7. ParentsAcyclic'
        BY <4>2, <4>4, <4>6, <1>3
      <4> QED
        BY <2>1, <3>2, <4>7, <1>1 DEF Relations
    <3> QED
      BY <3>3, <3>4
  <2> QED
    BY <2>2, <2>3
<1>7. ASSUME NEW t \in Task, CommitDelete(r, t) PROVE Relations'
  <2>1. /\ dependency' = dependency \ {e \in dependency : t \in {e[1], e[2]}}
        /\ Active(t)
    BY <1>0, <1>7 DEF Carries, CommitDelete, Matches
  <2>2. /\ task'[t].state = "deleted"
        /\ \A c \in Task : c # t => task'[c].state = task[c].state
        /\ \A c \in Task : c # t /\ task'[c].parent # task[c].parent =>
                             Active(c) /\ task[c].parent = t /\ task'[c].parent = Null
        /\ \A c \in Task : c # t /\ Active(c) /\ task[c].parent = t => task'[c].parent = Null
    <3>1. \A c \in Task : Detach(task[c]).parent = Null
      BY <1>0 DEF Detach, Row
    <3> QED
      BY <1>0, <1>7, <3>1, DeletionType DEF CommitDelete
  <2>3. LinksLive'
    <3>1. \A e \in dependency' : e[1] # t /\ e[2] # t /\ e[1] \in Task /\ e[2] \in Task
                                /\ Active(e[1]) /\ Active(e[2])
      BY <1>0, <2>1 DEF LinksLive
    <3>2. ASSUME NEW c \in Task, task'[c].state = "active", task'[c].parent # Null
          PROVE  task'[task'[c].parent].state = "active"
      <4>1. c # t /\ Active(c) /\ task'[c].parent = task[c].parent
        BY <2>2, <3>2 DEF Active
      <4>2. task[c].parent # t /\ Active(task[c].parent) /\ task[c].parent \in Task
        BY <1>0, <2>2, <3>2, <4>1 DEF LinksLive, Row, Field
      <4> QED
        BY <2>2, <4>1, <4>2 DEF Active
    <3> QED
      BY <2>2, <3>1, <3>2 DEF LinksLive, Active
  <2>4. ParentEdges' \subseteq ParentEdges
    BY <2>2 DEF ParentEdges, Active
  <2>5. DependenciesAcyclic'
    BY <1>0, <2>1 DEF DependenciesAcyclic, OnCycle, Reaches
  <2> QED
    BY <2>3, <2>4, <2>5, <1>2 DEF Relations
<1>8. CASE CommitDepend(r)
  <2>1. PICK t, d \in Task :
          /\ request[r].edges = {<<t, d>>} /\ Active(t) /\ Active(d)
          /\ ~Reaches(dependency \cup {<<t, d>>}, d, t)
    BY <1>0, <1>8 DEF Carries, CommitDepend
  <2>2. dependency' = dependency \cup {<<t, d>>} /\ UNCHANGED task
    BY <1>8, <2>1 DEF CommitDepend
  <2>3. \A u \in Task : ~OnCycle(dependency \cup {<<t, d>>}, u)
    BY <1>0, <2>1, AcyclicEdge DEF DependenciesAcyclic
  <2>4. DependenciesAcyclic'
    BY <2>2, <2>3 DEF DependenciesAcyclic, OnCycle, Reaches
  <2>5. LinksLive' /\ ParentEdges' = ParentEdges
    BY <1>0, <2>1, <2>2 DEF LinksLive, Active, ParentEdges
  <2> QED
    BY <2>4, <2>5, <1>2 DEF Relations
<1>9. ASSUME NEW t \in Task, NEW d \in Task, RemoveDependency(r, t, d) PROVE Relations'
  <2>1. dependency' \subseteq dependency /\ UNCHANGED task
    BY <1>9 DEF RemoveDependency
  <2>2. DependenciesAcyclic'
    BY <1>0, <2>1 DEF DependenciesAcyclic, OnCycle, Reaches
  <2>3. LinksLive' /\ ParentEdges' = ParentEdges
    BY <1>0, <2>1 DEF LinksLive, Active, ParentEdges
  <2> QED
    BY <2>2, <2>3, <1>2 DEF Relations
<1> QED
  BY StepCases, <1>4, <1>5, <1>6, <1>7, <1>8, <1>9
  DEF BeginCreate, Begin, BeginDepend, CheckBulk, Conflict, Reject, ReadItem,
      CheckUpdate, ReadEdges, CheckDepend, ArchiveProject

\* With one client, what its request carries is about the tables as they are.
LEMMA RelationsStep ==
  ASSUME OneClient, IInv, RelationsInv, NEW r \in Request, Serve(r)
  PROVE  RelationsInv'
<1>0. request \in [Request -> RequestRecord]
  BY DEF IInv, TypeInv, TypeOK
<1>1. UNCHANGED <<task, dependency>> \/ request'[r].phase = "idle"
  <2>1. ASSUME Finish(r) PROVE request'[r].phase = "idle"
    BY <1>0, <2>1 DEF Finish, Idle
  <2>2. CASE CommitCreate(r) \/ CommitWrite(r) \/ CommitDepend(r)
             \/ \E t \in Task : CommitDelete(r, t)
    BY <2>1, <2>2 DEF CommitCreate, CommitWrite, CommitDelete, CommitDepend
  <2>3. CASE \E t, d \in Task : RemoveDependency(r, t, d)
    BY <2>3 DEF RemoveDependency
  <2>4. CASE UNCHANGED <<task, dependency>>
    BY <2>4
  <2> QED
    BY StepCases, <2>2, <2>3, <2>4
    DEF BeginCreate, Begin, BeginDepend, CheckBulk, Conflict, Reject, ReadItem, CheckUpdate,
        ReadEdges, CheckDepend, ArchiveProject
<1>2. Carries(r)'
  BY <1>1, IdleCarries, ReadsCarry
<1>3. \A q \in Request : Carries(q)'
  BY <1>2 DEF OneClient
<1> QED
  BY <1>3, WritesKeepRelations DEF RelationsInv

\* Before the first request there is nothing to be wrong.
LEMMA RelationsInit == Init => RelationsInv
<1> SUFFICES ASSUME Init PROVE RelationsInv
  OBVIOUS
<1>1. dependency = {} /\ ParentEdges = {} /\ \A t \in Task : ~Active(t)
  BY DEF Init, ParentEdges, Active, NoRow
<1>2. \A r \in Request : request[r].phase = "idle"
  BY DEF Init, Idle
<1> QED
  BY <1>1, <1>2
  DEF RelationsInv, Relations, DependenciesAcyclic, ParentsAcyclic, OnCycle, LinksLive, Carries

\* The checks of add_task_dependency and _validate_parent, and the cleanup of
\* delete_task, are right for a client whose requests follow one another:
\* graph and tree have no cycle, and lead to live tasks.
THEOREM RelationsTheorem ==
  ASSUME OneClient
  PROVE  Spec => [](DependenciesAcyclic /\ ParentsAcyclic /\ LinksLive)
<1>1. IInv /\ RelationsInv /\ [Next]_vars => RelationsInv'
  <2> SUFFICES ASSUME IInv, RelationsInv, [Next]_vars PROVE RelationsInv'
    OBVIOUS
  <2>1. CASE UNCHANGED vars
    BY <2>1
    DEF vars, RelationsInv, Relations, DependenciesAcyclic, ParentsAcyclic, OnCycle, Reaches,
        LinksLive, Carries, ParentEdges, Active, LinkTo, Items
  <2>2. ASSUME NEW r \in Request, Serve(r) PROVE RelationsInv'
    BY <2>2, RelationsStep
  <2> QED
    BY <2>1, <2>2 DEF Next
<1>2. RelationsInv => DependenciesAcyclic /\ ParentsAcyclic /\ LinksLive
  BY DEF RelationsInv, Relations
<1> QED
  BY <1>1, <1>2, RelationsInit, Inductive, PTL DEF Spec
=============================================================================
