------------------------------- MODULE Tasks -------------------------------
(***************************************************************************)
(* The task service: services/tasks.py over repositories/revisioned.py.    *)
(*                                                                         *)
(* Every request runs on a thread of its own with a session of its own.    *)
(* SQLite reads see the last commit and take no lock; the first write of a *)
(* transaction takes the single writer lock and keeps it to the commit.  A *)
(* request is therefore a few read steps, between which any other request  *)
(* may commit, and one write step, which holds everything from the first   *)
(* write to the commit or the rollback.                                    *)
(***************************************************************************)
EXTENDS Naturals, FiniteSets

CONSTANTS
  Task,          \* the identifiers tasks are created with (uuid4)
  Project,       \* the projects of the workspace
  Slot,          \* the intervals a task may be scheduled in
  Request,       \* the API requests being served at one time
  Null,          \* SQL NULL
  Unset,         \* a field a PATCH body does not name
  NewRows,       \* the bodies clients POST, every field named
  Patches,       \* the bodies clients PATCH
  Operation,     \* the endpoints clients call
  MaxRevision,   \* bound: no request expects a revision this high
  MaxItems       \* bound: the items of one bulk request

Status == {"todo", "in_progress", "completed", "cancelled"}

Operations ==
  {"create", "update", "complete", "reschedule", "delete", "depend",
   "undepend", "archive"}

Field(values) == values \cup {Null}

Patch ==
  [status  : Status \cup {Unset},
   parent  : Field(Task) \cup {Unset},
   project : Field(Project) \cup {Unset},
   slot    : Field(Slot) \cup {Unset}]

ASSUME ConstantsAssumption ==
  /\ NewRows \subseteq Patch
  /\ \A body \in NewRows :
       \A field \in {"status", "parent", "project", "slot"} :
         body[field] # Unset
  /\ Patches \subseteq Patch
  /\ Operation \subseteq Operations
  /\ MaxRevision \in Nat
  /\ MaxItems \in Nat
  /\ \A values \in {Status, Field(Task), Field(Project), Field(Slot)} : Unset \notin values
  /\ \A values \in {Task, Project, Slot} : Null \notin values

VARIABLES
  task,          \* the tasks table
  dependency,    \* task_dependencies: pairs <<dependent, prerequisite>>
  archived,      \* the archived projects
  request        \* what each request holds between its database calls

vars == <<task, dependency, archived, request>>

Row ==
  [state : {"absent", "active", "deleted"}, revision : Nat, status : Status,
   completedAt : BOOLEAN, parent : Field(Task), project : Field(Project),
   slot : Field(Slot)]

NoRow ==
  [state |-> "absent", revision |-> 0, status |-> "todo",
   completedAt |-> FALSE, parent |-> Null, project |-> Null, slot |-> Null]

(***************************************************************************)
(* A request: its endpoint, the revision it expects of each item (0: not   *)
(* an item), the rows it has read so far (NoRow: not read), the values it  *)
(* will write, and the dependency edges it read to delete or is about to   *)
(* insert.  "checked" is the point where every validation has passed and   *)
(* the transaction is about to open.                                       *)
(***************************************************************************)
RequestRecord ==
  [phase : {"idle", "read", "checked"}, op : Operations,
   expected : [Task -> Nat], seen : [Task -> Row], patch : Patch,
   edges : SUBSET (Task \X Task)]

NoPatch == [status |-> Unset, parent |-> Unset, project |-> Unset, slot |-> Unset]

Idle ==
  [phase |-> "idle", op |-> "create", expected |-> [t \in Task |-> 0],
   seen |-> [t \in Task |-> NoRow], patch |-> NoPatch, edges |-> {}]

TypeOK ==
  /\ task \in [Task -> Row]
  /\ dependency \subseteq Task \X Task
  /\ archived \subseteq Project
  /\ request \in [Request -> RequestRecord]

Init ==
  /\ task = [t \in Task |-> NoRow]
  /\ dependency = {}
  /\ archived = {}
  /\ request = [r \in Request |-> Idle]

-----------------------------------------------------------------------------
(* Validations: what the services compute from the rows they read. *)

Active(t) == task[t].state = "active"

Items(r) == {t \in Task : request[r].expected[t] # 0}
Seen(r) == {t \in Task : request[r].seen[t].state # "absent"}

\* Mutant: the fields a PATCH body does not name are written too.
ValueWritesUnset(new, old) == new

Value(new, old) == IF new = Unset THEN old ELSE new

AllowedTransitions ==
  [todo        |-> {"in_progress", "completed", "cancelled"},
   in_progress |-> {"todo", "completed", "cancelled"},
   completed   |-> {"todo"},
   cancelled   |-> {"todo"}]

ValidTransition(current, target) ==
  target = current \/ target \in AllowedTransitions[current]

\* b lies in every set that holds a and is closed under the edges.
Reaches(edges, a, b) ==
  \A S \in SUBSET Task :
    (a \in S /\ \A e \in edges : e[1] \in S => e[2] \in S) => b \in S

\* The walk up the tree reads active rows and stops at a deleted one.
ParentEdges ==
  {<<t, task[t].parent>> : t \in {c \in Task : Active(c) /\ task[c].parent # Null}}

OnCycle(edges, t) == \E e \in edges : e[1] = t /\ Reaches(edges, e[2], t)

\* With t, the task being moved, the walk from p must not meet t; and it
\* must not run into a cycle the tree already has.
CreatesParentCycle(t, p) ==
  \/ t = p
  \/ t # Null /\ Reaches(ParentEdges, p, t)
  \/ \E c \in Task : Reaches(ParentEdges, p, c) /\ OnCycle(ParentEdges, c)

ValidParent(t, p, project) ==
  p = Null \/ /\ p \in Task
              /\ Active(p)
              /\ project # Null => task[p].project = project
              /\ ~CreatesParentCycle(t, p)

ProjectOpen(p) == p = Null \/ p \notin archived

\* A body without a project takes the parent's project.
InheritedProject(p, project) ==
  IF p # Null /\ project = Null THEN task[p].project ELSE project

\* Mutant: only the prerequisite's own dependencies are looked at.
WouldCreateDependencyCycleNear(t, d) == <<d, t>> \in dependency

WouldCreateDependencyCycle(t, d) ==
  Reaches(dependency \cup {<<t, d>>}, d, t)

-----------------------------------------------------------------------------
(* Writes: RevisionedRepository and transaction(). *)

\* Mutant: a row that is reopened keeps its completed_at.
ReviseKeepsCompletion(row, patch) ==
  [row EXCEPT !.revision = @ + 1,
              !.status = Value(patch.status, @),
              !.completedAt = @ \/ patch.status = "completed",
              !.parent = Value(patch.parent, @),
              !.project = Value(patch.project, @),
              !.slot = Value(patch.slot, @)]

\* Mutant: the UPDATE leaves the revision alone.
ReviseInPlace(row, patch) ==
  [row EXCEPT !.status = Value(patch.status, @),
              !.completedAt = IF patch.status = Unset THEN @
                              ELSE patch.status = "completed",
              !.parent = Value(patch.parent, @),
              !.project = Value(patch.project, @),
              !.slot = Value(patch.slot, @)]

\* The values of one UPDATE; setting the status also sets or clears
\* completed_at.
Revise(row, patch) ==
  [row EXCEPT !.revision = @ + 1,
              !.status = Value(patch.status, @),
              !.completedAt = IF patch.status = Unset THEN @
                              ELSE patch.status = "completed",
              !.parent = Value(patch.parent, @),
              !.project = Value(patch.project, @),
              !.slot = Value(patch.slot, @)]

Insert(body) ==
  [state |-> "active", revision |-> 1, status |-> body.status,
   completedAt |-> (body.status = "completed"), parent |-> body.parent,
   project |-> body.project, slot |-> body.slot]

\* Mutant: a soft delete sets deleted_at and nothing else.
SoftDeleteInPlace(row) == [row EXCEPT !.state = "deleted"]

SoftDelete(row) == [row EXCEPT !.state = "deleted", !.revision = @ + 1]

\* A child of a deleted task loses its parent; its revision stays.
Detach(row) == [row EXCEPT !.parent = Null]

\* Mutant: the WHERE clause does not compare the revision.
MatchesActive(r) == \A t \in Items(r) : Active(t)

\* The WHERE clause of an update or a soft delete matches every item: the
\* row is active and still at the revision the client sent.
Matches(r) ==
  \A t \in Items(r) : Active(t) /\ task[t].revision = request[r].expected[t]

Finish(r) == request' = [request EXCEPT ![r] = Idle]

\* A validation failed: an error response, no transaction was opened.
Reject(r) == Finish(r) /\ UNCHANGED <<task, dependency, archived>>

-----------------------------------------------------------------------------
(* POST /tasks *)

\* Bound: a create starts only while an identifier is left for it.
IdentifierLeft ==
  Cardinality({r \in Request : request[r].phase = "checked" /\ request[r].op = "create"})
    < Cardinality({t \in Task : task[t].state = "absent"})

\* create_task validates project and parent, then inserts.
BeginCreate(r) ==
  /\ "create" \in Operation
  /\ request[r].phase = "idle"
  /\ IdentifierLeft
  /\ \E body \in NewRows :
       LET project == InheritedProject(body.parent, body.project)
       IN  /\ ProjectOpen(body.project)
           /\ ValidParent(Null, body.parent, body.project)
           /\ ProjectOpen(project)
           /\ request' = [request EXCEPT ![r] =
                [Idle EXCEPT !.phase = "checked", !.op = "create",
                             !.patch = [body EXCEPT !.project = project]]]
  /\ UNCHANGED <<task, dependency, archived>>

CommitCreate(r) ==
  /\ request[r].phase = "checked"
  /\ request[r].op = "create"
  /\ \E t \in Task :
       /\ task[t].state = "absent"
       /\ task' = [task EXCEPT ![t] = Insert(request[r].patch)]
  /\ Finish(r)
  /\ UNCHANGED <<dependency, archived>>

-----------------------------------------------------------------------------
(* PATCH /tasks/{id}, the bulk actions and DELETE: revision-checked writes *)

\* A client sends, for each item, a revision some response gave it.  The
\* first item is read at once; a bulk request reads the others one by one.
Begin(r, op, items, patch) ==
  /\ op \in Operation
  /\ request[r].phase = "idle"
  /\ \A t \in items : task[t].state # "absent"
  /\ \E sent \in [items -> 1..(MaxRevision - 1)], first \in items :
       /\ \A t \in items : sent[t] <= task[t].revision
       /\ Active(first)
       /\ op = "complete" => ValidTransition(task[first].status, "completed")
       /\ request' = [request EXCEPT ![r] =
            [Idle EXCEPT !.phase = "read", !.op = op, !.patch = patch,
                         !.expected = [t \in Task |->
                                         IF t \in items THEN sent[t] ELSE 0],
                         !.seen[first] = task[first]]]
  /\ UNCHANGED <<task, dependency, archived>>

\* get_active of one more item, with the transition check of bulk complete.
ReadItem(r, t) ==
  /\ request[r].phase = "read"
  /\ t \in Items(r) \ Seen(r)
  /\ IF Active(t) /\ (request[r].op = "complete" =>
                        ValidTransition(task[t].status, "completed"))
     THEN /\ request' = [request EXCEPT ![r].seen[t] = task[t]]
          /\ UNCHANGED <<task, dependency, archived>>
     ELSE Reject(r)

AllSeen(r) == request[r].phase = "read" /\ Seen(r) = Items(r)

BeginUpdate(r) ==
  \E t \in Task, patch \in Patches : Begin(r, "update", {t}, patch)

\* update_task after its first read: project, parent and transition are
\* checked against the row read before, other rows as they are now.
CheckUpdate(r, t) ==
  LET row     == request[r].seen[t]
      patch   == request[r].patch
      parent  == Value(patch.parent, row.parent)
      project == Value(patch.project, row.project)
      valid   == /\ ProjectOpen(project)
                 /\ ValidParent(t, parent, project)
                 /\ patch.status # Unset => ValidTransition(row.status, patch.status)
  IN  /\ AllSeen(r)
      /\ request[r].op = "update"
      /\ t \in Items(r)
      /\ IF valid
         THEN /\ request' = [request EXCEPT ![r].phase = "checked",
                   ![r].patch.project = IF parent # Null /\ project = Null
                                        THEN task[parent].project ELSE @]
              /\ UNCHANGED <<task, dependency, archived>>
         ELSE Reject(r)

Bulk == {items \in SUBSET Task : items # {} /\ Cardinality(items) <= MaxItems}

BeginBulkComplete(r) ==
  \E items \in Bulk :
    Begin(r, "complete", items, [NoPatch EXCEPT !.status = "completed"])

BeginBulkReschedule(r) ==
  \E items \in Bulk, slot \in Slot :
    Begin(r, "reschedule", items, [NoPatch EXCEPT !.slot = slot])

CheckBulk(r) ==
  /\ AllSeen(r)
  /\ request[r].op \in {"complete", "reschedule"}
  /\ request' = [request EXCEPT ![r].phase = "checked"]
  /\ UNCHANGED <<task, dependency, archived>>

\* Mutant: each item of a bulk request is committed on its own.
CommitWriteEach(r) ==
  /\ request[r].phase = "checked"
  /\ request[r].op \in {"update", "complete", "reschedule"}
  /\ task' = [t \in Task |->
       IF t \in Items(r) /\ Active(t) /\ task[t].revision = request[r].expected[t]
       THEN Revise(task[t], request[r].patch)
       ELSE task[t]]
  /\ Finish(r)
  /\ UNCHANGED <<dependency, archived>>

\* One transaction: every item's UPDATE matches, or all are rolled back.
CommitWrite(r) ==
  /\ request[r].phase = "checked"
  /\ request[r].op \in {"update", "complete", "reschedule"}
  /\ Matches(r)
  /\ task' = [t \in Task |-> IF t \in Items(r)
                             THEN Revise(task[t], request[r].patch)
                             ELSE task[t]]
  /\ Finish(r)
  /\ UNCHANGED <<dependency, archived>>

\* An UPDATE matched no row: RevisionConflictError or DomainNotFoundError.
Conflict(r) ==
  /\ request[r].phase = "checked"
  /\ request[r].op \in {"update", "complete", "reschedule", "delete"}
  /\ ~Matches(r)
  /\ Reject(r)

BeginDelete(r) == \E t \in Task : Begin(r, "delete", {t}, NoPatch)

\* Mutant: only the edges to the task's own prerequisites are removed.
ReadOutgoingEdges(r, t) ==
  /\ AllSeen(r)
  /\ request[r].op = "delete"
  /\ t \in Items(r)
  /\ request' = [request EXCEPT ![r].phase = "checked",
       ![r].edges = {e \in dependency : t = e[1]}]
  /\ UNCHANGED <<task, dependency, archived>>

\* delete_task selects the edges to remove before its first write.
ReadEdges(r, t) ==
  /\ AllSeen(r)
  /\ request[r].op = "delete"
  /\ t \in Items(r)
  /\ request' = [request EXCEPT ![r].phase = "checked",
       ![r].edges = {e \in dependency : t \in {e[1], e[2]}}]
  /\ UNCHANGED <<task, dependency, archived>>

\* Edges go, children are detached, and the
\* row is soft-deleted if it is at the expected revision.
CommitDelete(r, t) ==
  /\ request[r].phase = "checked"
  /\ request[r].op = "delete"
  /\ t \in Items(r)
  /\ Matches(r)
  /\ dependency' = dependency \ request[r].edges
  /\ task' = [c \in Task |->
       IF c = t THEN SoftDelete(task[c])
       ELSE IF Active(c) /\ task[c].parent = t THEN Detach(task[c])
       ELSE task[c]]
  /\ Finish(r)
  /\ UNCHANGED archived

-----------------------------------------------------------------------------
(* Task dependencies and projects *)

\* add_task_dependency reads both tasks.
BeginDepend(r) ==
  /\ "depend" \in Operation
  /\ request[r].phase = "idle"
  /\ \E t, d \in Task :
       /\ t # d
       /\ Active(t)
       /\ Active(d)
       /\ request' = [request EXCEPT ![r] =
            [Idle EXCEPT !.phase = "read", !.op = "depend", !.edges = {<<t, d>>}]]
  /\ UNCHANGED <<task, dependency, archived>>

\* It then reads the graph, and refuses a cycle and a duplicate.
CheckDepend(r, t, d) ==
  /\ request[r].phase = "read"
  /\ request[r].op = "depend"
  /\ request[r].edges = {<<t, d>>}
  /\ IF WouldCreateDependencyCycle(t, d) \/ <<t, d>> \in dependency
     THEN Reject(r)
     ELSE /\ request' = [request EXCEPT ![r].phase = "checked"]
          /\ UNCHANGED <<task, dependency, archived>>

\* The INSERT; uq_task_dependency refuses a pair inserted meanwhile.
CommitDepend(r) ==
  /\ request[r].phase = "checked"
  /\ request[r].op = "depend"
  /\ dependency' = dependency \cup request[r].edges
  /\ Finish(r)
  /\ UNCHANGED <<task, archived>>

\* remove_task_dependency: its effect is the one DELETE.
RemoveDependency(r, t, d) ==
  /\ "undepend" \in Operation
  /\ request[r].phase = "idle"
  /\ <<t, d>> \in dependency
  /\ Active(t)
  /\ dependency' = dependency \ {<<t, d>>}
  /\ UNCHANGED <<task, archived, request>>

\* archive_project, whose guard is only the project's own revision.
ArchiveProject(r, p) ==
  /\ "archive" \in Operation
  /\ request[r].phase = "idle"
  /\ archived' = archived \cup {p}
  /\ UNCHANGED <<task, dependency, request>>

-----------------------------------------------------------------------------
Serve(r) ==
  \/ BeginCreate(r) \/ CommitCreate(r)
  \/ BeginUpdate(r) \/ BeginBulkComplete(r) \/ BeginBulkReschedule(r)
  \/ BeginDelete(r) \/ BeginDepend(r)
  \/ CheckBulk(r) \/ CommitWrite(r) \/ Conflict(r) \/ CommitDepend(r)
  \/ \E t \in Task :
       ReadItem(r, t) \/ CheckUpdate(r, t) \/ ReadEdges(r, t) \/ CommitDelete(r, t)
  \/ \E t, d \in Task : CheckDepend(r, t, d) \/ RemoveDependency(r, t, d)
  \/ \E p \in Project : ArchiveProject(r, p)

Next == \E r \in Request : Serve(r)

Spec == Init /\ [][Next]_vars

-----------------------------------------------------------------------------
(* Properties *)

\* A row, live or deleted, has a completion time exactly when its status is
\* completed: update, bulk complete, create and reopening all keep the two
\* columns together.
CompletionRecorded ==
  \A t \in Task : task[t].completedAt <=> (task[t].status = "completed")

\* What a request validated is what it overwrites: if the WHERE clause would
\* match a row now, the columns a request checked when it read that row are
\* still the row's, whatever committed in between.
SeenIsCurrent ==
  \A r \in Request : \A t \in Seen(r) :
    (Active(t) /\ task[t].revision = request[r].expected[t]) =>
      /\ task[t].revision = request[r].seen[t].revision
      /\ task[t].status = request[r].seen[t].status
      /\ task[t].project = request[r].seen[t].project
      /\ task[t].slot = request[r].seen[t].slot

\* No step changes a column of a live row that clients set without taking
\* the row to its next revision, and no step touches a deleted row.  (The
\* parent column is not among them: see RevisionIdentifiesRow.)
WriteStep(t) ==
  LET old == task[t]
      new == task'[t]
  IN  /\ old.state = "deleted" => new = old
      /\ old.revision <= new.revision
      /\ (old.state = "active" /\ new.revision = old.revision) =>
           new = [old EXCEPT !.parent = new.parent]
      /\ (old.state = "active" /\ new.revision # old.revision) =>
           new.revision = old.revision + 1

WritesAdvanceRevision == [][\A t \in Task : WriteStep(t)]_vars

\* A bulk request writes every item at the revision the client sent, or
\* none of them ("A stale mutation returns HTTP 409 without partially
\* applying a bulk operation").
BulkAllOrNothing ==
  [][\A r \in Request :
       (request[r].phase = "checked" /\ request'[r].phase = "idle") =>
         \/ \A t \in Items(r) : task'[t].revision = request[r].expected[t] + 1
         \/ \A t \in Items(r) : task'[t] = task[t]]_vars

\* Requests that interleave reads and writes freely implement the service
\* that validates and writes in one step.
Life == INSTANCE TaskLifecycle WITH life <-
  [t \in Task |-> [state |-> task[t].state, revision |-> task[t].revision,
                  status |-> task[t].status,
                  completedAt |-> task[t].completedAt]]

LifecycleImplemented == Life!LifeSpec

\* The dependency graph has no cycle (_would_create_dependency_cycle).
DependenciesAcyclic == \A t \in Task : ~OnCycle(dependency, t)

\* The task tree has no cycle (_validate_parent).
ParentsAcyclic == \A t \in Task : ~OnCycle(ParentEdges, t)

\* Edges and parents refer to live tasks: delete_task removes and detaches
\* them.
LinksLive ==
  /\ \A e \in dependency : Active(e[1]) /\ Active(e[2])
  /\ \A t \in Task : (Active(t) /\ task[t].parent # Null) => Active(task[t].parent)

\* A live subtask belongs to its parent's project.
SubtaskSharesProject ==
  \A t \in Task : (Active(t) /\ task[t].parent # Null) =>
    task[t].project = task[task[t].parent].project

\* No step moves a task into a project that is archived.
ArchivedProjectReceivesNoTask ==
  [][\A t \in Task :
       (task'[t].state = "active" /\ task'[t].project # task[t].project) =>
         task'[t].project \notin archived]_vars

\* Two reads of a live row at one revision see the same row.
RevisionIdentifiesRow ==
  [][\A t \in Task :
       (Active(t) /\ task'[t].revision = task[t].revision) => task'[t] = task[t]]_vars
=============================================================================
