----------------------------- MODULE Scenarios -----------------------------
(***************************************************************************)
(* Scenario Lab: services/scenarios.py.  A scenario is a draft list of     *)
(* changes to records; it is previewed, and then accepted as a whole or    *)
(* discarded.                                                              *)
(*                                                                         *)
(* The records are tasks, seen through TaskLifecycle: the task endpoints,  *)
(* which module Tasks shows to implement it, are the other clients.        *)
(* Scenario services do not write through RevisionedRepository: they load  *)
(* rows, compare revisions in memory, and the ORM writes the changed       *)
(* columns of the row with that id, whatever it holds by then.             *)
(***************************************************************************)
EXTENDS TaskLifecycle, FiniteSets

CONSTANTS
  Scenario,      \* the identifiers scenarios are created with
  Change,        \* the identifiers scenario changes are created with
  Request,       \* the scenario requests being served at one time
  Null,          \* SQL NULL
  Proposed,      \* the statuses clients use
  Workloads      \* who is served what, and how far: see workload

Operations == {"rename", "discard", "add", "edit", "remove", "preview", "accept"}

\* The requests served at one time, the endpoints they call, and a bound:
\* clients stop editing a row of this revision.
Workload == [clients : SUBSET Request, ops : SUBSET Operations, revisions : Nat]

ASSUME ScenarioAssumption ==
  /\ Proposed \subseteq Status
  /\ Workloads \subseteq Workload /\ IsFiniteSet(Request)
  /\ Null \notin Scenario \cup Task \cup Status

VARIABLES
  scenario,      \* the scenarios table
  change,        \* the scenario_changes table
  review,        \* the last preview of each scenario a client was shown
  request,       \* what each request holds between its database calls
  workload       \* the workload of this behaviour

scenarioVars == <<life, scenario, change, review, request, workload>>

\* The database and what clients were shown.
data == <<life, scenario, change, review, workload>>

\* One client works alone: no two requests overlap.
Alone == Cardinality(workload.clients) = 1

Row ==
  [state : {"absent", "active", "deleted"}, revision : Nat,
   status : Status, completedAt : BOOLEAN]

NoRow ==
  [state |-> "absent", revision |-> 0, status |-> "todo", completedAt |-> FALSE]

ScenarioRow ==
  [status : {"absent", "draft", "accepted", "discarded"}, revision : Nat]

\* A change: its scenario (Null: no such row), its record, the status it
\* proposes (Null for a delete) and the revision the record had.
ChangeRow ==
  [scenario : Scenario \cup {Null}, target : Task \cup {Null},
   op : {"create", "update", "delete"}, to : Status \cup {Null},
   expected : Nat, revision : Nat]

NoChange ==
  [scenario |-> Null, target |-> Null, op |-> "update", to |-> Null,
   expected |-> 0, revision |-> 0]

\* preview_fingerprint: the scenario's revision, the plan's steps with the
\* values they replace, and the reasons the plan is stale.
Fingerprint ==
  [revision : Nat, steps : SUBSET (ChangeRow \X (Status \cup {Null})),
   stale : SUBSET Task]

NoReview == [revision |-> 0, steps |-> {}, stale |-> {}]

Phases == {"idle", "draft", "plan", "reviewed", "applying", "write"}

(* seen: the scenario row as loaded; changes: the change rows as loaded;   *)
(* first, row: the change applied first and its record as loaded.          *)
RequestRecord ==
  [phase : Phases, op : Operations, scenario : Scenario \cup {Null},
   seen : ScenarioRow, changes : [Change -> ChangeRow], body : ChangeRow,
   first : Change \cup {Null}, row : Row, approved : Fingerprint]

NoScenario == [status |-> "absent", revision |-> 0]

Idle ==
  [phase |-> "idle", op |-> "preview", scenario |-> Null, seen |-> NoScenario,
   changes |-> [c \in Change |-> NoChange], body |-> NoChange, first |-> Null,
   row |-> NoRow, approved |-> NoReview]

\* A change refers to a revision its record has reached, and a record has at
\* most one change per scenario.
ChangesWellFormed ==
  /\ \A c \in Change : change[c].scenario # Null =>
       (change[c].op = "create" <=> change[c].expected = 0)
  /\ \A c, d \in Change :
       (change[c].scenario # Null /\ change[c].scenario = change[d].scenario
         /\ change[c].target = change[d].target) => c = d

\* The rows have the shapes of models/connected.py and are well formed, although
\* two requests may add a change for one record at once.
ScenariosTypeOK ==
  /\ ChangesWellFormed
  /\ life \in [Task -> Row]
  /\ scenario \in [Scenario -> ScenarioRow]
  /\ change \in [Change -> ChangeRow]
  /\ review \in [Scenario -> Fingerprint]
  /\ request \in [Request -> RequestRecord]
  /\ workload \in Workload

ScenariosInit ==
  /\ LifeInit
  /\ scenario = [s \in Scenario |-> NoScenario]
  /\ change = [c \in Change |-> NoChange]
  /\ review = [s \in Scenario |-> NoReview]
  /\ request = [r \in Request |-> Idle]
  /\ workload \in Workloads

-----------------------------------------------------------------------------
Finish(r) == request' = [request EXCEPT ![r] = Idle]

\* An error response; an open transaction is rolled back.
Reject(r) == Finish(r) /\ UNCHANGED data

\* The rows of scenario s in a change table, loaded or stored.
Of(changes, s) == {c \in Change : changes[c].scenario = s}

Live(t) == life[t].state = "active"

\* list_for_scenario: the rows of other scenarios are not loaded.
Listed(s) == [c \in Change |-> IF change[c].scenario = s THEN change[c] ELSE NoChange]

\* The ORM writes back the scenario row it loaded, one revision on.
Bump(r) ==
  scenario' = [scenario EXCEPT ![request[r].scenario].revision = request[r].seen.revision + 1]

-----------------------------------------------------------------------------
(* POST /scenarios, and _require_draft, the first read of every other one *)

CreateScenario(r, s) ==
  /\ request[r].phase = "idle"
  /\ scenario[s].status = "absent"
  /\ scenario' = [scenario EXCEPT ![s] = [status |-> "draft", revision |-> 1]]
  /\ UNCHANGED <<life, change, review, request, workload>>

\* Bound: clients leave a scenario of the last revision alone, except to
\* accept or to discard it.
BeginOn(r, s, op, body) ==
  /\ op \in workload.ops
  /\ request[r].phase = "idle"
  /\ scenario[s].status = "draft"
  /\ op \notin {"discard", "accept", "preview"} => scenario[s].revision < workload.revisions
  /\ request' = [request EXCEPT ![r] =
       [Idle EXCEPT !.phase = "draft", !.op = op, !.scenario = s,
                    !.seen = scenario[s], !.body = body, !.approved = review[s]]]
  /\ UNCHANGED data

\* update_scenario and discard_scenario also compare the client's revision,
\* in memory; any client may hold the current one.
BeginRename(r, s) == BeginOn(r, s, "rename", NoChange)
BeginDiscard(r, s) == BeginOn(r, s, "discard", NoChange)

CommitRename(r) ==
  /\ request[r].phase = "draft"
  /\ request[r].op = "rename"
  /\ Bump(r)
  /\ Finish(r)
  /\ UNCHANGED <<life, change, review, workload>>

CommitDiscard(r) ==
  /\ request[r].phase = "draft"
  /\ request[r].op = "discard"
  /\ scenario' = [scenario EXCEPT ![request[r].scenario] =
       [status |-> "discarded", revision |-> request[r].seen.revision + 1]]
  /\ Finish(r)
  /\ UNCHANGED <<life, change, review, workload>>

-----------------------------------------------------------------------------
(* The changes of a draft *)

\* Bound: a change is added only while an identifier is left for it.
ChangeLeft ==
  Cardinality({r \in Request : request[r].op = "add"})
    < Cardinality({c \in Change : change[c] = NoChange})

BeginAdd(r, s) ==
  /\ ChangeLeft
  /\ \E t \in Task, to \in Proposed, op \in {"create", "update", "delete"} :
       BeginOn(r, s, "add",
         [NoChange EXCEPT !.scenario = s, !.target = t, !.op = op, !.revision = 1,
                          !.to = IF op = "delete" THEN Null ELSE to])

\* add_scenario_change: one change per record, and the record must exist,
\* unless it is to be created; its revision is kept with the change.
CheckAdd(r) ==
  LET body      == request[r].body
      duplicate == \E c \in Of(change, request[r].scenario) :
                     change[c].target = body.target
  IN  /\ request[r].phase = "draft"
      /\ request[r].op = "add"
      /\ IF ~duplicate /\ (Live(body.target) <=> body.op # "create")
         THEN /\ request' = [request EXCEPT ![r].phase = "write",
                   ![r].body.expected = IF body.op = "create" THEN 0
                                        ELSE life[body.target].revision]
              /\ UNCHANGED data
         ELSE Reject(r)

\* The identifier of a new change (uuid4) names no other that anybody holds.
Unused(c) ==
  /\ change[c] = NoChange
  /\ \A q \in Request : request[q].first # c /\ request[q].changes[c] = NoChange

\* Mutant: the table has no unique constraint.
CommitAddTwice(r) ==
  /\ request[r].phase = "write"
  /\ request[r].op = "add"
  /\ \E c \in Change : /\ Unused(c)
                      /\ change' = [change EXCEPT ![c] = request[r].body]
  /\ Bump(r)
  /\ Finish(r)
  /\ UNCHANGED <<life, review, workload>>

\* uq_scenario_entity_change refuses a second change for a record.
CommitAdd(r) ==
  /\ request[r].phase = "write"
  /\ request[r].op = "add"
  /\ IF \E c \in Of(change, request[r].scenario) : change[c].target = request[r].body.target
     THEN Reject(r)
     ELSE /\ \E c \in Change : /\ Unused(c)
                               /\ change' = [change EXCEPT ![c] = request[r].body]
          /\ Bump(r)
          /\ Finish(r)
          /\ UNCHANGED <<life, review, workload>>

BeginEdit(r, s) == \E to \in Proposed : BeginOn(r, s, "edit", [NoChange EXCEPT !.to = to])
BeginRemove(r, s) == BeginOn(r, s, "remove", NoChange)

\* update_scenario_change and delete_scenario_change load the change; an
\* edit must name its revision and it must not be a delete.
LoadChange(r) ==
  /\ request[r].phase = "draft"
  /\ request[r].op \in {"edit", "remove"}
  /\ \E c \in Of(change, request[r].scenario) :
       /\ request[r].op = "edit" => change[c].op # "delete"
       /\ request' = [request EXCEPT ![r].phase = "write", ![r].first = c,
            ![r].body = IF request[r].op = "edit"
                        THEN [change[c] EXCEPT !.to = request[r].body.to, !.revision = @ + 1]
                        ELSE change[c]]
  /\ UNCHANGED data

\* The ORM's UPDATE by id: no row by that id is an error.
CommitEdit(r) ==
  /\ request[r].phase = "write"
  /\ request[r].op = "edit"
  /\ IF change[request[r].first].scenario = Null
     THEN Reject(r)
     ELSE /\ change' = [change EXCEPT ![request[r].first] = request[r].body]
          /\ Bump(r)
          /\ Finish(r)
          /\ UNCHANGED <<life, review, workload>>

\* Mutant: removing a change leaves the scenario's revision alone.
CommitRemoveSilently(r) ==
  /\ request[r].phase = "write"
  /\ request[r].op = "remove"
  /\ change' = [change EXCEPT ![request[r].first] = NoChange]
  /\ Finish(r)
  /\ UNCHANGED <<life, scenario, review, workload>>

\* The ORM's DELETE by id: no row by that id is no error.
CommitRemove(r) ==
  /\ request[r].phase = "write"
  /\ request[r].op = "remove"
  /\ change' = [change EXCEPT ![request[r].first] = NoChange]
  /\ Bump(r)
  /\ Finish(r)
  /\ UNCHANGED <<life, review, workload>>

-----------------------------------------------------------------------------
(* Preview and acceptance *)

BeginPreview(r, s) == BeginOn(r, s, "preview", NoChange)

\* The client sends the fingerprint it was shown, and the revision with it.
BeginAccept(r, s) ==
  /\ review[s] # NoReview
  /\ review[s].revision = scenario[s].revision
  /\ BeginOn(r, s, "accept", NoChange)

ListChanges(r) ==
  /\ request[r].phase = "draft"
  /\ request[r].op \in {"preview", "accept"}
  /\ request' = [request EXCEPT ![r].phase = "plan",
                                ![r].changes = Listed(request[r].scenario)]
  /\ UNCHANGED data

\* Mutant: only records that are gone make a plan stale.
StaleWhenGone(row) == row.op # "create" /\ ~Live(row.target)

\* _stale_reasons: the record appeared, went, or changed.
Stale(row) ==
  IF row.op = "create" THEN Live(row.target)
  ELSE ~Live(row.target) \/ life[row.target].revision # row.expected

Plan(r) == {request[r].changes[c] : c \in Of(request[r].changes, request[r].scenario)}

\* preview_scenario, over the rows this request has listed.
Preview(r) ==
  [revision |-> request[r].seen.revision,
   steps    |-> {<<row, IF Live(row.target) THEN life[row.target].status ELSE Null>> :
                   row \in Plan(r)},
   stale    |-> {row.target : row \in {p \in Plan(r) : Stale(p)}}]

ShowPreview(r) ==
  /\ request[r].phase = "plan"
  /\ request[r].op = "preview"
  /\ review' = [review EXCEPT ![request[r].scenario] = Preview(r)]
  /\ Finish(r)
  /\ UNCHANGED <<life, scenario, change, workload>>

Approved(r) == Preview(r) = request[r].approved

CheckAccept(r) ==
  /\ request[r].phase = "plan"
  /\ request[r].op = "accept"
  /\ IF Preview(r).stale = {} /\ Approved(r)
     THEN /\ request' = [request EXCEPT ![r].phase = "reviewed"]
          /\ UNCHANGED data
     ELSE Reject(r)

\* accept_scenario lists the changes once more.
ListAgain(r) ==
  /\ request[r].phase = "reviewed"
  /\ request' = [request EXCEPT ![r].phase = "applying",
                                ![r].changes = Listed(request[r].scenario)]
  /\ UNCHANGED data

Listing(r) == Of(request[r].changes, request[r].scenario)

\* The first change of the transaction loads its record before any lock is
\* held; a record that is gone is an AssertionError.
LoadFirst(r) ==
  /\ request[r].phase = "applying"
  /\ IF Listing(r) = {}
     THEN /\ request' = [request EXCEPT ![r].phase = "write"]
          /\ UNCHANGED data
     ELSE \E c \in Listing(r) :
            LET row == request[r].changes[c]
            IN  IF row.op = "create" \/ Live(row.target)
                THEN /\ request' = [request EXCEPT ![r].phase = "write", ![r].first = c,
                          ![r].row = IF row.op = "create" THEN NoRow ELSE life[row.target]]
                     /\ UNCHANGED data
                ELSE Reject(r)

\* The record as the change finds it: loaded before the lock, or under it.
Found(r, c) ==
  IF c = request[r].first THEN request[r].row ELSE life[request[r].changes[c].target]

\* _apply_change; an attribute that keeps its value is not in the UPDATE.
Applied(r, c) ==
  LET row   == request[r].changes[c]
      found == Found(r, c)
      now   == life[row.target]
  IN  CASE row.op = "create" -> [state |-> "active", revision |-> 1, status |-> row.to,
                                 completedAt |-> FALSE]
        [] row.op = "update" -> [now EXCEPT !.status = IF row.to = found.status THEN @ ELSE row.to,
                                            !.revision = found.revision + 1]
        [] row.op = "delete" -> [now EXCEPT !.state = "deleted",
                                            !.revision = found.revision + 1]

\* Every change can be written: new identifiers are free, and the records
\* loaded under the lock are there.
Applicable(r) ==
  \A c \in Listing(r) :
    LET row == request[r].changes[c]
    IN  IF row.op = "create" THEN life[row.target].state = "absent"
        ELSE c = request[r].first \/ Live(row.target)

\* Mutant: changes that cannot be written are skipped.
CommitAcceptPartly(r) ==
  /\ request[r].phase = "write"
  /\ request[r].op = "accept"
  /\ life' = [t \in Task |->
       IF \E c \in Listing(r) : /\ request[r].changes[c].target = t
                                /\ request[r].changes[c].op # "create" \/ life[t].state = "absent"
                                /\ c = request[r].first \/ life[t].state # "deleted"
       THEN Applied(r, CHOOSE c \in Listing(r) : request[r].changes[c].target = t)
       ELSE life[t]]
  /\ scenario' = [scenario EXCEPT ![request[r].scenario] =
       [status |-> "accepted", revision |-> request[r].seen.revision + 1]]
  /\ Finish(r)
  /\ UNCHANGED <<change, review, workload>>

\* One transaction applies every change and marks the scenario accepted.
CommitAccept(r) ==
  /\ request[r].phase = "write"
  /\ request[r].op = "accept"
  /\ IF Applicable(r)
     THEN /\ life' = [t \in Task |->
               IF \E c \in Listing(r) : request[r].changes[c].target = t
               THEN Applied(r, CHOOSE c \in Listing(r) : request[r].changes[c].target = t)
               ELSE life[t]]
          /\ scenario' = [scenario EXCEPT ![request[r].scenario] =
               [status |-> "accepted", revision |-> request[r].seen.revision + 1]]
          /\ Finish(r)
          /\ UNCHANGED <<change, review, workload>>
     ELSE Reject(r)

-----------------------------------------------------------------------------
\* A task endpoint commits.  Bounds: records stop at the last revision, and
\* clients write no status outside Proposed.
ServeTask(r) ==
  /\ request[r].phase = "idle"
  /\ \E t \in Task : \/ Appear(t)
                     \/ life[t].revision < workload.revisions /\ (Write({t}) \/ Vanish(t))
  /\ \A t \in Task : life'[t] = life[t] \/ life'[t].status \in Proposed
  /\ UNCHANGED <<scenario, change, review, request, workload>>

Serve(r) ==
  \/ \E s \in Scenario :
       \/ CreateScenario(r, s) \/ BeginRename(r, s) \/ BeginDiscard(r, s)
       \/ BeginAdd(r, s) \/ BeginEdit(r, s) \/ BeginRemove(r, s)
       \/ BeginPreview(r, s) \/ BeginAccept(r, s)
  \/ CommitRename(r) \/ CommitDiscard(r) \/ CheckAdd(r) \/ CommitAdd(r)
  \/ LoadChange(r) \/ CommitEdit(r) \/ CommitRemove(r)
  \/ ListChanges(r) \/ ShowPreview(r) \/ CheckAccept(r) \/ ListAgain(r)
  \/ LoadFirst(r) \/ CommitAccept(r)

ScenariosNext == \E r \in workload.clients : ServeTask(r) \/ Serve(r)

ScenariosSpec == ScenariosInit /\ [][ScenariosNext]_scenarioVars

-----------------------------------------------------------------------------
(* Properties *)

\* The requests that accept their scenario in a step.
Accepting ==
  {r \in Request : /\ request[r].phase = "write" /\ request[r].op = "accept"
                   /\ request'[r].phase = "idle"
                   /\ scenario' # scenario}

\* Acceptance applies the plan the client reviewed, to records that are as
\* the plan found them ("Acceptance must include that fingerprint, rechecks
\* all source revisions, and either applies the entire ordered plan or
\* applies nothing").
AsPlanned(row) ==
  IF row.op = "create" THEN ~Live(row.target)
  ELSE Live(row.target) /\ life[row.target].revision = row.expected

PlanApplied ==
  \A r \in Accepting :
    /\ {request[r].changes[c] : c \in Listing(r)} =
         {step[1] : step \in request[r].approved.steps}
    /\ \A c \in Listing(r) : AsPlanned(request[r].changes[c])

PlanAppliedAsReviewed == [][Alone => PlanApplied]_scenarioVars

\* Whatever commits in between, an acceptance performs every change it lists
\* or none, and none of them without the scenario being marked accepted.
\* The one exception is a record that changed after it was loaded as the
\* first and before the lock was taken.
Performed(row) ==
  /\ row.op # "delete" => life'[row.target].status = row.to
  /\ row.op = "delete" => life'[row.target].state = "deleted"
  /\ row.op = "create" => life[row.target].state = "absent"

AcceptAllOrNothing ==
  [][\A r \in Request :
       (request[r].phase = "write" /\ request[r].op = "accept" /\ request'[r].phase = "idle") =>
         \/ /\ \A c \in Listing(r) :
                 LET row == request[r].changes[c]
                 IN  Performed(row) \/ (c = request[r].first /\ life[row.target] # request[r].row)
            /\ scenario'[request[r].scenario].status = "accepted"
         \/ life' = life /\ scenario' = scenario]_scenarioVars

\* A draft is settled once: accepted and discarded are final, and the
\* changes of a settled scenario are its record ("Only draft scenarios can
\* be edited.").
Settled ==
  \A s \in Scenario : scenario[s].status \in {"accepted", "discarded"} =>
    /\ scenario'[s] = scenario[s]
    /\ \A c \in Change : change[c].scenario = s <=> change'[c].scenario = s

\* The revision a client sends with an acceptance stands for the list of
\* changes it saw: no draft's list changes without its revision moving on.
RevisionMoves ==
  \A s \in Scenario :
    (\E c \in Change : /\ change'[c] # change[c]
                       /\ s \in {change[c].scenario, change'[c].scenario})
      => scenario'[s].revision > scenario[s].revision

\* While one client works alone, a settled scenario stays as it is, and the
\* revision of a draft covers its list.
DraftsSettleOnce == [][Alone => Settled /\ RevisionMoves]_scenarioVars

\* The same three whatever overlaps: the code keeps none of them.
PlanAppliedAlways == [][PlanApplied]_scenarioVars
SettledForGood == [][Settled]_scenarioVars
RevisionCoversPlan == [][RevisionMoves]_scenarioVars

\* A task has a completion time exactly when it is completed ("Completing
\* stores `completed_at`; reopening clears it").
CompletionKept ==
  \A t \in Task : life[t].completedAt <=> (life[t].status = "completed")
=============================================================================
