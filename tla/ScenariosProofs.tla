-------------------------- MODULE ScenariosProofs --------------------------
(***************************************************************************)
(* Drafts and their acceptance, for any number of tasks, scenarios,        *)
(* changes and requests: what holds whatever overlaps, and what holds      *)
(* while one client works alone.                                           *)
(***************************************************************************)
EXTENDS Scenarios, FiniteSetTheorems, TLAPS

(***************************************************************************)
(* The inductive invariant.                                                *)
(***************************************************************************)
\* What a request may hold of a change: its scenario, a record, a status to
\* write, and a revision unless the record is to be created.
Proper(row, s) ==
  /\ row.scenario = s /\ row.target \in Task
  /\ row.op # "delete" => row.to \in Status
  /\ row.op = "create" <=> row.expected = 0

\* At most one change of a table for each record of a scenario.
OneEach(changes, s) ==
  \A c, d \in Of(changes, s) : changes[c].target = changes[d].target => c = d

\* What a request holds at each step, whatever the tables hold by then.
Sound(q) ==
  /\ q.phase # "idle" => q.scenario \in Scenario
  /\ q.phase \in {"reviewed", "applying"} => q.op = "accept"
  /\ (q.op = "add" /\ q.phase = "draft") =>
       /\ q.body.scenario = q.scenario /\ q.body.target \in Task
       /\ q.body.op # "delete" => q.body.to \in Status
  /\ (q.op = "edit" /\ q.phase = "draft") => q.body.to \in Status
  /\ (q.op \in {"add", "edit", "remove"} /\ q.phase = "write") => Proper(q.body, q.scenario)
  /\ (q.op \in {"edit", "remove"} /\ q.phase = "write") => q.first \in Change
  /\ (q.op \in {"preview", "accept"} /\ q.phase \notin {"idle", "draft"}) =>
       /\ \A c \in Of(q.changes, q.scenario) : Proper(q.changes[c], q.scenario)
       /\ OneEach(q.changes, q.scenario)

LifeOK == \A t \in Task : life[t].state # "absent" => life[t].revision > 0

ChangesOK ==
  /\ \A c \in Change : change[c].scenario # Null => Proper(change[c], change[c].scenario)
  /\ \A s \in Scenario : OneEach(change, s)

\* A change that is to be edited or removed is what it was, or gone.
HoldsChange ==
  \A r \in Request : (request[r].op \in {"edit", "remove"} /\ request[r].phase = "write") =>
    LET row == change[request[r].first]
    IN  row.scenario # Null => /\ row.scenario = request[r].body.scenario
                               /\ row.target = request[r].body.target

DraftsInv ==
  /\ ScenariosTypeOK /\ LifeOK /\ ChangesOK
  /\ \A r \in Request : Sound(request[r])
  /\ HoldsChange

Bystanders == \A r \in Request \ workload.clients : request[r] = Idle

\* What the only client holds is what the tables hold.
DraftInHand(r) ==
  request[r].phase # "idle" =>
    /\ scenario[request[r].scenario] = request[r].seen
    /\ request[r].seen.status = "draft"

PlanInHand(r) ==
  request[r].op = "accept" =>
    /\ request[r].phase \in {"plan", "reviewed", "applying", "write"} =>
         request[r].changes = Listed(request[r].scenario)
    /\ request[r].phase \in {"reviewed", "applying", "write"} =>
         /\ Plan(r) = {step[1] : step \in request[r].approved.steps}
         /\ \A row \in Plan(r) : AsPlanned(row)

AloneInv ==
  /\ Bystanders
  /\ Alone => \A r \in Request : DraftInHand(r) /\ PlanInHand(r)

ScenariosInv == DraftsInv /\ AloneInv

-----------------------------------------------------------------------------
(* What the steps have in common. *)

LEMMA Nulls == Null \notin Scenario /\ Null \notin Task /\ Null \notin Status
  BY ScenarioAssumption

LEMMA IdleOK ==
  /\ Idle \in RequestRecord /\ Sound(Idle)
  /\ Idle.phase = "idle" /\ Idle.op = "preview" /\ Idle.first = Null
<1>1. NoChange \in ChangeRow
  BY DEF NoChange, ChangeRow
<1>2. NoScenario \in ScenarioRow /\ NoRow \in Row /\ NoReview \in Fingerprint
  BY DEF NoScenario, ScenarioRow, NoRow, Row, NoReview, Fingerprint, Status
<1>3. Idle \in RequestRecord
  BY <1>1, <1>2 DEF Idle, RequestRecord, Phases, Operations
<1>4. Idle.phase = "idle" /\ Idle.op = "preview" /\ Idle.first = Null
  BY DEF Idle
<1>5. Sound(Idle)
  BY <1>4 DEF Sound
<1> QED
  BY <1>3, <1>4, <1>5

\* The invariant of the drafts, put together from what a step leaves.
LEMMA DraftsStep ==
  ASSUME DraftsInv, NEW r \in Request, NEW next \in RequestRecord, Sound(next),
         request' = [request EXCEPT ![r] = next],
         workload' = workload,
         scenario' \in [Scenario -> ScenarioRow], review' \in [Scenario -> Fingerprint],
         life' \in [Task -> Row], LifeOK',
         change' \in [Change -> ChangeRow], ChangesOK',
         HoldsChange'
  PROVE  DraftsInv'
<1>1. request' \in [Request -> RequestRecord] /\ \A q \in Request : Sound(request'[q])
  BY DEF DraftsInv, ScenariosTypeOK
<1>2. ChangesWellFormed'
  <2>1. \A c \in Change : change'[c].scenario # Null =>
          change'[c].scenario \in Scenario /\ (change'[c].op = "create" <=> change'[c].expected = 0)
    BY DEF ChangesOK, Proper, ChangeRow
  <2>2. \A s \in Scenario : OneEach(change', s)
    BY DEF ChangesOK
  <2>3. ASSUME NEW c \in Change, NEW d \in Change, change'[c].scenario # Null,
               change'[c].scenario = change'[d].scenario, change'[c].target = change'[d].target
        PROVE  c = d
    BY <2>1, <2>2, <2>3 DEF OneEach, Of
  <2> QED
    BY <2>1, <2>3 DEF ChangesWellFormed
<1>3. workload' \in Workload
  BY DEF DraftsInv, ScenariosTypeOK
<1> QED
  BY <1>1, <1>2, <1>3 DEF DraftsInv, ScenariosTypeOK

\* A step that changes no task and no change.
LEMMA QuietStep ==
  ASSUME DraftsInv, NEW r \in Request, NEW next \in RequestRecord, Sound(next),
         request' = [request EXCEPT ![r] = next],
         UNCHANGED <<life, change, workload>>,
         scenario' \in [Scenario -> ScenarioRow], review' \in [Scenario -> Fingerprint],
         (next.op \in {"edit", "remove"} /\ next.phase = "write") =>
           LET row == change[next.first]
           IN  row.scenario # Null => row.scenario = next.body.scenario /\ row.target = next.body.target
  PROVE  DraftsInv'
<1>1. HoldsChange'
  BY DEF DraftsInv, ScenariosTypeOK, HoldsChange
<1>2. /\ life' \in [Task -> Row] /\ LifeOK'
      /\ change' \in [Change -> ChangeRow] /\ ChangesOK'
  BY DEF DraftsInv, ScenariosTypeOK, LifeOK, ChangesOK, OneEach, Of
<1> QED
  BY <1>1, <1>2, DraftsStep

\* A request is refused, or over after a step on scenarios and reviews.
LEMMA QuietFinish ==
  ASSUME DraftsInv, NEW r \in Request, Finish(r),
         UNCHANGED <<life, change, workload>>,
         scenario' \in [Scenario -> ScenarioRow], review' \in [Scenario -> Fingerprint]
  PROVE  DraftsInv'
BY IdleOK, QuietStep DEF Finish

LEMMA RejectStep ==
  ASSUME DraftsInv, NEW r \in Request, Reject(r)
  PROVE  DraftsInv'
<1>1. /\ Finish(r) /\ UNCHANGED <<life, scenario, change, review, workload>>
  BY DEF Reject, data
<1>2. scenario' \in [Scenario -> ScenarioRow] /\ review' \in [Scenario -> Fingerprint]
  BY <1>1 DEF DraftsInv, ScenariosTypeOK
<1> QED
  BY <1>1, <1>2, QuietFinish

\* A step of a request under way that leaves the tables alone.
LEMMA OwnStep ==
  ASSUME DraftsInv, NEW r \in Request, NEW next \in RequestRecord, Sound(next),
         request' = [request EXCEPT ![r] = next], UNCHANGED data,
         (next.op \in {"edit", "remove"} /\ next.phase = "write") =>
           LET row == change[next.first]
           IN  row.scenario # Null => row.scenario = next.body.scenario /\ row.target = next.body.target
  PROVE  DraftsInv'
<1>1. UNCHANGED <<life, scenario, change, review, workload>>
  BY DEF data
<1>2. scenario' \in [Scenario -> ScenarioRow] /\ review' \in [Scenario -> Fingerprint]
  BY <1>1 DEF DraftsInv, ScenariosTypeOK
<1> QED
  BY <1>1, <1>2, QuietStep

-----------------------------------------------------------------------------
(* Requests on a draft. *)

LEMMA CreateScenarioStep ==
  ASSUME DraftsInv, NEW r \in Request, NEW s \in Scenario, CreateScenario(r, s)
  PROVE  DraftsInv'
<1>1. request' = [request EXCEPT ![r] = request[r]]
  BY DEF CreateScenario, DraftsInv, ScenariosTypeOK
<1>2. scenario' \in [Scenario -> ScenarioRow] /\ review' \in [Scenario -> Fingerprint]
  BY DEF CreateScenario, DraftsInv, ScenariosTypeOK, ScenarioRow
<1>3. request[r] \in RequestRecord /\ Sound(request[r])
  BY DEF DraftsInv, ScenariosTypeOK
<1>4. UNCHANGED <<life, change, workload>>
  BY DEF CreateScenario
<1>5. (request[r].op \in {"edit", "remove"} /\ request[r].phase = "write") =>
        LET row == change[request[r].first]
        IN  row.scenario # Null => row.scenario = request[r].body.scenario /\ row.target = request[r].body.target
  BY DEF DraftsInv, HoldsChange
<1> QED
  BY <1>1, <1>2, <1>3, <1>4, <1>5, QuietStep

Begun(s, op, body) ==
  [Idle EXCEPT !.phase = "draft", !.op = op, !.scenario = s,
               !.seen = scenario[s], !.body = body, !.approved = review[s]]

LEMMA BegunFields ==
  ASSUME DraftsInv, NEW s \in Scenario, NEW op \in Operations, NEW body \in ChangeRow
  PROVE  LET next == Begun(s, op, body)
         IN  /\ next \in RequestRecord
             /\ next.phase = "draft" /\ next.op = op /\ next.scenario = s
             /\ next.seen = scenario[s] /\ next.body = body /\ next.approved = review[s]
<1>1. scenario[s] \in ScenarioRow /\ review[s] \in Fingerprint
  BY DEF DraftsInv, ScenariosTypeOK
<1> QED
  BY <1>1, IdleOK DEF Begun, RequestRecord, Phases

LEMMA BeginStep ==
  ASSUME DraftsInv, NEW r \in Request, NEW s \in Scenario, NEW op \in Operations,
         NEW body \in ChangeRow,
         op = "add" => /\ body.scenario = s /\ body.target \in Task
                       /\ body.op # "delete" => body.to \in Status,
         op = "edit" => body.to \in Status,
         BeginOn(r, s, op, body)
  PROVE  DraftsInv'
<1> DEFINE next == Begun(s, op, body)
<1>1. /\ next \in RequestRecord
      /\ next.phase = "draft" /\ next.op = op /\ next.scenario = s /\ next.body = body
  BY BegunFields
<1>2. request' = [request EXCEPT ![r] = next] /\ UNCHANGED data
  BY DEF BeginOn, Begun
<1> HIDE DEF next
<1>3. Sound(next)
  BY <1>1 DEF Sound
<1> QED
  BY <1>1, <1>2, <1>3, OwnStep

LEMMA BeginSteps ==
  ASSUME DraftsInv, NEW r \in Request, NEW s \in Scenario,
         \/ BeginRename(r, s) \/ BeginDiscard(r, s) \/ BeginAdd(r, s) \/ BeginEdit(r, s)
         \/ BeginRemove(r, s) \/ BeginPreview(r, s) \/ BeginAccept(r, s)
  PROVE  DraftsInv'
<1>1. NoChange \in ChangeRow
  BY DEF NoChange, ChangeRow
<1>2. CASE \E op \in {"rename", "discard", "remove", "preview", "accept"} : BeginOn(r, s, op, NoChange)
  BY <1>1, <1>2, BeginStep DEF Operations
<1>3. CASE BeginAdd(r, s)
  <2>1. PICK t \in Task, to \in Proposed, op \in {"create", "update", "delete"} :
          BeginOn(r, s, "add",
            [NoChange EXCEPT !.scenario = s, !.target = t, !.op = op, !.revision = 1,
                             !.to = IF op = "delete" THEN Null ELSE to])
    BY <1>3 DEF BeginAdd
  <2> DEFINE body == [NoChange EXCEPT !.scenario = s, !.target = t, !.op = op, !.revision = 1,
                                      !.to = IF op = "delete" THEN Null ELSE to]
  <2>2. to \in Status
    BY ScenarioAssumption
  <2>3. /\ body \in ChangeRow /\ body.scenario = s /\ body.target = t /\ body.op = op
        /\ op # "delete" => body.to = to
    BY <2>2 DEF NoChange, ChangeRow
  <2> HIDE DEF body
  <2> QED
    BY <2>1, <2>2, <2>3, BeginStep DEF Operations, body
<1>4. CASE BeginEdit(r, s)
  <2>1. PICK to \in Proposed : BeginOn(r, s, "edit", [NoChange EXCEPT !.to = to])
    BY <1>4 DEF BeginEdit
  <2>2. to \in Status
    BY ScenarioAssumption
  <2>3. [NoChange EXCEPT !.to = to] \in ChangeRow /\ [NoChange EXCEPT !.to = to].to = to
    BY <2>2 DEF NoChange, ChangeRow
  <2> QED
    BY <2>1, <2>2, <2>3, BeginStep DEF Operations
<1> QED
  BY <1>2, <1>3, <1>4 DEF BeginRename, BeginDiscard, BeginRemove, BeginPreview, BeginAccept

LEMMA SettleSteps ==
  ASSUME DraftsInv, NEW r \in Request, CommitRename(r) \/ CommitDiscard(r)
  PROVE  DraftsInv'
<1>1. request[r].scenario \in Scenario /\ request[r].seen.revision + 1 \in Nat
  BY DEF CommitRename, CommitDiscard, DraftsInv, Sound, ScenariosTypeOK, RequestRecord, ScenarioRow
<1>2. Finish(r) /\ UNCHANGED <<life, change, review, workload>>
  BY DEF CommitRename, CommitDiscard
<1>3. scenario' \in [Scenario -> ScenarioRow]
  BY <1>1 DEF CommitRename, CommitDiscard, Bump, DraftsInv, ScenariosTypeOK, ScenarioRow
<1>4. review' \in [Scenario -> Fingerprint]
  BY <1>2 DEF DraftsInv, ScenariosTypeOK
<1> QED
  BY <1>2, <1>3, <1>4, QuietFinish

-----------------------------------------------------------------------------
(* The changes of a draft. *)

LEMMA ChangesAfter ==
  ASSUME \A d \in Change : change'[d].scenario # Null => Proper(change'[d], change'[d].scenario),
         \A s \in Scenario : OneEach(change', s)
  PROVE  ChangesOK'
BY DEF ChangesOK, OneEach, Of, Proper

LEMMA CheckAddStep ==
  ASSUME DraftsInv, NEW r \in Request, CheckAdd(r)
  PROVE  DraftsInv'
<1> DEFINE body == request[r].body
           created == body.op = "create"
           expected == IF created THEN 0 ELSE life[body.target].revision
           next == [request[r] EXCEPT !.phase = "write", !.body = [body EXCEPT !.expected = expected]]
<1>1. request[r] \in RequestRecord /\ body \in ChangeRow
  BY DEF DraftsInv, ScenariosTypeOK, RequestRecord
<1>2. /\ request[r].op = "add" /\ request[r].phase = "draft" /\ request[r].scenario \in Scenario
      /\ body.scenario = request[r].scenario /\ body.target \in Task
      /\ body.op # "delete" => body.to \in Status
  BY DEF CheckAdd, DraftsInv, Sound
<1>3. CASE (Live(body.target) <=> ~created) /\ UNCHANGED data
           /\ request' = [request EXCEPT ![r].phase = "write",
                  ![r].body.expected = IF request[r].body.op = "create" THEN 0
                                       ELSE life[request[r].body.target].revision]
  <2>1. expected \in Nat /\ (created <=> expected = 0)
    BY <1>2, <1>3 DEF DraftsInv, LifeOK, Live, ScenariosTypeOK, Row
  <2>2. request' = [request EXCEPT ![r] = next]
    BY <1>1, <1>3 DEF DraftsInv, ScenariosTypeOK, RequestRecord, ChangeRow
  <2> HIDE DEF expected
  <2>3. /\ [body EXCEPT !.expected = expected] \in ChangeRow
        /\ Proper([body EXCEPT !.expected = expected], request[r].scenario)
    BY <1>1, <1>2, <2>1 DEF ChangeRow, Proper
  <2>4. /\ next \in RequestRecord /\ next.op = "add" /\ next.phase = "write"
        /\ next.scenario = request[r].scenario
        /\ next.body = [body EXCEPT !.expected = expected]
    BY <1>1, <1>2, <2>3 DEF RequestRecord, Phases
  <2> HIDE DEF next
  <2>5. Sound(next)
    BY <1>2, <2>3, <2>4 DEF Sound
  <2> QED
    BY <1>3, <2>2, <2>4, <2>5, OwnStep
<1> QED
  BY <1>3, RejectStep DEF CheckAdd

\* Nobody holds the identifier of the new change.
LEMMA CommitAddStep ==
  ASSUME DraftsInv, NEW r \in Request, CommitAdd(r)
  PROVE  DraftsInv'
<1> DEFINE body == request[r].body
           s == request[r].scenario
<1>1. /\ request[r].op = "add" /\ request[r].phase = "write"
      /\ s \in Scenario /\ body \in ChangeRow /\ Proper(body, s)
      /\ request[r].seen.revision + 1 \in Nat
  BY DEF CommitAdd, DraftsInv, Sound, ScenariosTypeOK, RequestRecord, ScenarioRow
<1>2. ASSUME NEW c \in Change, Unused(c), change' = [change EXCEPT ![c] = body],
             Bump(r), Finish(r), UNCHANGED <<life, review, workload>>,
             \A d \in Of(change, s) : change[d].target # body.target
      PROVE  DraftsInv'
  <2>0. scenario' \in [Scenario -> ScenarioRow]
    BY <1>1, <1>2 DEF Bump, DraftsInv, ScenariosTypeOK, ScenarioRow
  <2>1. review' \in [Scenario -> Fingerprint] /\ life' \in [Task -> Row] /\ LifeOK'
    BY <1>2 DEF DraftsInv, ScenariosTypeOK, LifeOK
  <2>2. change' \in [Change -> ChangeRow]
    BY <1>1, <1>2 DEF DraftsInv, ScenariosTypeOK
  <2>3. ChangesOK'
    <3>1. \A d \in Change : change'[d] = IF d = c THEN body ELSE change[d]
      BY <1>2 DEF DraftsInv, ScenariosTypeOK
    <3>2. \A d \in Change : change'[d].scenario # Null => Proper(change'[d], change'[d].scenario)
      BY <1>1, <3>1 DEF DraftsInv, ChangesOK, Proper
    <3>3. ASSUME NEW z \in Scenario PROVE OneEach(change', z)
      BY <1>1, <1>2, <3>1 DEF DraftsInv, ChangesOK, OneEach, Of, Proper
    <3> QED
      BY <3>2, <3>3, ChangesAfter
  <2>4. HoldsChange'
    <3>1. \A q \in Request : request'[q].op \in {"edit", "remove"} =>
            request'[q] = request[q] /\ change'[request[q].first] = change[request[q].first]
      BY <1>2, IdleOK DEF Unused, Finish, DraftsInv, ScenariosTypeOK
    <3> QED
      BY <3>1 DEF DraftsInv, HoldsChange
  <2> QED
    BY <1>2, <2>0, <2>1, <2>2, <2>3, <2>4, IdleOK, DraftsStep DEF Finish
<1> QED
  BY <1>2, RejectStep DEF CommitAdd

LEMMA EditedFields ==
  ASSUME NEW row \in ChangeRow, NEW to \in Status
  PROVE  LET edited == [row EXCEPT !.to = to, !.revision = @ + 1]
         IN  /\ edited \in ChangeRow /\ edited.to = to
             /\ edited.scenario = row.scenario /\ edited.target = row.target
             /\ edited.op = row.op /\ edited.expected = row.expected
<1>1. row.revision + 1 \in Nat
  BY DEF ChangeRow
<1>2. ASSUME NEW n \in Nat
      PROVE  LET edited == [row EXCEPT !.to = to, !.revision = n]
             IN  /\ edited \in ChangeRow /\ edited.to = to
                 /\ edited.scenario = row.scenario /\ edited.target = row.target
                 /\ edited.op = row.op /\ edited.expected = row.expected
  BY DEF ChangeRow
<1>3. [row EXCEPT !.to = to, !.revision = @ + 1] = [row EXCEPT !.to = to, !.revision = row.revision + 1]
  BY DEF ChangeRow
<1> QED
  BY <1>1, <1>2, <1>3

LEMMA LoadChangeStep ==
  ASSUME DraftsInv, NEW r \in Request, LoadChange(r)
  PROVE  DraftsInv'
<1> DEFINE s == request[r].scenario
<1>1. /\ request[r] \in RequestRecord /\ s \in Scenario /\ UNCHANGED data
      /\ request[r].op \in {"edit", "remove"} /\ request[r].phase = "draft"
      /\ request[r].op = "edit" => request[r].body.to \in Status
  BY DEF LoadChange, DraftsInv, Sound, ScenariosTypeOK
<1>2. PICK c \in Of(change, s) :
        /\ request[r].op = "edit" => change[c].op # "delete"
        /\ request' = [request EXCEPT ![r].phase = "write", ![r].first = c,
             ![r].body = IF request[r].op = "edit"
                         THEN [change[c] EXCEPT !.to = request[r].body.to, !.revision = @ + 1]
                         ELSE change[c]]
  BY DEF LoadChange
<1> DEFINE body == IF request[r].op = "edit"
                   THEN [change[c] EXCEPT !.to = request[r].body.to, !.revision = @ + 1]
                   ELSE change[c]
           next == [request[r] EXCEPT !.phase = "write", !.first = c, !.body = body]
<1>3. c \in Change /\ change[c] \in ChangeRow /\ Proper(change[c], s)
  BY <1>1, Nulls DEF Of, DraftsInv, ScenariosTypeOK, ChangesOK
<1>4. /\ body \in ChangeRow /\ Proper(body, s)
      /\ body.scenario = change[c].scenario /\ body.target = change[c].target
  <2>1. CASE request[r].op = "edit"
    <3>1. /\ body = [change[c] EXCEPT !.to = request[r].body.to, !.revision = @ + 1]
          /\ change[c].op # "delete" /\ request[r].body.to \in Status
      BY <1>1, <1>2, <2>1
    <3> HIDE DEF body
    <3> QED
      BY <1>3, <3>1, EditedFields DEF Proper
  <2>2. CASE request[r].op = "remove"
    BY <1>3, <2>2
  <2> QED
    BY <1>1, <2>1, <2>2
<1>5. request' = [request EXCEPT ![r] = next]
  BY <1>1, <1>2 DEF DraftsInv, ScenariosTypeOK, RequestRecord
<1> HIDE DEF body
<1>6. /\ next \in RequestRecord /\ next.op = request[r].op /\ next.phase = "write"
      /\ next.scenario = s /\ next.first = c /\ next.body = body
  BY <1>1, <1>3, <1>4 DEF RequestRecord, Phases
<1> HIDE DEF next
<1>7. Sound(next)
  BY <1>1, <1>3, <1>4, <1>6 DEF Sound
<1> QED
  BY <1>1, <1>4, <1>5, <1>6, <1>7, OwnStep

LEMMA CommitEditStep ==
  ASSUME DraftsInv, NEW r \in Request, CommitEdit(r)
  PROVE  DraftsInv'
<1> DEFINE body == request[r].body
           s == request[r].scenario
           first == request[r].first
<1>1. /\ request[r].op = "edit" /\ request[r].phase = "write"
      /\ s \in Scenario /\ body \in ChangeRow /\ Proper(body, s) /\ first \in Change
  BY DEF CommitEdit, DraftsInv, Sound, ScenariosTypeOK, RequestRecord
<1>2. CASE /\ change[first].scenario # Null
           /\ change' = [change EXCEPT ![first] = body]
           /\ Bump(r) /\ Finish(r) /\ UNCHANGED <<life, review, workload>>
  <2>1. /\ scenario' \in [Scenario -> ScenarioRow] /\ review' \in [Scenario -> Fingerprint]
        /\ life' \in [Task -> Row] /\ LifeOK'
    BY <1>1, <1>2 DEF Bump, DraftsInv, ScenariosTypeOK, ScenarioRow, RequestRecord, LifeOK
  <2>2. /\ change' \in [Change -> ChangeRow]
        /\ \A d \in Change : change'[d] = IF d = first THEN body ELSE change[d]
    BY <1>1, <1>2 DEF DraftsInv, ScenariosTypeOK
  <2>3. change[first].scenario = body.scenario /\ change[first].target = body.target
    BY <1>1, <1>2 DEF DraftsInv, HoldsChange
  <2>4. ChangesOK'
    <3>1. \A d \in Change : change'[d].scenario = change[d].scenario /\ change'[d].target = change[d].target
      BY <2>2, <2>3
    <3>2. \A d \in Change : change'[d].scenario # Null => Proper(change'[d], change'[d].scenario)
      BY <1>1, <2>2 DEF DraftsInv, ChangesOK, Proper
    <3>3. \A z \in Scenario : OneEach(change', z)
      BY <3>1 DEF DraftsInv, ChangesOK, OneEach, Of
    <3> QED
      BY <3>2, <3>3, ChangesAfter
  <2>5. HoldsChange'
    <3>1. \A d \in Change : change'[d].scenario = change[d].scenario /\ change'[d].target = change[d].target
      BY <2>2, <2>3
    <3>2. \A q \in Request : request'[q].op \in {"edit", "remove"} => request'[q] = request[q]
      BY <1>2, IdleOK DEF Finish, DraftsInv, ScenariosTypeOK
    <3> QED
      BY <3>1, <3>2 DEF DraftsInv, HoldsChange, Sound
  <2> QED
    BY <1>2, <2>1, <2>2, <2>4, <2>5, IdleOK, DraftsStep DEF Finish
<1> QED
  BY <1>2, RejectStep DEF CommitEdit

LEMMA CommitRemoveStep ==
  ASSUME DraftsInv, NEW r \in Request, CommitRemove(r)
  PROVE  DraftsInv'
<1> DEFINE first == request[r].first
<1>1. /\ request[r].op = "remove" /\ request[r].phase = "write"
      /\ request[r].scenario \in Scenario /\ first \in Change
      /\ change' = [change EXCEPT ![first] = NoChange]
      /\ Bump(r) /\ Finish(r) /\ UNCHANGED <<life, review, workload>>
  BY DEF CommitRemove, DraftsInv, Sound
<1>2. /\ scenario' \in [Scenario -> ScenarioRow] /\ review' \in [Scenario -> Fingerprint]
      /\ life' \in [Task -> Row] /\ LifeOK'
  BY <1>1 DEF Bump, DraftsInv, ScenariosTypeOK, ScenarioRow, RequestRecord, LifeOK
<1>3. NoChange \in ChangeRow /\ NoChange.scenario = Null
  BY DEF NoChange, ChangeRow
<1>4. /\ change' \in [Change -> ChangeRow]
      /\ \A d \in Change : change'[d] = IF d = first THEN NoChange ELSE change[d]
  BY <1>1, <1>3 DEF DraftsInv, ScenariosTypeOK
<1>5. ChangesOK'
  <2>1. \A d \in Change : change'[d].scenario # Null => change'[d] = change[d]
    BY <1>3, <1>4
  <2>2. \A d \in Change : change'[d].scenario # Null => Proper(change'[d], change'[d].scenario)
    BY <2>1 DEF DraftsInv, ChangesOK, Proper
  <2>3. \A z \in Scenario : OneEach(change', z)
    BY <2>1, Nulls DEF DraftsInv, ChangesOK, OneEach, Of
  <2> QED
    BY <2>2, <2>3, ChangesAfter
<1>6. HoldsChange'
  <2>1. \A q \in Request : request'[q].op \in {"edit", "remove"} => request'[q] = request[q]
    BY <1>1, IdleOK DEF Finish, DraftsInv, ScenariosTypeOK
  <2>2. \A d \in Change : change'[d].scenario # Null => change'[d] = change[d]
    BY <1>3, <1>4
  <2> QED
    BY <2>1, <2>2 DEF DraftsInv, HoldsChange, Sound
<1> QED
  BY <1>1, <1>2, <1>4, <1>5, <1>6, IdleOK, DraftsStep DEF Finish

-----------------------------------------------------------------------------
(* Preview and acceptance. *)

LEMMA ListedOK ==
  ASSUME DraftsInv, NEW s \in Scenario
  PROVE  /\ Listed(s) \in [Change -> ChangeRow]
         /\ Of(Listed(s), s) = Of(change, s)
         /\ \A c \in Of(change, s) : Listed(s)[c] = change[c]
         /\ \A c \in Of(Listed(s), s) : Proper(Listed(s)[c], s)
         /\ OneEach(Listed(s), s)
<1>1. NoChange \in ChangeRow /\ NoChange.scenario # s
  BY Nulls DEF NoChange, ChangeRow
<1>2. Listed(s) \in [Change -> ChangeRow]
  BY <1>1 DEF Listed, DraftsInv, ScenariosTypeOK
<1>3. \A c \in Change : Listed(s)[c] = IF change[c].scenario = s THEN change[c] ELSE NoChange
  BY DEF Listed
<1>4. Of(Listed(s), s) = Of(change, s)
  BY <1>1, <1>3 DEF Of
<1>5. \A c \in Of(change, s) : Listed(s)[c] = change[c]
  BY <1>3 DEF Of
<1>6. \A c \in Of(change, s) : Proper(change[c], s)
  BY Nulls DEF Of, DraftsInv, ChangesOK
<1>7. OneEach(change, s)
  BY DEF DraftsInv, ChangesOK
<1>8. OneEach(Listed(s), s)
  BY <1>4, <1>5, <1>7 DEF OneEach
<1> QED
  BY <1>2, <1>4, <1>5, <1>6, <1>8

\* ListChanges and ListAgain.
LEMMA ListingStep ==
  ASSUME DraftsInv, NEW r \in Request, NEW phase \in {"plan", "applying"},
         request[r].phase \in {"draft", "reviewed"}, request[r].op \in {"preview", "accept"},
         phase = "applying" => request[r].op = "accept",
         UNCHANGED data,
         request' = [request EXCEPT ![r].phase = phase, ![r].changes = Listed(request[r].scenario)]
  PROVE  DraftsInv'
<1> DEFINE s == request[r].scenario
           next == [request[r] EXCEPT !.phase = phase, !.changes = Listed(s)]
<1>1. s \in Scenario /\ request[r] \in RequestRecord
  BY DEF DraftsInv, Sound, ScenariosTypeOK
<1>2. request' = [request EXCEPT ![r] = next]
  BY <1>1 DEF DraftsInv, ScenariosTypeOK, RequestRecord
<1>3. /\ next \in RequestRecord /\ next.op = request[r].op /\ next.phase = phase
      /\ next.scenario = s /\ next.changes = Listed(s)
  BY <1>1, ListedOK DEF RequestRecord, Phases
<1> HIDE DEF next
<1>4. Sound(next)
  BY <1>1, <1>3, ListedOK DEF Sound
<1> QED
  BY <1>2, <1>3, <1>4, OwnStep

LEMMA ListSteps ==
  ASSUME DraftsInv, NEW r \in Request, ListChanges(r) \/ ListAgain(r)
  PROVE  DraftsInv'
<1>1. CASE ListChanges(r)
  BY <1>1, ListingStep DEF ListChanges
<1>2. CASE ListAgain(r)
  <2>1. request[r].op = "accept"
    BY <1>2 DEF ListAgain, DraftsInv, Sound
  <2> QED
    BY <1>2, <2>1, ListingStep DEF ListAgain
<1> QED
  BY <1>1, <1>2

LEMMA PlanOK ==
  ASSUME DraftsInv, NEW r \in Request,
         request[r].op \in {"preview", "accept"}, request[r].phase \notin {"idle", "draft"}
  PROVE  /\ Plan(r) \subseteq ChangeRow
         /\ \A row \in Plan(r) : Proper(row, request[r].scenario)
         /\ Preview(r) \in Fingerprint
<1>1. /\ request[r].changes \in [Change -> ChangeRow] /\ request[r].seen.revision \in Nat
      /\ \A c \in Of(request[r].changes, request[r].scenario) :
           Proper(request[r].changes[c], request[r].scenario)
  BY DEF DraftsInv, Sound, ScenariosTypeOK, RequestRecord, ScenarioRow
<1>2. Plan(r) \subseteq ChangeRow /\ \A row \in Plan(r) : Proper(row, request[r].scenario)
  BY <1>1 DEF Plan, Of
<1>3. \A row \in Plan(r) :
        row.target \in Task /\ (IF Live(row.target) THEN life[row.target].status ELSE Null) \in Status \cup {Null}
  BY <1>2 DEF Proper, DraftsInv, ScenariosTypeOK, Row
<1>4. /\ {<<row, IF Live(row.target) THEN life[row.target].status ELSE Null>> : row \in Plan(r)}
           \subseteq ChangeRow \X (Status \cup {Null})
      /\ {row.target : row \in {p \in Plan(r) : Stale(p)}} \subseteq Task
  BY <1>2, <1>3
<1> QED
  BY <1>1, <1>2, <1>4 DEF Preview, Fingerprint

LEMMA ShowPreviewStep ==
  ASSUME DraftsInv, NEW r \in Request, ShowPreview(r)
  PROVE  DraftsInv'
<1>1. /\ Finish(r) /\ UNCHANGED <<life, scenario, change, workload>>
      /\ review' = [review EXCEPT ![request[r].scenario] = Preview(r)]
      /\ Preview(r) \in Fingerprint
  BY PlanOK DEF ShowPreview
<1>2. scenario' \in [Scenario -> ScenarioRow] /\ review' \in [Scenario -> Fingerprint]
  BY <1>1 DEF DraftsInv, ScenariosTypeOK
<1> QED
  BY <1>1, <1>2, QuietFinish

LEMMA CheckAcceptStep ==
  ASSUME DraftsInv, NEW r \in Request, CheckAccept(r)
  PROVE  DraftsInv'
<1>1. CASE request' = [request EXCEPT ![r].phase = "reviewed"] /\ UNCHANGED data
  <2> DEFINE next == [request[r] EXCEPT !.phase = "reviewed"]
  <2>1. /\ request[r] \in RequestRecord /\ Sound(request[r])
        /\ request[r].op = "accept" /\ request[r].phase = "plan"
    BY DEF CheckAccept, DraftsInv, ScenariosTypeOK
  <2>2. /\ next \in RequestRecord /\ next.op = request[r].op /\ next.phase = "reviewed"
        /\ next.scenario = request[r].scenario /\ next.changes = request[r].changes
    BY <2>1 DEF RequestRecord, Phases
  <2>3. request' = [request EXCEPT ![r] = next]
    BY <1>1 DEF DraftsInv, ScenariosTypeOK
  <2> HIDE DEF next
  <2>4. Sound(next)
    BY <2>1, <2>2 DEF Sound
  <2> QED
    BY <1>1, <2>1, <2>2, <2>3, <2>4, OwnStep
<1> QED
  BY <1>1, RejectStep DEF CheckAccept

LEMMA LoadFirstStep ==
  ASSUME DraftsInv, NEW r \in Request, LoadFirst(r)
  PROVE  DraftsInv'
<1>1. /\ request[r] \in RequestRecord /\ Sound(request[r])
      /\ request[r].op = "accept" /\ request[r].phase = "applying"
  BY DEF LoadFirst, DraftsInv, ScenariosTypeOK, Sound
<1>2. CASE request' = [request EXCEPT ![r].phase = "write"] /\ UNCHANGED data
  <2> DEFINE next == [request[r] EXCEPT !.phase = "write"]
  <2>1. /\ next \in RequestRecord /\ next.op = request[r].op /\ next.phase = "write"
        /\ next.scenario = request[r].scenario /\ next.changes = request[r].changes
    BY <1>1 DEF RequestRecord, Phases
  <2>2. request' = [request EXCEPT ![r] = next]
    BY <1>2 DEF DraftsInv, ScenariosTypeOK
  <2> HIDE DEF next
  <2>3. Sound(next)
    BY <1>1, <2>1 DEF Sound
  <2> QED
    BY <1>1, <1>2, <2>1, <2>2, <2>3, OwnStep
<1>3. ASSUME NEW c \in Listing(r), NEW row \in Row, UNCHANGED data,
             request' = [request EXCEPT ![r].phase = "write", ![r].first = c, ![r].row = row]
      PROVE  DraftsInv'
  <2> DEFINE next == [request[r] EXCEPT !.phase = "write", !.first = c, !.row = row]
  <2>1. /\ next \in RequestRecord /\ next.op = request[r].op /\ next.phase = "write"
        /\ next.scenario = request[r].scenario /\ next.changes = request[r].changes
    BY <1>1, <1>3 DEF RequestRecord, Phases, Listing, Of
  <2>2. request' = [request EXCEPT ![r] = next]
    BY <1>1, <1>3 DEF DraftsInv, ScenariosTypeOK, RequestRecord
  <2> HIDE DEF next
  <2>3. Sound(next)
    BY <1>1, <2>1 DEF Sound
  <2> QED
    BY <1>1, <1>3, <2>1, <2>2, <2>3, OwnStep
<1>4. \A c \in Listing(r) : request[r].changes[c].target \in Task
  BY <1>1 DEF Sound, Listing, Proper
<1>5. NoRow \in Row /\ \A t \in Task : life[t] \in Row
  BY DEF NoRow, Row, Status, DraftsInv, ScenariosTypeOK
<1>6. CASE Listing(r) = {}
  BY <1>2, <1>6 DEF LoadFirst
<1>7. CASE Listing(r) # {}
  <2>1. PICK c \in Listing(r) :
          LET row == request[r].changes[c]
          IN  IF row.op = "create" \/ Live(row.target)
              THEN /\ request' = [request EXCEPT ![r].phase = "write", ![r].first = c,
                        ![r].row = IF row.op = "create" THEN NoRow ELSE life[row.target]]
                   /\ UNCHANGED data
              ELSE Reject(r)
    BY <1>7 DEF LoadFirst
  <2>2. (IF request[r].changes[c].op = "create" THEN NoRow ELSE life[request[r].changes[c].target]) \in Row
    BY <1>4, <1>5
  <2> QED
    BY <1>3, <2>1, <2>2, RejectStep
<1> QED
  BY <1>6, <1>7

\* What a change makes of its record.
LEMMA AppliedOK ==
  ASSUME DraftsInv, NEW r \in Request, request[r].op = "accept", request[r].phase = "write",
         NEW c \in Listing(r)
  PROVE  LET row == request[r].changes[c]
         IN  /\ row.target \in Task /\ row.op \in {"create", "update", "delete"}
             /\ Applied(r, c) \in Row /\ Applied(r, c).revision > 0
             /\ row.op = "create" => Applied(r, c).status = row.to
             /\ row.op = "update" =>
                  \/ Applied(r, c).status = row.to
                  \/ c = request[r].first /\ life[row.target] # request[r].row
             /\ row.op = "delete" => Applied(r, c).state = "deleted"
<1> DEFINE row == request[r].changes[c]
           now == life[row.target]
           found == Found(r, c)
<1>1. row \in ChangeRow /\ row.target \in Task /\ (row.op # "delete" => row.to \in Status)
  BY DEF DraftsInv, Sound, Proper, Listing, Of, ScenariosTypeOK, RequestRecord
<1>2. now \in Row /\ found \in Row /\ (c # request[r].first => found = now)
      /\ (c = request[r].first => found = request[r].row)
  BY <1>1 DEF Found, DraftsInv, ScenariosTypeOK, RequestRecord
<1>3. row.op \in {"create", "update", "delete"}
  BY <1>1 DEF ChangeRow
<1>4. found.revision + 1 \in Nat /\ found.revision + 1 > 0
  BY <1>2 DEF Row
<1>5. CASE row.op = "create"
  <2>1. Applied(r, c) = [state |-> "active", revision |-> 1, status |-> row.to, completedAt |-> FALSE]
    BY <1>5 DEF Applied
  <2> QED
    BY <1>1, <1>5, <2>1 DEF Row
<1>6. CASE row.op = "update"
  <2> DEFINE status == IF row.to = found.status THEN now.status ELSE row.to
  <2>1. Applied(r, c) = [now EXCEPT !.status = status, !.revision = found.revision + 1]
    BY <1>2, <1>6 DEF Applied, Row
  <2>2. status \in Status /\ (found = now => status = row.to)
    BY <1>1, <1>2, <1>6 DEF Row
  <2> HIDE DEF status, now, found, row
  <2>3. /\ Applied(r, c) \in Row /\ Applied(r, c).status = status
        /\ Applied(r, c).revision = found.revision + 1
    BY <1>2, <1>4, <2>1, <2>2 DEF Row
  <2> USE DEF now, row
  <2> QED
    BY <1>1, <1>2, <1>4, <1>6, <2>2, <2>3
<1>7. CASE row.op = "delete"
  <2>1. Applied(r, c) = [now EXCEPT !.state = "deleted", !.revision = found.revision + 1]
    BY <1>7 DEF Applied
  <2> HIDE DEF now, found, row
  <2>2. /\ Applied(r, c) \in Row /\ Applied(r, c).state = "deleted"
        /\ Applied(r, c).revision = found.revision + 1
    BY <1>2, <1>4, <2>1 DEF Row
  <2> USE DEF now, row
  <2> QED
    BY <1>1, <1>4, <1>7, <2>2
<1> QED
  BY <1>3, <1>5, <1>6, <1>7

\* An acceptance that commits writes each record as the change for it says.
AcceptsAll(r) ==
  /\ Finish(r) /\ UNCHANGED <<change, review, workload>>
  /\ scenario' = [scenario EXCEPT ![request[r].scenario] =
       [status |-> "accepted", revision |-> request[r].seen.revision + 1]]
  /\ Applicable(r)
  /\ life' \in [Task -> Row] /\ LifeOK'
  /\ \A c \in Listing(r) : life'[request[r].changes[c].target] = Applied(r, c)

LEMMA AcceptEffect ==
  ASSUME DraftsInv, NEW r \in Request, CommitAccept(r)
  PROVE  AcceptsAll(r) \/ Reject(r)
<1>1. /\ request[r].op = "accept" /\ request[r].phase = "write"
      /\ OneEach(request[r].changes, request[r].scenario)
  BY DEF CommitAccept, DraftsInv, Sound
<1>2. CASE Applicable(r)
  <2> DEFINE Chosen(t) == CHOOSE c \in Listing(r) : request[r].changes[c].target = t
             Targets == {t \in Task : \E c \in Listing(r) : request[r].changes[c].target = t}
  <2>1. life' = [t \in Task |-> IF \E c \in Listing(r) : request[r].changes[c].target = t
                               THEN Applied(r, Chosen(t)) ELSE life[t]]
    BY <1>2 DEF CommitAccept
  <2>2. \A t \in Task : (\E c \in Listing(r) : request[r].changes[c].target = t) =>
          Chosen(t) \in Listing(r) /\ request[r].changes[Chosen(t)].target = t
    OBVIOUS
  <2>3. \A c \in Listing(r) : Chosen(request[r].changes[c].target) = c
    <3>1. \A c, d \in Listing(r) : request[r].changes[c].target = request[r].changes[d].target => c = d
      BY <1>1 DEF OneEach, Listing
    <3> QED
      BY <3>1
  <2> HIDE DEF Chosen
  <2>4. \A c \in Listing(r) : request[r].changes[c].target \in Task /\ Applied(r, c) \in Row /\ Applied(r, c).revision > 0
    BY <1>1, AppliedOK
  <2>5. \A t \in Task : life'[t] \in Row /\ (life'[t].state # "absent" => life'[t].revision > 0)
    BY <2>1, <2>2, <2>4 DEF DraftsInv, LifeOK, ScenariosTypeOK
  <2>6. life' \in [Task -> Row]
    BY <2>1, <2>5
  <2>7. \A c \in Listing(r) : life'[request[r].changes[c].target] = Applied(r, c)
    BY <2>1, <2>3, <2>4
  <2> QED
    BY <1>2, <2>5, <2>6, <2>7 DEF CommitAccept, AcceptsAll, LifeOK
<1>3. CASE ~Applicable(r)
  BY <1>3 DEF CommitAccept
<1> QED
  BY <1>2, <1>3

LEMMA CommitAcceptStep ==
  ASSUME DraftsInv, NEW r \in Request, CommitAccept(r)
  PROVE  DraftsInv'
<1>1. CASE AcceptsAll(r)
  <2>1. request[r].scenario \in Scenario /\ request[r].seen.revision + 1 \in Nat
    BY DEF CommitAccept, DraftsInv, Sound, ScenariosTypeOK, RequestRecord, ScenarioRow
  <2>2. scenario' \in [Scenario -> ScenarioRow]
    BY <1>1, <2>1 DEF AcceptsAll, DraftsInv, ScenariosTypeOK, ScenarioRow
  <2>3. /\ review' \in [Scenario -> Fingerprint] /\ change' \in [Change -> ChangeRow]
        /\ ChangesOK'
    BY <1>1 DEF AcceptsAll, DraftsInv, ScenariosTypeOK, ChangesOK, OneEach, Of
  <2>4. HoldsChange'
    BY <1>1, IdleOK DEF AcceptsAll, Finish, DraftsInv, ScenariosTypeOK, HoldsChange
  <2> QED
    BY <1>1, <2>2, <2>3, <2>4, IdleOK, DraftsStep DEF AcceptsAll, Finish
<1> QED
  BY <1>1, AcceptEffect, RejectStep

-----------------------------------------------------------------------------
(* Tasks change. *)

LEMMA LifeStep ==
  ASSUME life \in [Task -> Row], LifeOK, NEW t \in Task,
         Appear(t) \/ Write({t}) \/ Vanish(t)
  PROVE  life' \in [Task -> Row] /\ LifeOK'
<1>1. life[t] \in Row /\ life[t].revision + 1 \in Nat /\ life[t].revision + 1 > 0
  BY DEF Row
<1>2. ASSUME NEW row \in Row, row.revision > 0, life' = [life EXCEPT ![t] = row]
      PROVE  life' \in [Task -> Row] /\ LifeOK'
  BY <1>2 DEF LifeOK
<1>3. CASE Appear(t)
  <2>1. PICK s \in Status :
          life' = [life EXCEPT ![t] = [state |-> "active", revision |-> 1, status |-> s,
                                       completedAt |-> (s = "completed")]]
    BY <1>3 DEF Appear
  <2> DEFINE row == [state |-> "active", revision |-> 1, status |-> s,
                     completedAt |-> (s = "completed")]
  <2>2. row \in Row /\ row.revision > 0
    BY DEF Row
  <2>3. life' = [life EXCEPT ![t] = row]
    BY <2>1
  <2> HIDE DEF row
  <2> QED
    BY <1>2, <2>2, <2>3
<1>4. CASE Write({t})
  <2>1. PICK to \in [{t} -> Status] :
          life' = [x \in Task |->
                     IF x \in {t}
                     THEN [state |-> "active", revision |-> life[x].revision + 1, status |-> to[x],
                           completedAt |-> (to[x] = "completed")]
                     ELSE life[x]]
    BY <1>4 DEF Write
  <2> DEFINE row == [state |-> "active", revision |-> life[t].revision + 1, status |-> to[t],
                     completedAt |-> (to[t] = "completed")]
  <2>2. row \in Row /\ row.revision > 0
    BY <1>1 DEF Row
  <2>3. life' = [life EXCEPT ![t] = row]
    BY <2>1
  <2> QED
    BY <1>2, <2>2, <2>3
<1>5. CASE Vanish(t)
  <2> DEFINE row == [state |-> "deleted", revision |-> life[t].revision + 1,
                     status |-> life[t].status, completedAt |-> life[t].completedAt]
  <2>1. row \in Row /\ row.revision > 0
    BY <1>1 DEF Row
  <2>2. life' = [life EXCEPT ![t] = row]
    BY <1>5 DEF Vanish
  <2> QED
    BY <1>2, <2>1, <2>2
<1> QED
  BY <1>3, <1>4, <1>5

LEMMA ServeTaskStep ==
  ASSUME DraftsInv, NEW r \in Request, ServeTask(r)
  PROVE  DraftsInv'
<1>1. UNCHANGED <<scenario, change, review, request, workload>>
  BY DEF ServeTask
<1>2. life' \in [Task -> Row] /\ LifeOK'
  BY LifeStep DEF ServeTask, DraftsInv, ScenariosTypeOK
<1>3. request' = [request EXCEPT ![r] = request[r]] /\ request[r] \in RequestRecord /\ Sound(request[r])
  BY <1>1 DEF DraftsInv, ScenariosTypeOK
<1>4. /\ scenario' \in [Scenario -> ScenarioRow] /\ review' \in [Scenario -> Fingerprint]
      /\ change' \in [Change -> ChangeRow] /\ ChangesOK' /\ HoldsChange'
  BY <1>1 DEF DraftsInv, ScenariosTypeOK, ChangesOK, OneEach, Of, HoldsChange
<1> QED
  BY <1>1, <1>2, <1>3, <1>4, DraftsStep

LEMMA DraftsNext ==
  ASSUME DraftsInv, [ScenariosNext]_scenarioVars
  PROVE  DraftsInv'
<1>1. CASE UNCHANGED scenarioVars
  BY <1>1 DEF scenarioVars, DraftsInv, ScenariosTypeOK, ChangesWellFormed, LifeOK, ChangesOK,
              OneEach, Of, HoldsChange
<1>2. ASSUME NEW r \in Request, ServeTask(r) \/ Serve(r)
      PROVE  DraftsInv'
  BY <1>2, ServeTaskStep, CreateScenarioStep, BeginSteps, SettleSteps, CheckAddStep, CommitAddStep,
     LoadChangeStep, CommitEditStep, CommitRemoveStep, ListSteps, ShowPreviewStep, CheckAcceptStep,
     LoadFirstStep, CommitAcceptStep DEF Serve
<1>3. workload.clients \subseteq Request
  BY DEF DraftsInv, ScenariosTypeOK, Workload
<1> QED
  BY <1>1, <1>2, <1>3 DEF ScenariosNext

-----------------------------------------------------------------------------
(* One client alone. *)

LEMMA OnlyClient ==
  ASSUME DraftsInv, Alone, NEW r \in workload.clients
  PROVE  workload.clients = {r}
<1>1. workload.clients \subseteq Request
  BY DEF DraftsInv, ScenariosTypeOK, Workload
<1>2. IsFiniteSet(workload.clients)
  BY <1>1, ScenarioAssumption, FS_Subset
<1> QED
  BY <1>2, FS_Singleton DEF Alone

\* What the client does is all that happens.
LEMMA AloneStep ==
  ASSUME DraftsInv, AloneInv, NEW r \in workload.clients, r \in Request,
         \A q \in Request \ {r} : request'[q] = request[q],
         workload' = workload,
         Alone => DraftInHand(r)' /\ PlanInHand(r)'
  PROVE  AloneInv'
<1>1. Bystanders'
  BY DEF AloneInv, Bystanders
<1>2. ASSUME Alone, NEW q \in Request \ {r}
      PROVE  DraftInHand(q)' /\ PlanInHand(q)'
  <2>1. request'[q] = Idle
    BY <1>2, OnlyClient DEF AloneInv, Bystanders
  <2> QED
    BY <2>1, IdleOK DEF DraftInHand, PlanInHand
<1> QED
  BY <1>1, <1>2 DEF AloneInv, Alone

LEMMA AloneFinish ==
  ASSUME DraftsInv, AloneInv, NEW r \in workload.clients, r \in Request, Finish(r),
         workload' = workload
  PROVE  AloneInv'
<1>1. request'[r] = Idle /\ \A q \in Request \ {r} : request'[q] = request[q]
  BY DEF Finish, DraftsInv, ScenariosTypeOK
<1>2. DraftInHand(r)' /\ PlanInHand(r)'
  BY <1>1, IdleOK DEF DraftInHand, PlanInHand
<1> QED
  BY <1>1, <1>2, AloneStep

LEMMA AloneBegin ==
  ASSUME DraftsInv, AloneInv, NEW r \in workload.clients, r \in Request,
         NEW s \in Scenario, NEW op \in Operations, NEW body \in ChangeRow, BeginOn(r, s, op, body)
  PROVE  AloneInv'
<1>1. /\ request' = [request EXCEPT ![r] = Begun(s, op, body)]
      /\ scenario[s].status = "draft" /\ scenario' = scenario /\ workload' = workload
  BY DEF BeginOn, Begun, data
<1>2. /\ request'[r] = Begun(s, op, body)
      /\ \A q \in Request \ {r} : request'[q] = request[q]
  BY <1>1 DEF DraftsInv, ScenariosTypeOK
<1>3. DraftInHand(r)' /\ PlanInHand(r)'
  BY <1>1, <1>2, BegunFields DEF DraftInHand, PlanInHand
<1> QED
  BY <1>1, <1>2, <1>3, AloneStep

LEMMA AloneBegins ==
  ASSUME DraftsInv, AloneInv, NEW r \in workload.clients, r \in Request, NEW s \in Scenario,
         \/ BeginRename(r, s) \/ BeginDiscard(r, s) \/ BeginAdd(r, s) \/ BeginEdit(r, s)
         \/ BeginRemove(r, s) \/ BeginPreview(r, s) \/ BeginAccept(r, s)
  PROVE  AloneInv'
<1>1. NoChange \in ChangeRow
  BY DEF NoChange, ChangeRow
<1>2. CASE \E op \in {"rename", "discard", "remove", "preview", "accept"} : BeginOn(r, s, op, NoChange)
  BY <1>1, <1>2, AloneBegin DEF Operations
<1>3. CASE BeginAdd(r, s)
  <2>1. PICK t \in Task, to \in Proposed, op \in {"create", "update", "delete"} :
          BeginOn(r, s, "add",
            [NoChange EXCEPT !.scenario = s, !.target = t, !.op = op, !.revision = 1,
                             !.to = IF op = "delete" THEN Null ELSE to])
    BY <1>3 DEF BeginAdd
  <2>2. [NoChange EXCEPT !.scenario = s, !.target = t, !.op = op, !.revision = 1,
                         !.to = IF op = "delete" THEN Null ELSE to] \in ChangeRow
    BY ScenarioAssumption DEF NoChange, ChangeRow
  <2> QED
    BY <2>1, <2>2, AloneBegin DEF Operations
<1>4. CASE BeginEdit(r, s)
  <2>1. PICK to \in Proposed : BeginOn(r, s, "edit", [NoChange EXCEPT !.to = to])
    BY <1>4 DEF BeginEdit
  <2>2. [NoChange EXCEPT !.to = to] \in ChangeRow
    BY ScenarioAssumption DEF NoChange, ChangeRow
  <2> QED
    BY <2>1, <2>2, AloneBegin DEF Operations
<1> QED
  BY <1>2, <1>3, <1>4 DEF BeginRename, BeginDiscard, BeginRemove, BeginPreview, BeginAccept

\* A step that keeps the draft it holds, with the tables as they are.
LEMMA AloneOwn ==
  ASSUME DraftsInv, AloneInv, NEW r \in workload.clients, r \in Request,
         request[r].phase # "idle", UNCHANGED data,
         \A q \in Request \ {r} : request'[q] = request[q],
         request'[r].scenario = request[r].scenario, request'[r].seen = request[r].seen,
         Alone => PlanInHand(r)'
  PROVE  AloneInv'
<1>1. scenario' = scenario /\ workload' = workload
  BY DEF data
<1>2. Alone => DraftInHand(r)'
  BY <1>1 DEF AloneInv, DraftInHand
<1> QED
  BY <1>1, <1>2, AloneStep

LEMMA AloneEdits ==
  ASSUME DraftsInv, AloneInv, NEW r \in workload.clients, r \in Request,
         CheckAdd(r) \/ LoadChange(r)
  PROVE  AloneInv'
<1>0. CASE Reject(r)
  BY <1>0, AloneFinish DEF Reject, data
<1>1. CASE ~Reject(r)
  <2>1. /\ \A q \in Request \ {r} : request'[q] = request[q]
        /\ request'[r].scenario = request[r].scenario /\ request'[r].seen = request[r].seen
        /\ request'[r].op = request[r].op /\ request[r].op \in {"add", "edit", "remove"}
        /\ UNCHANGED data /\ request[r].phase # "idle"
    <3>1. CASE CheckAdd(r)
      <4>1. /\ request' = [request EXCEPT ![r].phase = "write",
                 ![r].body.expected = IF request[r].body.op = "create" THEN 0
                                      ELSE life[request[r].body.target].revision]
            /\ UNCHANGED data /\ request[r].op = "add" /\ request[r].phase = "draft"
        BY <1>1, <3>1 DEF CheckAdd
      <4> QED
        BY <4>1 DEF DraftsInv, ScenariosTypeOK, RequestRecord
    <3>2. CASE LoadChange(r)
      <4>0. PICK c \in Of(change, request[r].scenario) : \E body :
              request' = [request EXCEPT ![r].phase = "write", ![r].first = c, ![r].body = body]
        BY <3>2 DEF LoadChange
      <4>1. PICK body :
              request' = [request EXCEPT ![r].phase = "write", ![r].first = c, ![r].body = body]
        BY <4>0
      <4>2. UNCHANGED data /\ request[r].op \in {"edit", "remove"} /\ request[r].phase = "draft"
        BY <3>2 DEF LoadChange
      <4> QED
        BY <4>1, <4>2 DEF DraftsInv, ScenariosTypeOK, RequestRecord
    <3> QED
      BY <3>1, <3>2
  <2>2. PlanInHand(r)'
    BY <2>1 DEF PlanInHand
  <2> QED
    BY <2>1, <2>2, AloneOwn
<1> QED
  BY <1>0, <1>1

LEMMA AloneLists ==
  ASSUME DraftsInv, AloneInv, NEW r \in workload.clients, r \in Request,
         ListChanges(r) \/ ListAgain(r)
  PROVE  AloneInv'
<1> DEFINE s == request[r].scenario
<1>1. /\ \A q \in Request \ {r} : request'[q] = request[q]
      /\ request'[r].scenario = s /\ request'[r].seen = request[r].seen
      /\ request'[r].op = request[r].op /\ request'[r].approved = request[r].approved
      /\ request'[r].changes = Listed(s)
      /\ UNCHANGED data /\ request[r].phase # "idle"
      /\ \/ request[r].phase = "draft" /\ request'[r].phase = "plan"
         \/ request[r].phase = "reviewed" /\ request'[r].phase = "applying"
  BY DEF ListChanges, ListAgain, DraftsInv, ScenariosTypeOK, RequestRecord
<1>2. UNCHANGED <<life, change>>
  BY <1>1 DEF data
<1>3. Listed(s)' = Listed(s)
  BY <1>1, <1>2 DEF Listed
<1>4. ASSUME Alone, request[r].op = "accept", request[r].phase = "reviewed"
      PROVE  /\ Plan(r)' = {step[1] : step \in request'[r].approved.steps}
             /\ \A row \in Plan(r)' : AsPlanned(row)'
  <2>1. /\ request[r].changes = Listed(s)
        /\ Plan(r) = {step[1] : step \in request[r].approved.steps}
        /\ \A row \in Plan(r) : AsPlanned(row)
    BY <1>4 DEF AloneInv, PlanInHand
  <2>2. Plan(r)' = Plan(r)
    BY <1>1, <2>1 DEF Plan
  <2> QED
    BY <1>1, <1>2, <2>1, <2>2 DEF AsPlanned, Live
<1>5. Alone => PlanInHand(r)'
  BY <1>1, <1>3, <1>4 DEF PlanInHand
<1> QED
  BY <1>1, <1>5, AloneOwn

\* The fingerprint is compared: the plan in hand is the one that was shown.
LEMMA AloneChecks ==
  ASSUME DraftsInv, AloneInv, NEW r \in workload.clients, r \in Request, CheckAccept(r)
  PROVE  AloneInv'
<1>1. CASE /\ Preview(r).stale = {} /\ Approved(r)
           /\ request' = [request EXCEPT ![r].phase = "reviewed"] /\ UNCHANGED data
  <2>1. /\ \A q \in Request \ {r} : request'[q] = request[q]
        /\ request'[r].scenario = request[r].scenario /\ request'[r].seen = request[r].seen
        /\ request'[r].approved = request[r].approved /\ request'[r].changes = request[r].changes
        /\ request[r].phase = "plan" /\ request'[r].phase = "reviewed" /\ request[r].op = "accept"
    BY <1>1 DEF CheckAccept, DraftsInv, ScenariosTypeOK, RequestRecord
  <2>2. UNCHANGED <<life, change>>
    BY <1>1 DEF data
  <2>3. Plan(r)' = Plan(r) /\ Listed(request[r].scenario)' = Listed(request[r].scenario)
    BY <2>1, <2>2 DEF Plan, Listed
  <2>4. Plan(r) = {step[1] : step \in request[r].approved.steps}
    <3> DEFINE stepOf(row) == <<row, IF Live(row.target) THEN life[row.target].status ELSE Null>>
    <3>1. request[r].approved.steps = {stepOf(row) : row \in Plan(r)}
      BY <1>1 DEF Approved, Preview
    <3>2. \A row \in Plan(r) : stepOf(row)[1] = row
      OBVIOUS
    <3> HIDE DEF stepOf
    <3> QED
      BY <3>1, <3>2
  <2>5. \A row \in Plan(r) : AsPlanned(row)
    <3>1. \A row \in Plan(r) : ~Stale(row)
      BY <1>1 DEF Preview
    <3> QED
      BY <3>1 DEF Stale, AsPlanned
  <2>6. Alone => PlanInHand(r)'
    <3>1. \A row \in Plan(r) : AsPlanned(row)'
      BY <2>2, <2>5 DEF AsPlanned, Live
    <3>2. Alone => request[r].changes = Listed(request[r].scenario)
      BY <2>1 DEF AloneInv, PlanInHand
    <3> QED
      BY <2>1, <2>3, <2>4, <3>1, <3>2 DEF PlanInHand
  <2> QED
    BY <1>1, <2>1, <2>6, AloneOwn
<1>2. CASE Reject(r)
  BY <1>2, AloneFinish DEF Reject, data
<1> QED
  BY <1>1, <1>2 DEF CheckAccept

LEMMA AloneLoads ==
  ASSUME DraftsInv, AloneInv, NEW r \in workload.clients, r \in Request, LoadFirst(r)
  PROVE  AloneInv'
<1>1. CASE Reject(r)
  BY <1>1, AloneFinish DEF Reject, data
<1>2. CASE ~Reject(r)
  <2>1. /\ \A q \in Request \ {r} : request'[q] = request[q]
        /\ request'[r].scenario = request[r].scenario /\ request'[r].seen = request[r].seen
        /\ request'[r].approved = request[r].approved /\ request'[r].changes = request[r].changes
        /\ request[r].phase = "applying" /\ request'[r].phase = "write"
        /\ request'[r].op = request[r].op /\ UNCHANGED data
    <3>1. CASE /\ request' = [request EXCEPT ![r].phase = "write"] /\ UNCHANGED data
      BY <3>1 DEF LoadFirst, DraftsInv, ScenariosTypeOK, RequestRecord
    <3>2. ASSUME NEW c \in Listing(r), NEW row, UNCHANGED data,
                 request' = [request EXCEPT ![r].phase = "write", ![r].first = c, ![r].row = row]
          PROVE  <2>1!:
      BY <3>2 DEF LoadFirst, DraftsInv, ScenariosTypeOK, RequestRecord
    <3>3. CASE Listing(r) = {}
      BY <3>1, <3>3 DEF LoadFirst
    <3>4. CASE Listing(r) # {}
      BY <1>2, <3>2, <3>4 DEF LoadFirst
    <3> QED
      BY <3>3, <3>4
  <2>2. UNCHANGED <<life, change>>
    BY <2>1 DEF data
  <2>3. Plan(r)' = Plan(r) /\ Listed(request[r].scenario)' = Listed(request[r].scenario)
    BY <2>1, <2>2 DEF Plan, Listed
  <2>4. \A row : AsPlanned(row)' <=> AsPlanned(row)
    BY <2>2 DEF AsPlanned, Live
  <2>5. Alone => PlanInHand(r)'
    BY <2>1, <2>3, <2>4 DEF AloneInv, PlanInHand
  <2> QED
    BY <2>1, <2>5, AloneOwn
<1> QED
  BY <1>1, <1>2

LEMMA AloneIdle ==
  ASSUME DraftsInv, AloneInv, NEW r \in workload.clients, r \in Request,
         request[r].phase = "idle", UNCHANGED <<request, workload>>
  PROVE  AloneInv'
BY AloneStep DEF DraftInHand, PlanInHand

LEMMA AloneCommits ==
  ASSUME DraftsInv, AloneInv, NEW r \in workload.clients, r \in Request,
         \/ CommitRename(r) \/ CommitDiscard(r) \/ CommitAdd(r) \/ CommitEdit(r)
         \/ CommitRemove(r) \/ ShowPreview(r) \/ CommitAccept(r)
  PROVE  AloneInv'
<1>1. Finish(r) /\ workload' = workload
  BY DEF CommitRename, CommitDiscard, CommitAdd, CommitEdit, CommitRemove, ShowPreview,
         CommitAccept, Reject, data
<1> QED
  BY <1>1, AloneFinish

LEMMA AloneNext ==
  ASSUME DraftsInv, AloneInv, [ScenariosNext]_scenarioVars
  PROVE  AloneInv'
<1>1. CASE UNCHANGED scenarioVars
  <2>1. UNCHANGED <<life, scenario, change, review, request, workload>>
    BY <1>1 DEF scenarioVars
  <2>2. Bystanders' /\ Alone' = Alone
    BY <2>1 DEF AloneInv, Bystanders, Alone
  <2>3. /\ \A row : AsPlanned(row)' <=> AsPlanned(row)
        /\ \A s : Listed(s)' = Listed(s)
    BY <2>1 DEF AsPlanned, Live, Listed
  <2>4. ASSUME NEW r \in Request, DraftInHand(r), PlanInHand(r)
        PROVE  DraftInHand(r)' /\ PlanInHand(r)'
    <3>1. Plan(r)' = Plan(r)
      BY <2>1 DEF Plan
    <3> QED
      BY <2>1, <2>3, <2>4, <3>1 DEF DraftInHand, PlanInHand
  <2> QED
    BY <2>2, <2>4 DEF AloneInv
<1>2. ASSUME NEW r \in workload.clients, r \in Request, ServeTask(r)
      PROVE  AloneInv'
  BY <1>2, AloneIdle DEF ServeTask
<1>3. ASSUME NEW r \in workload.clients, r \in Request, Serve(r)
      PROVE  AloneInv'
  <2>1. CASE \E s \in Scenario : CreateScenario(r, s)
    BY <1>3, <2>1, AloneIdle DEF CreateScenario
  <2> QED
    BY <1>3, <2>1, AloneBegins, AloneEdits, AloneLists, AloneChecks, AloneLoads, AloneCommits
       DEF Serve
<1>4. workload.clients \subseteq Request
  BY DEF DraftsInv, ScenariosTypeOK, Workload
<1> QED
  BY <1>1, <1>2, <1>3, <1>4 DEF ScenariosNext

LEMMA ScenariosInvariance == ScenariosSpec => []ScenariosInv
<1>1. ScenariosInit => ScenariosInv
  <2> SUFFICES ASSUME ScenariosInit PROVE ScenariosInv
    OBVIOUS
  <2>1. /\ life = [t \in Task |-> NoRow]
        /\ scenario = [s \in Scenario |-> NoScenario] /\ change = [c \in Change |-> NoChange]
        /\ review = [s \in Scenario |-> NoReview] /\ request = [r \in Request |-> Idle]
        /\ workload \in Workloads
    BY DEF ScenariosInit, LifeInit, NoRow
  <2>2. NoChange \in ChangeRow /\ NoChange.scenario = Null
    BY DEF NoChange, ChangeRow
  <2>3. NoScenario \in ScenarioRow /\ NoReview \in Fingerprint
    BY DEF NoScenario, ScenarioRow, NoReview, Fingerprint
  <2>4. NoRow \in Row /\ NoRow.state = "absent"
    BY DEF NoRow, Row, Status
  <2>5. ChangesWellFormed /\ ChangesOK
    BY <2>1, <2>2, Nulls DEF ChangesWellFormed, ChangesOK, OneEach, Of
  <2>6. ScenariosTypeOK
    BY <2>1, <2>2, <2>3, <2>4, <2>5, IdleOK, ScenarioAssumption DEF ScenariosTypeOK
  <2>7. /\ LifeOK /\ HoldsChange /\ AloneInv
        /\ \A r \in Request : Sound(request[r])
    BY <2>1, <2>4, IdleOK DEF LifeOK, HoldsChange, AloneInv, Bystanders, DraftInHand, PlanInHand
  <2> QED
    BY <2>5, <2>6, <2>7 DEF ScenariosInv, DraftsInv
<1>2. ScenariosInv /\ [ScenariosNext]_scenarioVars => ScenariosInv'
  BY DraftsNext, AloneNext DEF ScenariosInv
<1> QED
  BY <1>1, <1>2, PTL DEF ScenariosSpec

\* Drafts, changes, reviews and what requests hold of them are well typed,
\* and a draft holds one change per record at any time, although the check
\* for it and the insert are apart.
THEOREM ScenariosTypes == ScenariosSpec => []ScenariosTypeOK
<1>1. ScenariosInv => ScenariosTypeOK
  BY DEF ScenariosInv, DraftsInv
<1> QED
  BY <1>1, ScenariosInvariance, PTL

-----------------------------------------------------------------------------
(* Acceptance is all or nothing. *)

\* Nobody touches what another request holds.
LEMMA OthersKept ==
  ASSUME DraftsInv, NEW q \in Request, ServeTask(q) \/ Serve(q), NEW r \in Request \ {q}
  PROVE  request'[r] = request[r]
<1>1. \/ request' = request
      \/ \E next : request' = [request EXCEPT ![q] = next]
  BY DEF ServeTask, Serve, CreateScenario, BeginRename, BeginDiscard, BeginAdd, BeginEdit, BeginRemove,
         BeginPreview, BeginAccept, BeginOn, CommitRename, CommitDiscard, CheckAdd, CommitAdd, LoadChange,
         CommitEdit, CommitRemove, ListChanges, ShowPreview, CheckAccept, ListAgain, LoadFirst,
         CommitAccept, Reject, Finish
<1> QED
  BY <1>1 DEF DraftsInv, ScenariosTypeOK

\* A request about to accept takes no step but CommitAccept.
LEMMA OnlyAccepts ==
  ASSUME NEW r \in Request, request[r].phase = "write", request[r].op = "accept",
         ServeTask(r) \/ Serve(r)
  PROVE  CommitAccept(r) \/ request' = request
BY DEF ServeTask, Serve, CreateScenario, BeginRename, BeginDiscard, BeginAdd, BeginEdit, BeginRemove,
       BeginPreview, BeginAccept, BeginOn, CommitRename, CommitDiscard, CheckAdd, CommitAdd, LoadChange,
       CommitEdit, CommitRemove, ListChanges, ShowPreview, CheckAccept, ListAgain, LoadFirst

AllOrNothing(r) ==
  \/ /\ \A c \in Listing(r) :
          LET row == request[r].changes[c]
          IN  Performed(row) \/ (c = request[r].first /\ life[row.target] # request[r].row)
     /\ scenario'[request[r].scenario].status = "accepted"
  \/ life' = life /\ scenario' = scenario

LEMMA AcceptIsWhole ==
  ASSUME DraftsInv, NEW r \in Request, CommitAccept(r)
  PROVE  AllOrNothing(r)
<1>1. request[r].op = "accept" /\ request[r].phase = "write" /\ request[r].scenario \in Scenario
  BY DEF CommitAccept, DraftsInv, Sound
<1>2. CASE AcceptsAll(r)
  <2>1. scenario'[request[r].scenario].status = "accepted"
    BY <1>1, <1>2 DEF AcceptsAll, DraftsInv, ScenariosTypeOK
  <2>2. ASSUME NEW c \in Listing(r)
        PROVE  LET row == request[r].changes[c]
               IN  Performed(row) \/ (c = request[r].first /\ life[row.target] # request[r].row)
    <3> DEFINE row == request[r].changes[c]
    <3>1. /\ life'[row.target] = Applied(r, c)
          /\ row.op = "create" => life[row.target].state = "absent"
      BY <1>2 DEF AcceptsAll, Applicable
    <3>2. /\ row.op \in {"create", "update", "delete"}
          /\ row.op = "create" => Applied(r, c).status = row.to
          /\ row.op = "update" =>
               \/ Applied(r, c).status = row.to
               \/ c = request[r].first /\ life[row.target] # request[r].row
          /\ row.op = "delete" => Applied(r, c).state = "deleted"
      BY <1>1, AppliedOK
    <3> QED
      BY <3>1, <3>2 DEF Performed
  <2> QED
    BY <2>1, <2>2 DEF AllOrNothing
<1>3. CASE Reject(r)
  BY <1>3 DEF Reject, data, AllOrNothing
<1> QED
  BY <1>2, <1>3, AcceptEffect

\* Whatever overlaps, an acceptance performs every change it lists and marks
\* the scenario accepted, or it does nothing; only a record that changed
\* between being loaded first and the lock may keep its status.
THEOREM AcceptanceTheorem == ScenariosSpec => AcceptAllOrNothing
<1> DEFINE Whole ==
      \A r \in Request :
        (request[r].phase = "write" /\ request[r].op = "accept" /\ request'[r].phase = "idle") =>
          AllOrNothing(r)
<1>1. ScenariosInv /\ [ScenariosNext]_scenarioVars => [Whole]_scenarioVars
  <2> SUFFICES ASSUME ScenariosInv, ScenariosNext PROVE Whole
    OBVIOUS
  <2>1. DraftsInv /\ workload.clients \subseteq Request
    BY DEF ScenariosInv, DraftsInv, ScenariosTypeOK, Workload
  <2>2. PICK q \in Request : ServeTask(q) \/ Serve(q)
    BY <2>1 DEF ScenariosNext
  <2>3. ASSUME NEW r \in Request, request[r].phase = "write", request[r].op = "accept",
               request'[r].phase = "idle"
        PROVE  AllOrNothing(r)
    <3>1. q = r
      BY <2>1, <2>2, <2>3, OthersKept
    <3>2. CommitAccept(r)
      BY <2>2, <2>3, <3>1, OnlyAccepts
    <3> QED
      BY <2>1, <3>2, AcceptIsWhole
  <2> QED
    BY <2>3
<1>2. AcceptAllOrNothing <=> [][Whole]_scenarioVars
  BY DEF AcceptAllOrNothing, AllOrNothing
<1> QED
  BY <1>1, <1>2, ScenariosInvariance, PTL DEF ScenariosSpec

-----------------------------------------------------------------------------
(* One client alone: drafts settle once, and plans are applied as reviewed. *)

LEMMA OneDraft ==
  ASSUME DraftsInv, NEW r \in Request, DraftInHand(r), request[r].phase # "idle",
         \A z \in Scenario : z # request[r].scenario => scenario'[z] = scenario[z],
         scenario'[request[r].scenario].revision = request[r].seen.revision + 1,
         \A c \in Change : change'[c] # change[c] =>
           {change[c].scenario, change'[c].scenario} \subseteq {Null, request[r].scenario}
  PROVE  Settled /\ RevisionMoves
<1> DEFINE s == request[r].scenario
<1>1. s \in Scenario /\ scenario[s].status = "draft" /\ scenario[s].revision = request[r].seen.revision
      /\ scenario[s].revision \in Nat
  BY DEF DraftInHand, DraftsInv, Sound, ScenariosTypeOK, ScenarioRow
<1>2. Settled
  BY <1>1, Nulls DEF Settled
<1>3. RevisionMoves
  BY <1>1, Nulls DEF RevisionMoves
<1> QED
  BY <1>2, <1>3

LEMMA QuietSettles ==
  ASSUME UNCHANGED <<scenario, change>>
  PROVE  Settled /\ RevisionMoves
BY DEF Settled, RevisionMoves

LEMMA BumpFields ==
  ASSUME DraftsInv, NEW r \in Request, request[r].phase # "idle", Bump(r)
  PROVE  /\ \A z \in Scenario : z # request[r].scenario => scenario'[z] = scenario[z]
         /\ scenario'[request[r].scenario].revision = request[r].seen.revision + 1
<1>1. request[r].scenario \in Scenario /\ scenario[request[r].scenario] \in ScenarioRow
  BY DEF DraftsInv, Sound, ScenariosTypeOK
<1> QED
  BY <1>1 DEF Bump, DraftsInv, ScenariosTypeOK, ScenarioRow

LEMMA DraftSettles ==
  ASSUME DraftsInv, NEW r \in Request, DraftInHand(r), ServeTask(r) \/ Serve(r)
  PROVE  Settled /\ RevisionMoves
<1>1. CASE UNCHANGED <<scenario, change>>
  BY <1>1, QuietSettles
<1>2. CASE \E s \in Scenario : CreateScenario(r, s)
  <2>1. PICK s \in Scenario : CreateScenario(r, s)
    BY <1>2
  <2>2. /\ change' = change /\ scenario[s].status = "absent"
        /\ \A z \in Scenario : z # s => scenario'[z] = scenario[z]
    BY <2>1 DEF CreateScenario, DraftsInv, ScenariosTypeOK
  <2> QED
    BY <2>2 DEF Settled, RevisionMoves
<1>3. CASE CommitRename(r)
  <2>1. Bump(r) /\ change' = change /\ request[r].phase # "idle"
    BY <1>3 DEF CommitRename
  <2> QED
    BY <2>1, BumpFields, OneDraft
<1>4. CASE CommitDiscard(r) \/ (AcceptsAll(r) /\ CommitAccept(r))
  <2>1. /\ change' = change /\ request[r].phase # "idle" /\ request[r].scenario \in Scenario
        /\ \A z \in Scenario : z # request[r].scenario => scenario'[z] = scenario[z]
        /\ scenario'[request[r].scenario].revision = request[r].seen.revision + 1
    BY <1>4 DEF CommitDiscard, CommitAccept, AcceptsAll, DraftsInv, Sound, ScenariosTypeOK
  <2> QED
    BY <2>1, OneDraft
<1>5. CASE CommitAdd(r) /\ ~Reject(r)
  <2>1. /\ Bump(r) /\ request[r].phase = "write" /\ request[r].op = "add"
        /\ \E c \in Change : /\ change[c] = NoChange
                            /\ change' = [change EXCEPT ![c] = request[r].body]
    BY <1>5 DEF CommitAdd, Unused
  <2>2. request[r].body.scenario = request[r].scenario /\ NoChange.scenario = Null
    BY <2>1 DEF DraftsInv, Sound, Proper, NoChange
  <2> QED
    BY <2>1, <2>2, BumpFields, OneDraft DEF DraftsInv, ScenariosTypeOK
<1>6. CASE CommitEdit(r) /\ ~Reject(r)
  <2>1. /\ Bump(r) /\ request[r].phase = "write" /\ request[r].op = "edit"
        /\ change[request[r].first].scenario # Null
        /\ change' = [change EXCEPT ![request[r].first] = request[r].body]
    BY <1>6 DEF CommitEdit
  <2>2. /\ request[r].body.scenario = request[r].scenario
        /\ change[request[r].first].scenario = request[r].scenario
    BY <2>1 DEF DraftsInv, Sound, Proper, HoldsChange
  <2> QED
    BY <2>1, <2>2, BumpFields, OneDraft DEF DraftsInv, ScenariosTypeOK
<1>7. CASE CommitRemove(r)
  <2>1. /\ Bump(r) /\ request[r].phase = "write" /\ request[r].op = "remove"
        /\ change' = [change EXCEPT ![request[r].first] = NoChange]
    BY <1>7 DEF CommitRemove
  <2>2. /\ change[request[r].first].scenario \in {Null, request[r].scenario}
        /\ NoChange.scenario = Null
    BY <2>1 DEF DraftsInv, Sound, Proper, HoldsChange, NoChange
  <2> QED
    BY <2>1, <2>2, BumpFields, OneDraft DEF DraftsInv, ScenariosTypeOK
<1>8. \/ UNCHANGED <<scenario, change>>
      \/ \E s \in Scenario : CreateScenario(r, s)
      \/ CommitRename(r) \/ CommitDiscard(r) \/ CommitAdd(r) \/ CommitEdit(r) \/ CommitRemove(r)
      \/ CommitAccept(r)
  BY DEF ServeTask, Serve, BeginRename, BeginDiscard, BeginAdd, BeginEdit, BeginRemove, BeginPreview,
         BeginAccept, BeginOn, CheckAdd, LoadChange, ListChanges, ShowPreview, CheckAccept, ListAgain,
         LoadFirst, Reject, data
<1>9. Reject(r) => UNCHANGED <<scenario, change>>
  BY DEF Reject, data
<1>10. CommitAccept(r) => AcceptsAll(r) \/ Reject(r)
  BY AcceptEffect
<1>11. CASE CommitAdd(r)
  BY <1>1, <1>5, <1>9, <1>11
<1>12. CASE CommitEdit(r)
  BY <1>1, <1>6, <1>9, <1>12
<1>13. CASE CommitAccept(r)
  BY <1>1, <1>4, <1>9, <1>10, <1>13
<1> QED
  BY <1>1, <1>2, <1>3, <1>4, <1>7, <1>8, <1>11, <1>12, <1>13

\* While one client works alone, accepted and discarded scenarios stay as
\* they are, and no draft's list changes under an unchanged revision.
THEOREM SettlementTheorem == ScenariosSpec => DraftsSettleOnce
<1>1. ScenariosInv /\ [ScenariosNext]_scenarioVars => [Alone => Settled /\ RevisionMoves]_scenarioVars
  <2> SUFFICES ASSUME ScenariosInv, ScenariosNext, Alone PROVE Settled /\ RevisionMoves
    OBVIOUS
  <2>1. DraftsInv /\ workload.clients \subseteq Request
    BY DEF ScenariosInv, DraftsInv, ScenariosTypeOK, Workload
  <2>2. PICK r \in Request : ServeTask(r) \/ Serve(r)
    BY <2>1 DEF ScenariosNext
  <2>3. DraftInHand(r)
    BY DEF ScenariosInv, AloneInv
  <2> QED
    BY <2>1, <2>2, <2>3, DraftSettles
<1> QED
  BY <1>1, ScenariosInvariance, PTL DEF ScenariosSpec, DraftsSettleOnce

\* While one client works alone, an acceptance applies exactly the changes
\* of the preview whose fingerprint it was sent, to records as that preview
\* found them.
THEOREM ReviewTheorem == ScenariosSpec => PlanAppliedAsReviewed
<1>1. ScenariosInv /\ [ScenariosNext]_scenarioVars => [Alone => PlanApplied]_scenarioVars
  <2> SUFFICES ASSUME ScenariosInv, Alone, NEW r \in Accepting
               PROVE  /\ {request[r].changes[c] : c \in Listing(r)} =
                            {step[1] : step \in request[r].approved.steps}
                      /\ \A c \in Listing(r) : AsPlanned(request[r].changes[c])
    BY DEF PlanApplied
  <2>1. r \in Request /\ request[r].phase = "write" /\ request[r].op = "accept"
    BY DEF Accepting
  <2>2. /\ Plan(r) = {step[1] : step \in request[r].approved.steps}
        /\ \A row \in Plan(r) : AsPlanned(row)
    BY <2>1 DEF ScenariosInv, AloneInv, PlanInHand
  <2>3. Plan(r) = {request[r].changes[c] : c \in Listing(r)}
    BY DEF Plan, Listing
  <2> QED
    BY <2>2, <2>3
<1> QED
  BY <1>1, ScenariosInvariance, PTL DEF ScenariosSpec, PlanAppliedAsReviewed
=============================================================================
