-------------------------- MODULE AutomationProofs --------------------------
(***************************************************************************)
(* Proofs about Automation for any set of rules, requests, events and      *)
(* triggers, and any bounds: types, one action per logged success, the     *)
(* jobs that follow the rules, and starts that make up for missed runs.    *)
(***************************************************************************)
EXTENDS Automation, TLAPS

-----------------------------------------------------------------------------
(* Facts about the helpers. *)

LEMMA RowTypes ==
  /\ NoRow \in Row
  /\ Idle \in ProcessRecord
  /\ Idle.at = "idle" /\ Idle.now \in Minute /\ Idle.todo = {}
BY AutomationAssumption
DEF NoRow, Row, Idle, ProcessRecord, Steps, Minute

\* The next run of an event rule is none; any other is after now.
LEMMA NextRunType ==
  ASSUME NEW t \in Trigger, NEW now \in Nat
  PROVE  /\ NextRun(t, now) \in Nat \cup {Null}
         /\ Recurring(t) => NextRun(t, now) \in Nat
<1>1. t.kind \in Kinds /\ t.every \in Nat \ {0}
  BY AutomationAssumption
<1>2. \A n \in Nat, e \in Nat \ {0} : n \div e \in Nat
  OBVIOUS
<1>3. \A m, e \in Nat : m * e \in Nat
  OBVIOUS
<1>4. (now \div t.every + 1) * t.every \in Nat
  BY <1>1, <1>2, <1>3
<1>5. now + t.every \in Nat
  BY <1>1
<1> QED
  BY <1>1, <1>4, <1>5 DEF NextRun, Kinds, Recurring

LEMMA FiresAtType ==
  ASSUME NEW t \in Trigger, Recurring(t), NEW due \in Nat, clock \in Minute
  PROVE  FiresAt(t, due) \in Nat
<1>1. t.kind \in Kinds /\ t.every \in Nat \ {0} /\ clock \in Nat
  BY AutomationAssumption DEF Minute
<1>2. \A n \in Nat, e \in Nat \ {0} : n \div e \in Nat
  OBVIOUS
<1>3. \A m, e \in Nat : m * e \in Nat
  OBVIOUS
<1>4. CASE t.kind = "daily"
  BY <1>1, <1>4, NextRunType DEF FiresAt
<1>5. CASE t.kind # "daily" /\ due > clock
  BY <1>5 DEF FiresAt
<1>6. CASE t.kind # "daily" /\ ~(due > clock)
  <2>1. clock - due \in Nat
    BY <1>1, <1>6
  <2>2. (clock - due) \div t.every + 1 \in Nat
    BY <1>1, <1>2, <2>1
  <2> QED
    BY <1>1, <1>3, <1>6, <2>2 DEF FiresAt
<1> QED
  BY <1>4, <1>5, <1>6

\* What Become does to the record of its process and to all others.
LEMMA BecomeFacts ==
  ASSUME process \in [Process -> ProcessRecord], NEW p \in Process,
         NEW record \in ProcessRecord, Become(p, record)
  PROVE  /\ process' \in [Process -> ProcessRecord]
         /\ process'[p] = record
         /\ \A q \in Process : q # p => process'[q] = process[q]
BY DEF Become

LEMMA GotoBecomes ==
  ASSUME process \in [Process -> ProcessRecord], NEW p \in Process,
         NEW step \in Steps, Goto(p, step)
  PROVE  LET record == [process[p] EXCEPT !.at = step]
         IN /\ record \in ProcessRecord
            /\ Become(p, record)
            /\ record.at = step /\ record.rule = process[p].rule
            /\ record.key = process[p].key /\ record.now = process[p].now
            /\ record.rows = process[p].rows /\ record.todo = process[p].todo
<1>1. process[p] \in ProcessRecord
  OBVIOUS
<1>2. [process[p] EXCEPT !.at = step] \in ProcessRecord
  BY <1>1 DEF ProcessRecord
<1>3. Become(p, [process[p] EXCEPT !.at = step])
  BY DEF Goto, Become
<1> QED
  BY <1>1, <1>2, <1>3 DEF ProcessRecord

-----------------------------------------------------------------------------
(* The inductive invariant. *)

\* A process that is reconciling: a request between "next" and "schedule",
\* or the start of the application at any step.
Reconciling(p, s) == s.at \in {"next", "schedule"} \/ (p = Start /\ s.at # "idle")

\* What the record of a process holds at each of its steps: the rule and the
\* key an execution is about, a trigger where one is used.
Placed(p, s) ==
  /\ s.at \in {"find", "act", "fail", "schedule", "update"} => s.rule \in Rule
  /\ s.at \in {"find", "act", "fail", "dispatch"} => s.key \in Source
  /\ s.at \in {"update", "schedule"} => s.rows[s.rule].trigger \in Trigger
  /\ p = Start /\ s.at \in {"find", "act", "fail"} => s.rows[s.rule].trigger \in Trigger
  /\ p \in Rule /\ s.at \in {"find", "act", "fail", "advance"} => s.rows[p].trigger \in Trigger
  /\ Reconciling(p, s) => \A r \in s.todo : s.rows[r].trigger \in Trigger
  /\ p \in Rule => s.at \in {"idle", "load", "find", "act", "fail", "advance"}
  /\ p = Start => s.at \in {"idle", "next", "find", "act", "fail", "schedule"}
  /\ p \in Client =>
       s.at \in {"idle", "update", "sync", "next", "schedule", "dispatch", "find", "act", "fail"}

\* A row that was ever inserted has a trigger, and so have those listed by
\* a process that is reconciling.
Triggers ==
  /\ \A r \in Rule : rule[r].state # "none" => rule[r].trigger \in Trigger
  /\ \A p \in Process :
       Reconciling(p, process[p]) => \A r \in process[p].todo : rule[r].trigger \in Trigger

\* The jobs are recurring ones.
Jobs == \A r \in Rule : job[r] # Null => Recurring(job[r].trigger)

\* _scheduler_lock is held by exactly the process that is reconciling; while
\* the scheduler is not running only the start of the application is.
Locked ==
  /\ \A p \in Process : Reconciling(p, process[p]) => lock = p
  /\ lock # Null => lock \in Client \cup {Start}
  /\ lock \in Client => process[lock].at \in {"next", "schedule"}
  /\ scheduler = "running" => lock # Start
  /\ scheduler # "running" => \A p \in Process : p # Start => process[p].at = "idle"
  /\ scheduler = "down" => lock = Null

TypeInv ==
  /\ AutomationTypeOK
  /\ \A p \in Process : Placed(p, process[p])
  /\ Triggers
  /\ Jobs
  /\ Locked

Settled == \A c \in Client : process[c].at # "sync"

\* The rules a reconciling process has still to schedule.
Pending(s) == s.todo \cup (IF s.at = "next" THEN {} ELSE {s.rule})

\* The job of a rule is what JobsFollowRules asks for.
Follows(r) ==
  IF r \in Desired THEN job[r] # Null /\ job[r].trigger = rule[r].trigger
  ELSE job[r] = Null

\* While no request waits to synchronize, no rule has changed since the
\* reconciliation under way has listed them, so a rule that is not pending
\* has its job and one that is is known by its present trigger.
JobsInv ==
  Settled =>
    /\ scheduler = "running" /\ lock = Null => \A r \in Rule : Follows(r)
    /\ \A p \in Process : Reconciling(p, process[p]) =>
         \A r \in Rule :
           /\ r \in Pending(process[p]) =>
                r \in Desired /\ process[p].rows[r].trigger = rule[r].trigger
           /\ r \notin Pending(process[p]) => Follows(r)

\* The start of the application knows the pending rows as they are, and has
\* logged the due run of the one it is about to schedule.
StartInv ==
  LET s == process[Start]
  IN s.at # "idle" =>
       /\ scheduler = "starting"
       /\ \A r \in Pending(s) : s.rows[r] = rule[r]
       /\ s.at # "next" => s.rule \notin s.todo
       /\ s.at \in {"find", "act", "fail"} => s.key = s.rows[s.rule].next
       /\ s.at = "schedule" /\ Overdue(s.rows[s.rule], s.now) =>
            log[<<s.rule, s.rows[s.rule].next>>] # "none"

\* The parts of TypeInv a step of one process preserves by leaving the
\* others alone.
LEMMA StepOfOne ==
  ASSUME TypeInv, NEW p \in Process, NEW record \in ProcessRecord, Become(p, record),
         Placed(p, record),
         rule' \in [Rule -> Row],
         \A r \in Rule : rule[r].trigger \in Trigger => rule'[r].trigger \in Trigger,
         \A r \in Rule : rule'[r].state # "none" => rule'[r].trigger \in Trigger,
         Reconciling(p, record) => \A r \in record.todo : rule'[r].trigger \in Trigger
  PROVE  /\ process' \in [Process -> ProcessRecord]
         /\ \A q \in Process : Placed(q, process'[q])
         /\ Triggers'
<1>1. /\ process' \in [Process -> ProcessRecord]
      /\ process'[p] = record
      /\ \A q \in Process : q # p => process'[q] = process[q]
  BY BecomeFacts DEF TypeInv, AutomationTypeOK
<1>2. \A q \in Process : Placed(q, process'[q])
  BY <1>1 DEF TypeInv
<1>3. ASSUME NEW q \in Process, Reconciling(q, process'[q]), NEW r \in process'[q].todo
      PROVE  rule'[r].trigger \in Trigger
  <2>1. CASE q = p
    BY <1>1, <1>3, <2>1
  <2>2. CASE q # p
    <3>1. r \in Rule
      BY <1>3, <1>1 DEF ProcessRecord
    <3> QED
      BY <1>1, <1>3, <2>2, <3>1 DEF TypeInv, Triggers
  <2> QED
    BY <2>1, <2>2
<1> QED
  BY <1>1, <1>2, <1>3 DEF Triggers

\* The same of the lock, if it is left alone.
LEMMA LocalStep ==
  ASSUME TypeInv, NEW p \in Process, NEW record \in ProcessRecord, Become(p, record),
         lock' = lock, scheduler' = scheduler,
         Reconciling(p, record) => Reconciling(p, process[p]),
         p \in Client /\ Reconciling(p, process[p]) => Reconciling(p, record),
         p # Start /\ process[p].at = "idle" /\ record.at # "idle" => scheduler = "running"
  PROVE  Locked'
<1>1. /\ process' \in [Process -> ProcessRecord]
      /\ process'[p] = record
      /\ \A q \in Process : q # p => process'[q] = process[q]
  BY BecomeFacts DEF TypeInv, AutomationTypeOK
<1>2. Locked
  BY DEF TypeInv
<1>3. \A q \in Process : Reconciling(q, process'[q]) => lock' = q
  BY <1>1, <1>2 DEF Locked
<1>4. lock' \in Client => process'[lock'].at \in {"next", "schedule"}
  <2>1. SUFFICES ASSUME lock \in Client
                 PROVE  process'[lock].at \in {"next", "schedule"}
    OBVIOUS
  <2>2. lock # Start /\ lock \in Process
    BY <2>1, AutomationAssumption DEF Process
  <2>3. CASE lock = p
    BY <1>1, <1>2, <2>1, <2>2, <2>3 DEF Locked, Reconciling
  <2>4. CASE lock # p
    BY <1>1, <1>2, <2>1, <2>2, <2>4 DEF Locked
  <2> QED
    BY <2>3, <2>4
<1>5. scheduler' # "running" => \A q \in Process : q # Start => process'[q].at = "idle"
  BY <1>1, <1>2 DEF Locked
<1> QED
  BY <1>2, <1>3, <1>4, <1>5 DEF Locked

\* A step of one process that leaves the jobs, the lock and the clock alone.
LEMMA QuietStep ==
  ASSUME TypeInv, NEW p \in Process, NEW record \in ProcessRecord, Become(p, record),
         Placed(p, record),
         UNCHANGED <<clock, job, scheduler, lock>>,
         rule' \in [Rule -> Row],
         \A r \in Rule : rule[r].trigger \in Trigger => rule'[r].trigger \in Trigger,
         \A r \in Rule : rule'[r].state # "none" => rule'[r].trigger \in Trigger,
         log' \in [Rule \X Source -> {"none", "succeeded", "skipped", "failed"}],
         actions' \in [Rule \X Source -> Nat],
         Reconciling(p, record) => \A r \in record.todo : rule'[r].trigger \in Trigger,
         Reconciling(p, record) => Reconciling(p, process[p]),
         p \in Client /\ Reconciling(p, process[p]) => Reconciling(p, record),
         p # Start /\ process[p].at = "idle" /\ record.at # "idle" => scheduler = "running"
  PROVE  TypeInv'
<1>1. /\ process' \in [Process -> ProcessRecord]
      /\ \A q \in Process : Placed(q, process'[q])
      /\ Triggers'
  BY StepOfOne
<1>2. Locked'
  BY LocalStep
<1>3. Jobs'
  BY DEF TypeInv, Jobs
<1>4. \A q \in Process : process'[q].at = "schedule" => lock' = q
  BY <1>2 DEF Locked, Reconciling
<1>5. AutomationTypeOK'
  BY <1>1, <1>4 DEF TypeInv, AutomationTypeOK
<1> QED
  BY <1>1, <1>2, <1>3, <1>5 DEF TypeInv

\* Executions leave everything typed.
LEMMA ExecuteTypes ==
  ASSUME TypeInv, NEW p \in Process, Execute(p)
  PROVE  TypeInv'
<1> DEFINE Holds(step) ==
      /\ Placed(p, [process[p] EXCEPT !.at = step])
      /\ Reconciling(p, [process[p] EXCEPT !.at = step]) <=> Reconciling(p, process[p])
<1>1. process \in [Process -> ProcessRecord] /\ process[p] \in ProcessRecord
      /\ Placed(p, process[p]) /\ p \in Rule \cup Client \cup {Start}
  BY DEF TypeInv, AutomationTypeOK, Process
<1>2. process[p].at \in {"find", "act", "fail"}
  BY DEF Execute, Find, Act, Fail
<1>3. Entry(p) \in Rule \X Source
  BY <1>1, <1>2 DEF Entry, Placed
<1>4. Return(p) \in Steps \ {"next"}
  BY <1>1 DEF Return, Steps
<1>5. Holds("act") /\ Holds("fail") /\ Holds(Return(p))
  BY <1>1, <1>2, AutomationAssumption DEF Placed, Reconciling, Return, ProcessRecord
<1>6. \/ \E step \in Steps \ {"next"} : Goto(p, step) /\ Holds(step)
      \/ Become(p, Idle)
  BY <1>4, <1>5 DEF Execute, Find, Act, Fail, Steps
<1>7. UNCHANGED <<clock, rule, job, scheduler, lock>>
  BY DEF Execute, Find, Act, Fail, Database, Scheduler
<1>8. /\ log' \in [Rule \X Source -> {"none", "succeeded", "skipped", "failed"}]
      /\ actions' \in [Rule \X Source -> Nat]
  BY <1>3 DEF TypeInv, AutomationTypeOK, Execute, Find, Act, Fail, Database
<1>9. /\ rule' \in [Rule -> Row]
      /\ \A r \in Rule : rule'[r].state # "none" => rule'[r].trigger \in Trigger
  BY <1>7 DEF TypeInv, AutomationTypeOK, Triggers
<1>10. ASSUME NEW step \in Steps \ {"next"}, Goto(p, step), Holds(step)
       PROVE  TypeInv'
  <2> DEFINE record == [process[p] EXCEPT !.at = step]
  <2>1. /\ record \in ProcessRecord /\ Become(p, record)
        /\ record.at = step /\ record.todo = process[p].todo
    BY <1>1, <1>10, GotoBecomes
  <2>2. Placed(p, record) /\ (Reconciling(p, record) <=> Reconciling(p, process[p]))
    BY <1>10
  <2> HIDE DEF record
  <2>3. Reconciling(p, record) => \A r \in record.todo : rule'[r].trigger \in Trigger
    BY <1>1, <1>7, <2>1, <2>2 DEF TypeInv, Triggers, ProcessRecord
  <2>4. /\ \A r \in Rule : rule[r].trigger \in Trigger => rule'[r].trigger \in Trigger
        /\ p \in Client /\ Reconciling(p, process[p]) => Reconciling(p, record)
    BY <1>7, <2>2
  <2> QED
    BY <1>2, <1>7, <1>8, <1>9, <1>10, <2>1, <2>2, <2>3, <2>4, QuietStep
<1>11. CASE Become(p, Idle)
  <2>1. Placed(p, Idle)
    BY RowTypes, <1>1 DEF Placed
  <2>2. ~Reconciling(p, Idle)
    BY RowTypes DEF Reconciling
  <2>3. p \in Client => ~Reconciling(p, process[p])
    BY <1>2, AutomationAssumption DEF Reconciling
  <2> QED
    BY <1>7, <1>8, <1>9, <1>11, <2>1, <2>2, <2>3, RowTypes, QuietStep
<1> QED
  BY <1>6, <1>10, <1>11

-----------------------------------------------------------------------------
(* Requests, jobs and the walk over the rules leave everything typed. *)

\* What a step of a request or a job may rely on.
LEMMA Typed ==
  ASSUME TypeInv
  PROVE  /\ clock \in Nat /\ clock \in Minute /\ rule \in [Rule -> Row]
         /\ \A r \in Rule : rule[r].state # "none" => rule[r].trigger \in Trigger
         /\ log \in [Rule \X Source -> {"none", "succeeded", "skipped", "failed"}]
         /\ actions \in [Rule \X Source -> Nat]
         /\ process \in [Process -> ProcessRecord]
         /\ \A p \in Process : process[p] \in ProcessRecord /\ Placed(p, process[p])
BY AutomationAssumption DEF TypeInv, AutomationTypeOK, Triggers, Minute

LEMMA DispatchTypes ==
  ASSUME TypeInv, NEW c \in Client, BeginDispatch(c) \/ DispatchNext(c)
  PROVE  TypeInv'
<1>1. c \in Process /\ c # Start /\ c \notin Rule
  BY AutomationAssumption DEF Process
<1>2. UNCHANGED <<clock, rule, log, actions, job, scheduler, lock>>
  BY DEF BeginDispatch, DispatchNext, Database, Scheduler
<1>3. ASSUME BeginDispatch(c)
      PROVE  TypeInv'
  <2>1. PICK k \in Event :
          Become(c, [Idle EXCEPT !.at = "dispatch", !.key = k, !.todo = Listening])
    BY <1>3 DEF BeginDispatch
  <2> DEFINE record == [Idle EXCEPT !.at = "dispatch", !.key = k, !.todo = Listening]
  <2>2. /\ record \in ProcessRecord /\ record.at = "dispatch" /\ record.key = k
    BY RowTypes DEF ProcessRecord, Steps, Listening, Source
  <2>3. Become(c, record)
    BY <2>1
  <2>4. process[c].at = "idle" /\ scheduler = "running"
    BY <1>3 DEF BeginDispatch
  <2> HIDE DEF record
  <2>5. Placed(c, record) /\ ~Reconciling(c, record) /\ ~Reconciling(c, process[c])
    BY <1>1, <2>2, <2>4 DEF Placed, Reconciling, Source
  <2> QED
    BY <1>1, <1>2, <2>2, <2>3, <2>4, <2>5, Typed, QuietStep
<1>4. ASSUME DispatchNext(c)
      PROVE  TypeInv'
  <2>1. process[c].at = "dispatch" /\ process[c] \in ProcessRecord /\ Placed(c, process[c])
    BY <1>1, <1>4, Typed DEF DispatchNext
  <2>2. ~Reconciling(c, process[c])
    BY <1>1, <2>1 DEF Reconciling
  <2>3. CASE Become(c, Idle)
    <3>1. Placed(c, Idle) /\ ~Reconciling(c, Idle)
      BY <1>1, RowTypes DEF Placed, Reconciling
    <3> QED
      BY <1>1, <1>2, <2>1, <2>2, <2>3, <3>1, RowTypes, Typed, QuietStep
  <2>4. CASE \E r \in process[c].todo :
               Become(c, [process[c] EXCEPT !.at = "find", !.rule = r, !.todo = @ \ {r}])
    <3>1. PICK r \in process[c].todo :
               Become(c, [process[c] EXCEPT !.at = "find", !.rule = r, !.todo = @ \ {r}])
      BY <2>4
    <3> DEFINE record == [process[c] EXCEPT !.at = "find", !.rule = r, !.todo = @ \ {r}]
    <3>2. /\ record \in ProcessRecord /\ record.at = "find"
          /\ record.rule \in Rule /\ record.key = process[c].key
      BY <2>1 DEF ProcessRecord, Steps
    <3>3. Become(c, record)
      BY <3>1
    <3> HIDE DEF record
    <3>4. Placed(c, record) /\ ~Reconciling(c, record)
      BY <1>1, <2>1, <3>2 DEF Placed, Reconciling
    <3> QED
      BY <1>1, <1>2, <2>1, <2>2, <3>2, <3>3, <3>4, Typed, QuietStep
  <2> QED
    BY <1>4, <2>3, <2>4 DEF DispatchNext
<1> QED
  BY <1>3, <1>4

\* A request on a rule, up to its commit.
LEMMA RequestTypes ==
  ASSUME TypeInv, NEW c \in Client,
         Create(c) \/ BeginUpdate(c) \/ CommitUpdate(c) \/ Delete(c)
  PROVE  TypeInv'
<1>1. c \in Process /\ c # Start /\ c \notin Rule
  BY AutomationAssumption DEF Process
<1>2. UNCHANGED <<clock, log, actions, job, scheduler, lock>>
  BY DEF Create, BeginUpdate, CommitUpdate, Delete, Database, Scheduler
<1>3. /\ process[c].at \in {"idle", "update"}
      /\ process[c].at = "idle" => scheduler = "running"
  BY DEF Create, BeginUpdate, CommitUpdate, Delete
<1>4. ~Reconciling(c, process[c])
  BY <1>1, <1>3 DEF Reconciling
<1> DEFINE synced == [Idle EXCEPT !.at = "sync"]
<1>5. synced \in ProcessRecord /\ synced.at = "sync"
  BY RowTypes DEF ProcessRecord, Steps
<1> HIDE DEF synced
<1>6. /\ Placed(c, synced) /\ ~Reconciling(c, synced)
      /\ Placed(c, Idle) /\ ~Reconciling(c, Idle)
  BY <1>1, <1>5, RowTypes DEF Placed, Reconciling
\* It is enough that the table stays one of rules with triggers.
<1>7. ASSUME NEW record \in {synced, Idle}, Become(c, record),
             rule' \in [Rule -> Row],
             \A r \in Rule : rule[r].trigger \in Trigger => rule'[r].trigger \in Trigger,
             \A r \in Rule : rule'[r].state # "none" => rule'[r].trigger \in Trigger
      PROVE  TypeInv'
  BY <1>1, <1>2, <1>3, <1>4, <1>5, <1>6, <1>7, RowTypes, Typed, QuietStep
<1>8. ASSUME Create(c)
      PROVE  TypeInv'
  <2>1. PICK r \in Rule, t \in Trigger, state \in {"enabled", "disabled"} :
          rule' = [rule EXCEPT ![r] =
            [state |-> state, trigger |-> t, next |-> NextRun(t, clock), revision |-> 1]]
    BY <1>8 DEF Create
  <2> DEFINE row == [state |-> state, trigger |-> t, next |-> NextRun(t, clock), revision |-> 1]
  <2>2. row \in Row /\ row.trigger \in Trigger
    BY Typed, NextRunType DEF Row
  <2>3. rule' = [rule EXCEPT ![r] = row]
    BY <2>1
  <2> HIDE DEF row
  <2>4. Become(c, synced)
    BY <1>8 DEF Create, synced
  <2> QED
    BY <1>7, <2>2, <2>3, <2>4, Typed
<1>9. ASSUME BeginUpdate(c)
      PROVE  TypeInv'
  <2>1. PICK r \in Rule, t \in Trigger, state \in {"enabled", "disabled"} :
          Become(c, [Idle EXCEPT !.at = "update", !.rule = r,
            !.rows[r] = [rule[r] EXCEPT
              !.state = state, !.trigger = t,
              !.next = IF state = "enabled" THEN NextRun(t, clock) ELSE Null]])
    BY <1>9 DEF BeginUpdate
  <2> DEFINE row == [rule[r] EXCEPT !.state = state, !.trigger = t,
                       !.next = IF state = "enabled" THEN NextRun(t, clock) ELSE Null]
             record == [Idle EXCEPT !.at = "update", !.rule = r, !.rows[r] = row]
  <2>2. row \in Row /\ row.trigger = t
    BY Typed, NextRunType DEF Row
  <2>3. Become(c, record)
    BY <2>1
  <2> HIDE DEF row
  <2>4. Idle.rows \in [Rule -> Row]
    BY RowTypes DEF Idle
  <2>5. /\ record \in ProcessRecord /\ record.at = "update" /\ record.rule = r
        /\ record.rows[r] = row
    BY <2>2, <2>4, RowTypes DEF ProcessRecord, Steps
  <2> HIDE DEF record
  <2>6. Placed(c, record) /\ ~Reconciling(c, record)
    BY <1>1, <2>2, <2>5 DEF Placed, Reconciling
  <2>7. UNCHANGED rule
    BY <1>9 DEF BeginUpdate, Database
  <2> QED
    BY <1>1, <1>2, <1>3, <1>4, <2>3, <2>5, <2>6, <2>7, Typed, QuietStep
<1>10. ASSUME CommitUpdate(c)
       PROVE  TypeInv'
  <2>1. process[c].at = "update"
    BY <1>10 DEF CommitUpdate
  <2> DEFINE r == process[c].rule
             row == [process[c].rows[r] EXCEPT !.revision = @ + 1]
  <2>2. r \in Rule /\ process[c].rows[r] \in Row /\ process[c].rows[r].trigger \in Trigger
    BY <1>1, <2>1, Typed DEF Placed, ProcessRecord
  <2>3. row \in Row /\ row.trigger \in Trigger
    BY <2>2 DEF Row
  <2>4. \/ rule' = [rule EXCEPT ![r] = row] /\ Become(c, synced)
        \/ rule' = rule /\ Become(c, Idle)
    BY <1>10 DEF CommitUpdate, synced
  <2> HIDE DEF row, r
  <2> QED
    BY <1>7, <2>2, <2>3, <2>4, Typed
<1>11. ASSUME Delete(c)
       PROVE  TypeInv'
  <2>1. PICK r \in Rule :
          /\ Active(rule[r])
          /\ rule' = [rule EXCEPT ![r].state = "deleted", ![r].revision = @ + 1]
    BY <1>11 DEF Delete
  <2>2. rule[r] \in Row /\ rule[r].trigger \in Trigger
    BY <2>1, Typed DEF Active
  <2> DEFINE row == [state |-> "deleted", trigger |-> rule[r].trigger,
                      next |-> rule[r].next, revision |-> rule[r].revision + 1]
  <2>3. row \in Row /\ row.trigger = rule[r].trigger
    <3>1. rule[r].revision + 1 \in Nat
      BY <2>2 DEF Row
    <3> QED
      BY <2>2, <3>1 DEF Row
  <2>4. rule' = [rule EXCEPT ![r] = row]
    BY <2>1, <2>2, Typed DEF Row
  <2> HIDE DEF row
  <2>5. Become(c, synced)
    BY <1>11 DEF Delete, synced
  <2> QED
    BY <1>7, <2>2, <2>3, <2>4, <2>5, Typed
<1> QED
  BY <1>8, <1>9, <1>10, <1>11

\* The next rule of a reconciliation.
LEMMA ReconcileNextTypes ==
  ASSUME TypeInv, NEW p \in Process, ReconcileNext(p)
  PROVE  TypeInv'
<1>1. /\ process[p].at = "next" /\ process[p] \in ProcessRecord /\ Placed(p, process[p])
      /\ UNCHANGED <<clock, rule, log, actions, job, scheduler, lock>>
  BY Typed DEF ReconcileNext, Database, Scheduler
<1>2. Reconciling(p, process[p]) /\ p \notin Rule
  BY <1>1 DEF Reconciling, Placed
<1>3. \A r \in process[p].todo : r \in Rule /\ rule[r].trigger \in Trigger
  BY <1>1, <1>2 DEF TypeInv, Triggers, ProcessRecord
<1> DEFINE Walk(r, row) ==
        LET step == [process[p] EXCEPT !.rule = r, !.rows[r] = row, !.todo = @ \ {r}]
        IN Become(p, IF p = Start /\ Overdue(row, process[p].now)
                       THEN [step EXCEPT !.at = "find", !.key = row.next]
                       ELSE [step EXCEPT !.at = "schedule"])
<1>4. PICK r \in process[p].todo : \E row \in {process[p].rows[r], rule[r]} : Walk(r, row)
  BY DEF ReconcileNext
<1>5. PICK row \in {process[p].rows[r], rule[r]} : Walk(r, row)
  BY <1>4
<1>6. row \in Row /\ row.trigger \in Trigger
  BY <1>1, <1>2, <1>3, Typed DEF Placed, ProcessRecord
<1>7. Overdue(row, process[p].now) => row.next \in Source
  BY <1>1, <1>6, AutomationAssumption DEF Overdue, Row, ProcessRecord, Source, Minute
<1> DEFINE step == [process[p] EXCEPT !.rule = r, !.rows[r] = row, !.todo = @ \ {r}]
           found == [step EXCEPT !.at = "find", !.key = row.next]
           listed == [step EXCEPT !.at = "schedule"]
           record == IF p = Start /\ Overdue(row, process[p].now) THEN found ELSE listed
<1>8. /\ step \in ProcessRecord /\ step.rule = r /\ step.todo = process[p].todo \ {r}
      /\ step.rows = [process[p].rows EXCEPT ![r] = row]
  BY <1>1, <1>3, <1>6 DEF ProcessRecord
<1>9. Become(p, record)
  BY <1>5
<1> HIDE DEF step
<1>10. /\ listed \in ProcessRecord /\ listed.at = "schedule"
      /\ listed.rule = r /\ listed.todo = step.todo /\ listed.rows = step.rows
  BY <1>8 DEF ProcessRecord, Steps
<1>11. Overdue(row, process[p].now) =>
         /\ found \in ProcessRecord /\ found.at = "find" /\ found.key = row.next
         /\ found.rule = r /\ found.todo = step.todo /\ found.rows = step.rows
  BY <1>7, <1>8 DEF ProcessRecord, Steps
<1> HIDE DEF found, listed
<1>12. /\ record \in ProcessRecord /\ record.rule = r /\ record.rows = step.rows
       /\ record.todo = process[p].todo \ {r}
       /\ \/ record.at = "schedule"
          \/ p = Start /\ record.at = "find" /\ record.key \in Source
  BY <1>7, <1>8, <1>10, <1>11
<1> HIDE DEF record
<1>13. /\ record.rows[r].trigger \in Trigger
       /\ \A q \in record.todo : record.rows[q].trigger \in Trigger
  BY <1>1, <1>2, <1>3, <1>6, <1>8, <1>12 DEF Placed, ProcessRecord
<1>14. Reconciling(p, record)
  BY <1>12 DEF Reconciling
<1>15. Placed(p, record)
  BY <1>1, <1>2, <1>3, <1>12, <1>13, AutomationAssumption DEF Placed
<1>16. \A q \in record.todo : rule'[q].trigger \in Trigger
  BY <1>1, <1>3, <1>12
<1> QED
  BY <1>1, <1>2, <1>9, <1>12, <1>14, <1>15, <1>16, Typed, QuietStep

\* The two ends of a job.
LEMMA JobTypes ==
  ASSUME TypeInv, NEW r \in Rule, Load(r) \/ Advance(r)
  PROVE  TypeInv'
<1>1. r \in Process /\ r # Start /\ r \notin Client
  BY AutomationAssumption DEF Process
<1>2. process[r].at # "idle" /\ process[r] \in ProcessRecord /\ Placed(r, process[r])
  BY <1>1, Typed DEF Load, Advance
<1>3. ~Reconciling(r, process[r])
  BY <1>1, <1>2 DEF Placed, Reconciling
<1>4. Placed(r, Idle) /\ ~Reconciling(r, Idle)
  BY <1>1, RowTypes DEF Placed, Reconciling
<1>5. ASSUME Load(r)
      PROVE  TypeInv'
  <2>1. UNCHANGED <<clock, rule, log, actions, job, scheduler, lock>>
    BY <1>5 DEF Load, Database, Scheduler
  <2> DEFINE record == [Idle EXCEPT !.at = "find", !.rule = r, !.key = clock, !.rows[r] = rule[r]]
  <2>2. \/ Become(r, record) /\ Runs(rule[r])
        \/ Become(r, Idle)
    BY <1>5 DEF Load
  <2>3. CASE Become(r, Idle)
    BY <1>1, <1>2, <1>3, <1>4, <2>1, <2>3, RowTypes, Typed, QuietStep
  <2>4. CASE Become(r, record) /\ Runs(rule[r])
    <3>1. Idle.rows \in [Rule -> Row]
      BY RowTypes DEF Idle
    <3>2. /\ record \in ProcessRecord /\ record.at = "find" /\ record.rule = r
          /\ record.key = clock /\ record.rows[r] = rule[r]
      BY <3>1, RowTypes, Typed DEF ProcessRecord, Steps, Source
    <3>3. Become(r, record) /\ rule[r].trigger \in Trigger
      BY <2>4, Typed DEF Runs
    <3> HIDE DEF record
    <3>4. Placed(r, record) /\ ~Reconciling(r, record)
      BY <1>1, <3>2, <3>3, Typed DEF Placed, Reconciling, Source
    <3> QED
      BY <1>1, <1>2, <1>3, <2>1, <3>2, <3>3, <3>4, Typed, QuietStep
  <2> QED
    BY <2>2, <2>3, <2>4
<1>6. ASSUME Advance(r)
      PROVE  TypeInv'
  <2>1. /\ UNCHANGED <<clock, log, actions, job, scheduler, lock>>
        /\ Become(r, Idle) /\ process[r].at = "advance"
    BY <1>6 DEF Advance, Scheduler
  <2> DEFINE next == NextRun(process[r].rows[r].trigger, clock)
             row == [rule[r] EXCEPT !.next = next]
  <2>2. process[r].rows[r].trigger \in Trigger
    BY <1>2, <2>1 DEF Placed
  <2>3. next \in Nat \cup {Null}
    BY <2>2, NextRunType, Typed
  <2>4. rule' = [rule EXCEPT ![r] = row]
    BY <1>6 DEF Advance
  <2> HIDE DEF next
  <2>5. row \in Row /\ row.trigger = rule[r].trigger /\ row.state = rule[r].state
    BY <2>3, Typed DEF Row
  <2> HIDE DEF row
  <2>6. /\ rule' \in [Rule -> Row]
        /\ \A q \in Rule : rule[q].trigger \in Trigger => rule'[q].trigger \in Trigger
        /\ \A q \in Rule : rule'[q].state # "none" => rule'[q].trigger \in Trigger
    BY <2>4, <2>5, Typed
  <2> QED
    BY <1>1, <1>2, <1>3, <1>4, <2>1, <2>6, RowTypes, Typed, QuietStep
<1> QED
  BY <1>5, <1>6

\* A reconciliation begins: by a request that has the lock, or by the start
\* of the application, when no process is doing anything.
LEMMA ReconcileTypes ==
  ASSUME TypeInv, NEW p \in Process, Reconcile(p), lock' = p,
         \/ p \in Client /\ lock = Null /\ process[p].at = "sync" /\ UNCHANGED scheduler
         \/ p = Start /\ scheduler = "down" /\ scheduler' = "starting"
  PROVE  TypeInv'
<1> DEFINE record == [Idle EXCEPT !.at = "next", !.now = clock, !.rows = rule, !.todo = Desired]
<1>1. /\ record \in ProcessRecord /\ record.at = "next" /\ record.rows = rule
      /\ record.todo = Desired
  BY RowTypes, Typed DEF ProcessRecord, Steps, Desired
<1>2. /\ Become(p, record) /\ UNCHANGED <<clock, rule, log, actions>>
      /\ job' = [r \in Rule |-> IF r \in Desired THEN job[r] ELSE Null]
  BY DEF Reconcile, Database
<1> HIDE DEF record
<1>3. p \notin Rule
  BY AutomationAssumption
<1>4. \A r \in Desired : r \in Rule /\ rule[r].trigger \in Trigger
  BY Typed DEF Desired, Runs
<1>5. Placed(p, record) /\ Reconciling(p, record)
  BY <1>1, <1>3, <1>4, AutomationAssumption DEF Placed, Reconciling
<1>6. /\ process' \in [Process -> ProcessRecord]
      /\ \A q \in Process : Placed(q, process'[q])
      /\ Triggers'
  BY <1>1, <1>2, <1>4, <1>5, Typed, StepOfOne
<1>7. /\ process'[p] = record
      /\ \A q \in Process : q # p => process'[q] = process[q]
  BY <1>1, <1>2, Typed, BecomeFacts
<1>8. Locked /\ lock = Null
  BY DEF TypeInv, Locked
<1>9. \A q \in Process : Reconciling(q, process'[q]) => q = p
  BY <1>7, <1>8, AutomationAssumption DEF Locked, Process
<1>10. lock' \in Client => process'[lock'].at \in {"next", "schedule"}
  BY <1>1, <1>7
<1>11. scheduler' # "running" => \A q \in Process : q # Start => process'[q].at = "idle"
  BY <1>1, <1>7, <1>8 DEF Locked
<1>12. Locked'
  BY <1>8, <1>9, <1>10, <1>11, AutomationAssumption DEF Locked
<1>13. \A q \in Process : process'[q].at = "schedule" => lock' = q
  BY <1>12 DEF Locked, Reconciling
<1>14. Jobs' /\ job' \in [Rule -> [trigger : Trigger, due : Nat] \cup {Null}]
  BY <1>2 DEF TypeInv, Jobs, AutomationTypeOK
<1>15. AutomationTypeOK'
  BY <1>2, <1>6, <1>13, <1>14 DEF TypeInv, AutomationTypeOK
<1> QED
  BY <1>6, <1>12, <1>14, <1>15 DEF TypeInv

\* The end of a reconciliation releases the lock.
LEMMA ReconcileEndTypes ==
  ASSUME TypeInv, NEW p \in Process, ReconcileEnd(p)
  PROVE  TypeInv'
<1>1. /\ Become(p, Idle) /\ lock' = Null /\ scheduler' = "running"
      /\ UNCHANGED <<clock, rule, log, actions, job>>
      /\ process[p].at = "next" /\ Locked
  BY DEF ReconcileEnd, Database, TypeInv
<1>2. Placed(p, Idle) /\ ~Reconciling(p, Idle)
  BY RowTypes, Typed, <1>1 DEF Placed, Reconciling
<1>3. /\ process' \in [Process -> ProcessRecord]
      /\ \A q \in Process : Placed(q, process'[q])
      /\ Triggers'
  BY <1>1, <1>2, RowTypes, Typed, StepOfOne
<1>4. process'[p] = Idle /\ \A q \in Process : q # p => process'[q] = process[q]
  BY <1>1, RowTypes, Typed, BecomeFacts
<1>5. lock = p
  BY <1>1 DEF Locked, Reconciling
<1>6. \A q \in Process : ~Reconciling(q, process'[q])
  BY <1>1, <1>2, <1>4, <1>5 DEF Locked
<1>7. Locked'
  BY <1>1, <1>6, AutomationAssumption DEF Locked
<1>8. AutomationTypeOK'
  BY <1>1, <1>3, <1>6, AutomationAssumption
  DEF TypeInv, AutomationTypeOK, Reconciling
<1> QED
  BY <1>1, <1>3, <1>7, <1>8 DEF TypeInv, Jobs

\* A rule is given its job and its next run.
LEMMA ScheduleTypes ==
  ASSUME TypeInv, NEW p \in Process, Schedule(p)
  PROVE  TypeInv'
<1> DEFINE r == process[p].rule
           row == process[p].rows[r]
           next == NextRun(row.trigger, process[p].now)
           record == [process[p] EXCEPT !.at = "next"]
<1>1. /\ process[p].at = "schedule" /\ process[p] \in ProcessRecord /\ Placed(p, process[p])
      /\ UNCHANGED <<clock, log, actions, scheduler, lock>>
      /\ Goto(p, "next")
  BY Typed DEF Schedule
<1>2. /\ \/ /\ Recurring(row.trigger)
            /\ job' = [job EXCEPT ![r] =
                 [trigger |-> row.trigger, due |-> FiresAt(row.trigger, next)]]
            /\ rule' = [rule EXCEPT ![r].next = IF row.next # next THEN next ELSE @]
         \/ UNCHANGED <<rule, job>>
  BY DEF Schedule
<1>3. r \in Rule /\ row \in Row /\ row.trigger \in Trigger /\ process[p].now \in Nat
  BY <1>1, AutomationAssumption DEF Placed, ProcessRecord, Minute
<1>4. Recurring(row.trigger) => next \in Nat
  BY <1>3, NextRunType
<1>5. Recurring(row.trigger) => FiresAt(row.trigger, next) \in Nat
  BY <1>3, <1>4, Typed, FiresAtType
<1>6. /\ record \in ProcessRecord /\ Become(p, record)
      /\ record.at = "next" /\ record.rows = process[p].rows /\ record.todo = process[p].todo
  BY <1>1, Typed, GotoBecomes DEF Steps
<1> HIDE DEF next, record
<1>7. Reconciling(p, process[p]) /\ Reconciling(p, record) /\ p \notin Rule
  BY <1>1, <1>6 DEF Reconciling, Placed
<1>8. Placed(p, record)
  BY <1>1, <1>6, <1>7 DEF Placed
<1>9. /\ rule' \in [Rule -> Row]
      /\ \A q \in Rule : rule'[q].trigger = rule[q].trigger /\ rule'[q].state = rule[q].state
  <2>1. CASE rule' = rule
    BY <2>1, Typed
  <2>2. CASE Recurring(row.trigger)
             /\ rule' = [rule EXCEPT ![r].next = IF row.next # next THEN next ELSE @]
    <3> DEFINE new == [rule[r] EXCEPT !.next = IF row.next # next THEN next ELSE @]
    <3>1. /\ new \in Row /\ new.trigger = rule[r].trigger /\ new.state = rule[r].state
      BY <1>3, <1>4, <2>2, Typed DEF Row
    <3>2. rule' = [rule EXCEPT ![r] = new]
      BY <2>2
    <3> HIDE DEF new
    <3> QED
      BY <1>3, <3>1, <3>2, Typed
  <2> QED
    BY <1>2, <2>1, <2>2
<1>10. /\ job' \in [Rule -> [trigger : Trigger, due : Nat] \cup {Null}]
       /\ Jobs'
  <2>1. job \in [Rule -> [trigger : Trigger, due : Nat] \cup {Null}] /\ Jobs
    BY DEF TypeInv, AutomationTypeOK
  <2>2. CASE job' = job
    BY <2>1, <2>2 DEF Jobs
  <2>3. CASE Recurring(row.trigger)
             /\ job' = [job EXCEPT ![r] =
                  [trigger |-> row.trigger, due |-> FiresAt(row.trigger, next)]]
    <3> DEFINE new == [trigger |-> row.trigger, due |-> FiresAt(row.trigger, next)]
    <3>1. new \in [trigger : Trigger, due : Nat] /\ new.trigger = row.trigger
      BY <1>3, <1>5, <2>3
    <3>2. job' = [job EXCEPT ![r] = new]
      BY <2>3
    <3> HIDE DEF new
    <3> QED
      BY <1>3, <2>1, <2>3, <3>1, <3>2 DEF Jobs
  <2> QED
    BY <1>2, <2>2, <2>3
<1>11. \A q \in record.todo : rule'[q].trigger \in Trigger
  BY <1>1, <1>6, <1>7, <1>9 DEF TypeInv, Triggers, ProcessRecord
<1>12. /\ process' \in [Process -> ProcessRecord]
       /\ \A q \in Process : Placed(q, process'[q])
       /\ Triggers'
  BY <1>6, <1>8, <1>9, <1>11, Typed, StepOfOne
<1>13. Locked'
  BY <1>1, <1>6, <1>7, LocalStep
<1>14. AutomationTypeOK'
  BY <1>1, <1>9, <1>10, <1>12, <1>13 DEF TypeInv, AutomationTypeOK, Locked, Reconciling
<1> QED
  BY <1>10, <1>12, <1>13, <1>14 DEF TypeInv

\* A job fires, and runs or is dropped.
LEMMA FireTypes ==
  ASSUME TypeInv, NEW r \in Rule, Fire(r)
  PROVE  TypeInv'
<1>1. /\ job[r] # Null /\ scheduler = "running"
      /\ UNCHANGED <<clock, rule, log, actions, scheduler, lock>>
      /\ job' = [job EXCEPT ![r].due = FiresAt(job[r].trigger, job[r].due)]
      /\ \/ process[r].at = "idle" /\ Become(r, [Idle EXCEPT !.at = "load"])
         \/ UNCHANGED process
  BY DEF Fire, Database
<1>2. /\ job \in [Rule -> [trigger : Trigger, due : Nat] \cup {Null}] /\ Jobs /\ Locked
      /\ r \in Process /\ r # Start /\ r \notin Client
  BY AutomationAssumption DEF TypeInv, AutomationTypeOK, Process
<1> DEFINE due == FiresAt(job[r].trigger, job[r].due)
           new == [job[r] EXCEPT !.due = due]
<1>3. job[r] \in [trigger : Trigger, due : Nat] /\ Recurring(job[r].trigger)
  BY <1>1, <1>2 DEF Jobs
<1>4. due \in Nat
  BY <1>3, Typed, FiresAtType
<1>5. job' = [job EXCEPT ![r] = new]
  BY <1>1
<1> HIDE DEF due
<1>6. new \in [trigger : Trigger, due : Nat] /\ new.trigger = job[r].trigger
  BY <1>3, <1>4
<1> HIDE DEF new
<1>7. /\ job' \in [Rule -> [trigger : Trigger, due : Nat] \cup {Null}]
      /\ Jobs'
  BY <1>2, <1>3, <1>5, <1>6 DEF Jobs
<1>8. CASE UNCHANGED process
  BY <1>1, <1>7, <1>8 DEF TypeInv, AutomationTypeOK, Triggers, Locked
<1>9. CASE process[r].at = "idle" /\ Become(r, [Idle EXCEPT !.at = "load"])
  <2> DEFINE record == [Idle EXCEPT !.at = "load"]
  <2>1. record \in ProcessRecord /\ record.at = "load"
    BY RowTypes DEF ProcessRecord, Steps
  <2>2. Become(r, record)
    BY <1>9
  <2> HIDE DEF record
  <2>3. Placed(r, record) /\ ~Reconciling(r, record) /\ ~Reconciling(r, process[r])
    BY <1>2, <1>9, <2>1 DEF Placed, Reconciling
  <2>4. /\ process' \in [Process -> ProcessRecord]
        /\ \A q \in Process : Placed(q, process'[q])
        /\ Triggers'
    BY <1>1, <1>2, <2>1, <2>2, <2>3, Typed, StepOfOne
  <2>5. Locked'
    BY <1>1, <1>2, <2>1, <2>2, <2>3, LocalStep
  <2>6. AutomationTypeOK'
    BY <1>1, <1>7, <2>4, <2>5 DEF TypeInv, AutomationTypeOK, Locked, Reconciling
  <2> QED
    BY <1>7, <2>4, <2>5, <2>6 DEF TypeInv
<1> QED
  BY <1>1, <1>8, <1>9

\* The application stops.
LEMMA StopTypes ==
  ASSUME TypeInv, Stop
  PROVE  TypeInv'
<1>1. /\ process' = [p \in Process |-> Idle] /\ lock' = Null /\ scheduler' = "down"
      /\ job' = [r \in Rule |-> Null] /\ UNCHANGED <<clock, rule, log, actions>>
  BY DEF Stop, Database
<1>2. \A p \in Process : process'[p] = Idle /\ Placed(p, Idle) /\ ~Reconciling(p, Idle)
  BY <1>1, RowTypes, AutomationAssumption DEF Placed, Reconciling, Process
<1>3. Locked'
  BY <1>1, <1>2, RowTypes, AutomationAssumption DEF Locked
<1>4. Jobs' /\ Triggers'
  BY <1>1, <1>2 DEF Jobs, Triggers, TypeInv
<1>5. AutomationTypeOK'
  BY <1>1, <1>2, RowTypes DEF TypeInv, AutomationTypeOK
<1> QED
  BY <1>2, <1>3, <1>4, <1>5 DEF TypeInv

\* One step per action.
LEMMA TypeStep ==
  ASSUME TypeInv, [AutomationNext]_automationVars
  PROVE  TypeInv'
<1>1. CASE Tick
  <2>1. clock' \in Minute
    BY <1>1, AutomationAssumption DEF Tick, TypeInv, AutomationTypeOK, Minute
  <2> QED
    BY <1>1, <2>1
    DEF Tick, Database, Scheduler, TypeInv, AutomationTypeOK, Triggers, Jobs, Locked
<1>2. CASE StartUp
  BY <1>2, ReconcileTypes DEF StartUp, Process
<1>3. CASE Stop
  BY <1>3, StopTypes
<1>4. ASSUME NEW p \in Process, Execute(p) \/ ReconcileNext(p) \/ ReconcileEnd(p) \/ Schedule(p)
      PROVE  TypeInv'
  BY <1>4, ExecuteTypes, ReconcileNextTypes, ReconcileEndTypes, ScheduleTypes
<1>5. ASSUME NEW c \in Client, Request(c)
      PROVE  TypeInv'
  <2>1. Synchronize(c) => TypeInv'
    BY ReconcileTypes DEF Synchronize, Process
  <2> QED
    BY <1>5, <2>1, DispatchTypes, RequestTypes DEF Request
<1>6. ASSUME NEW r \in Rule, Job(r)
      PROVE  TypeInv'
  BY <1>6, FireTypes, JobTypes DEF Job
<1>7. CASE UNCHANGED automationVars
  BY <1>7 DEF automationVars, TypeInv, AutomationTypeOK, Triggers, Jobs, Locked
<1> QED
  BY <1>1, <1>2, <1>3, <1>4, <1>5, <1>6, <1>7 DEF AutomationNext

LEMMA TypeStart ==
  ASSUME AutomationInit
  PROVE  TypeInv
<1>1. \A p \in Process : process[p] = Idle /\ Placed(p, Idle) /\ ~Reconciling(p, Idle)
  BY RowTypes, AutomationAssumption DEF AutomationInit, Placed, Reconciling, Process
<1>2. Jobs /\ Triggers
  BY <1>1 DEF AutomationInit, Jobs, Triggers, NoRow
<1>3. Locked
  BY <1>1, RowTypes, AutomationAssumption DEF AutomationInit, Locked
<1>4. AutomationTypeOK
  BY <1>1, RowTypes, AutomationAssumption DEF AutomationInit, AutomationTypeOK, Minute
<1> QED
  BY <1>1, <1>2, <1>3, <1>4 DEF TypeInv

\* Every variable holds what it is declared to hold, and only a process that
\* holds _scheduler_lock is about to change a job.
THEOREM AutomationTypeCorrect == AutomationSpec => []AutomationTypeOK
<1>1. AutomationInit => TypeInv
  BY TypeStart
<1>2. TypeInv /\ [AutomationNext]_automationVars => TypeInv'
  BY TypeStep
<1>3. TypeInv => AutomationTypeOK
  BY DEF TypeInv
<1> QED
  BY <1>1, <1>2, <1>3, PTL DEF AutomationSpec

-----------------------------------------------------------------------------
(* One action per logged success. *)

\* Only executions log and act, and of the key they hold.
LEMMA ActedStep ==
  ASSUME TypeInv, ActedAsLogged, [AutomationNext]_automationVars
  PROVE  ActedAsLogged'
<1>1. ASSUME NEW p \in Process, Execute(p)
      PROVE  ActedAsLogged'
  <2>1. process[p].at \in {"find", "act", "fail"}
    BY <1>1 DEF Execute, Find, Act, Fail
  <2>2. Entry(p) \in Rule \X Source
    BY <2>1, Typed DEF Entry, Placed
  <2>3. \/ UNCHANGED <<log, actions>>
        \/ /\ log[Entry(p)] = "none" /\ log' = [log EXCEPT ![Entry(p)] = "succeeded"]
           /\ actions' = [actions EXCEPT ![Entry(p)] = @ + 1]
        \/ /\ log[Entry(p)] = "none" /\ UNCHANGED actions
           /\ \/ log' = [log EXCEPT ![Entry(p)] = "skipped"]
              \/ log' = [log EXCEPT ![Entry(p)] = "failed"]
    BY <1>1 DEF Execute, Find, Act, Fail, Database
  <2> QED
    BY <2>2, <2>3, Typed DEF ActedAsLogged
<1>2. ASSUME UNCHANGED <<log, actions>>
      PROVE  ActedAsLogged'
  BY <1>2 DEF ActedAsLogged
<1>3. \/ UNCHANGED <<log, actions>>
      \/ \E p \in Process : Execute(p)
  BY DEF AutomationNext, automationVars, Tick, StartUp, Stop, Reconcile, ReconcileNext,
         ReconcileEnd, Schedule, Request, BeginDispatch, DispatchNext, Create, BeginUpdate,
         CommitUpdate, Delete, Synchronize, Job, Fire, Load, Advance, Database
<1> QED
  BY <1>1, <1>2, <1>3

\* However often a key is dispatched, by however many requests, jobs and
\* starts of the application, whatever raises and wherever it stops: the
\* action of a rule is committed once for a key if its execution is logged as
\* succeeded, and not at all otherwise.
THEOREM ActedAsLoggedTheorem == AutomationSpec => []ActedAsLogged
<1>1. AutomationInit => TypeInv /\ ActedAsLogged
  BY TypeStart DEF AutomationInit, ActedAsLogged
<1>2. TypeInv /\ ActedAsLogged /\ [AutomationNext]_automationVars => (TypeInv /\ ActedAsLogged)'
  BY TypeStep, ActedStep
<1> QED
  BY <1>1, <1>2, PTL DEF AutomationSpec

-----------------------------------------------------------------------------
(* The jobs follow the rules. *)

\* A step that changes nothing the jobs and the pending rules are about.
LEMMA JobsQuiet ==
  ASSUME TypeInv, JobsInv, NEW p \in Process,
         \A q \in Process : q # p => process'[q] = process[q],
         Settled' => Settled,
         UNCHANGED <<scheduler, lock>>,
         \A r \in Rule : rule'[r].state = rule[r].state /\ rule'[r].trigger = rule[r].trigger,
         \A r \in Rule : /\ job'[r] = Null <=> job[r] = Null
                         /\ job[r] # Null => job'[r].trigger = job[r].trigger,
         Settled /\ Reconciling(p, process'[p]) =>
           /\ Reconciling(p, process[p])
           /\ \A r \in Rule : r \in Pending(process'[p]) <=> r \in Pending(process[p])
           /\ \A r \in Rule : r \in Pending(process[p]) =>
                process'[p].rows[r].trigger = process[p].rows[r].trigger
  PROVE  JobsInv'
<1>1. \A r \in Rule : (r \in Desired' <=> r \in Desired) /\ (Follows(r)' <=> Follows(r))
  <2>1. \A r \in Rule : r \in Desired' <=> r \in Desired
    BY DEF Desired, Runs
  <2> QED
    BY <2>1 DEF Follows
<1>2. SUFFICES ASSUME Settled'
               PROVE  /\ scheduler' = "running" /\ lock' = Null => \A r \in Rule : Follows(r)'
                      /\ \A q \in Process : Reconciling(q, process'[q]) =>
                           \A r \in Rule :
                             /\ r \in Pending(process'[q]) =>
                                  r \in Desired' /\ process'[q].rows[r].trigger = rule'[r].trigger
                             /\ r \notin Pending(process'[q]) => Follows(r)'
  BY DEF JobsInv
<1>3. scheduler' = "running" /\ lock' = Null => \A r \in Rule : Follows(r)'
  BY <1>1, <1>2 DEF JobsInv
<1>4. ASSUME NEW q \in Process, Reconciling(q, process'[q]), NEW r \in Rule
      PROVE  /\ r \in Pending(process'[q]) =>
                  r \in Desired' /\ process'[q].rows[r].trigger = rule'[r].trigger
             /\ r \notin Pending(process'[q]) => Follows(r)'
  <2>1. CASE q # p
    BY <1>1, <1>2, <1>4, <2>1 DEF JobsInv
  <2>2. CASE q = p
    BY <1>1, <1>2, <1>4, <2>2 DEF JobsInv
  <2> QED
    BY <2>1, <2>2
<1> QED
  BY <1>3, <1>4

\* Executions are of no rule, or of the pending rule of the start.
LEMMA ExecuteJobs ==
  ASSUME TypeInv, JobsInv, NEW p \in Process, Execute(p)
  PROVE  JobsInv'
<1>1. /\ process[p].at \in {"find", "act", "fail"} /\ process[p] \in ProcessRecord
      /\ UNCHANGED <<rule, job, scheduler, lock>>
  BY Typed DEF Execute, Find, Act, Fail, Database, Scheduler
<1>2. /\ Return(p) \in Steps \ {"next", "sync"}
      /\ p # Start => Return(p) # "schedule"
  BY AutomationAssumption DEF Return, Steps, Process
<1>3. \/ \E step \in Steps \ {"next", "sync"} :
            Goto(p, step) /\ (p # Start => step # "schedule")
      \/ Become(p, Idle)
  BY <1>2 DEF Execute, Find, Act, Fail, Steps
<1>4. \A q \in Process : q # p => process'[q] = process[q]
  BY <1>3, Typed DEF Goto, Become
<1>5. Settled' => Settled
  BY <1>1, <1>4 DEF Settled, Process
<1>6. Reconciling(p, process'[p]) =>
        /\ Reconciling(p, process[p])
        /\ Pending(process'[p]) = Pending(process[p])
        /\ process'[p].rows = process[p].rows
  <2>1. CASE Become(p, Idle)
    BY <2>1, RowTypes, Typed DEF Become, Reconciling
  <2>2. ASSUME NEW step \in Steps \ {"next", "sync"}, Goto(p, step), p # Start => step # "schedule"
        PROVE  Reconciling(p, process'[p]) =>
                 /\ Reconciling(p, process[p])
                 /\ Pending(process'[p]) = Pending(process[p])
                 /\ process'[p].rows = process[p].rows
    <3> DEFINE record == [process[p] EXCEPT !.at = step]
    <3>1. /\ record.at = step /\ record.rule = process[p].rule
          /\ record.rows = process[p].rows /\ record.todo = process[p].todo
          /\ record \in ProcessRecord /\ Become(p, record)
      BY <1>1, <2>2, Typed, GotoBecomes
    <3> HIDE DEF record
    <3>2. process'[p] = record
      BY <3>1, Typed, BecomeFacts
    <3>3. Pending(record) = Pending(process[p])
      BY <1>1, <2>2, <3>1 DEF Pending
    <3> QED
      BY <1>1, <2>2, <3>1, <3>2, <3>3 DEF Reconciling
  <2> QED
    BY <1>3, <2>1, <2>2
<1> QED
  BY <1>1, <1>4, <1>5, <1>6, JobsQuiet

\* Requests and jobs: a change of the rules leaves a request that has still to
\* synchronize.
LEMMA RequestJobs ==
  ASSUME TypeInv, JobsInv, NEW c \in Client,
         \/ BeginDispatch(c) \/ DispatchNext(c)
         \/ Create(c) \/ BeginUpdate(c) \/ CommitUpdate(c) \/ Delete(c)
  PROVE  JobsInv'
<1>1. /\ c \in Process /\ c # Start /\ process[c] \in ProcessRecord
      /\ process[c].at \in {"idle", "dispatch", "update"}
      /\ UNCHANGED <<job, scheduler, lock>>
  BY Typed, AutomationAssumption
  DEF Process, BeginDispatch, DispatchNext, Create, BeginUpdate, CommitUpdate, Delete,
      Database, Scheduler
<1>2. \E record :
        /\ Become(c, record)
        /\ record.at \in {"idle", "dispatch", "find", "update", "sync"}
        /\ record.at # "sync" => UNCHANGED rule
  <2>1. ASSUME NEW k \in Event
        PROVE  [Idle EXCEPT !.at = "dispatch", !.key = k, !.todo = Listening].at = "dispatch"
    BY DEF Idle
  <2>2. ASSUME NEW r \in Rule
        PROVE  [process[c] EXCEPT !.at = "find", !.rule = r, !.todo = @ \ {r}].at = "find"
    BY <1>1 DEF ProcessRecord
  <2>3. ASSUME NEW r \in Rule, NEW row
        PROVE  [Idle EXCEPT !.at = "update", !.rule = r, !.rows[r] = row].at = "update"
    BY DEF Idle
  <2>4. [Idle EXCEPT !.at = "sync"].at = "sync" /\ Idle.at = "idle"
    BY DEF Idle
  <2>5. \A r \in process[c].todo : r \in Rule
    BY <1>1 DEF ProcessRecord
  <2>6. CASE BeginDispatch(c)
    BY <2>1, <2>6 DEF BeginDispatch, Database
  <2>7. CASE DispatchNext(c)
    BY <2>2, <2>4, <2>5, <2>7 DEF DispatchNext, Database
  <2>8. CASE BeginUpdate(c)
    BY <2>3, <2>8 DEF BeginUpdate, Database
  <2>9. CASE CommitUpdate(c)
    BY <2>4, <2>9 DEF CommitUpdate
  <2>10. CASE Create(c) \/ Delete(c)
    BY <2>4, <2>10 DEF Create, Delete
  <2> QED
    BY <2>6, <2>7, <2>8, <2>9, <2>10
<1>3. PICK record :
        /\ Become(c, record)
        /\ record.at \in {"idle", "dispatch", "find", "update", "sync"}
        /\ record.at # "sync" => UNCHANGED rule
  BY <1>2
<1>4. process'[c] = record /\ \A q \in Process : q # c => process'[q] = process[q]
  BY <1>1, <1>3, Typed DEF Become
<1>5. CASE record.at = "sync"
  BY <1>4, <1>5 DEF JobsInv, Settled
<1>6. CASE record.at # "sync"
  <2>1. Settled' => Settled
    BY <1>1, <1>4 DEF Settled, Process
  <2>2. ~Reconciling(c, process'[c])
    BY <1>1, <1>3, <1>4 DEF Reconciling
  <2> QED
    BY <1>1, <1>3, <1>4, <1>6, <2>1, <2>2, JobsQuiet
<1> QED
  BY <1>5, <1>6

LEMMA JobJobs ==
  ASSUME TypeInv, JobsInv, NEW r \in Rule, Job(r)
  PROVE  JobsInv'
<1>1. /\ r \in Process /\ r # Start /\ r \notin Client /\ UNCHANGED <<scheduler, lock>>
  BY AutomationAssumption DEF Process, Job, Fire, Load, Advance, Scheduler
<1>2. \A q \in Process : q # r => process'[q] = process[q]
  BY <1>1, Typed DEF Job, Fire, Load, Advance, Become
<1>3. Settled' => Settled
  BY <1>1, <1>2 DEF Settled, Process
<1>4. ~Reconciling(r, process'[r])
  <2>1. TypeInv'
    BY FireTypes, JobTypes DEF Job
  <2> QED
    BY <1>1, <2>1 DEF TypeInv, Placed, Reconciling
<1>5. \A q \in Rule : rule'[q].state = rule[q].state /\ rule'[q].trigger = rule[q].trigger
  <2>1. \A next : /\ [rule[r] EXCEPT !.next = next].state = rule[r].state
                  /\ [rule[r] EXCEPT !.next = next].trigger = rule[r].trigger
    BY Typed DEF Row
  <2>2. CASE Fire(r) \/ Load(r)
    BY <2>2 DEF Fire, Load, Database
  <2>3. CASE Advance(r)
    <3> DEFINE new == [rule[r] EXCEPT !.next = NextRun(process[r].rows[r].trigger, clock)]
    <3>1. rule' = [rule EXCEPT ![r] = new]
      BY <2>3 DEF Advance
    <3>2. new.state = rule[r].state /\ new.trigger = rule[r].trigger
      BY <2>1
    <3> HIDE DEF new
    <3> QED
      BY <3>1, <3>2, Typed
  <2> QED
    BY <2>2, <2>3 DEF Job
<1>6. \A q \in Rule : /\ job'[q] = Null <=> job[q] = Null
                      /\ job[q] # Null => job'[q].trigger = job[q].trigger
  <2>1. job \in [Rule -> [trigger : Trigger, due : Nat] \cup {Null}]
    BY DEF TypeInv, AutomationTypeOK
  <2>2. CASE UNCHANGED job
    BY <2>2
  <2>3. CASE Fire(r)
    <3>1. /\ job[r] \in [trigger : Trigger, due : Nat] /\ job[r] # Null
          /\ job' = [job EXCEPT ![r] = [job[r] EXCEPT !.due = FiresAt(job[r].trigger, job[r].due)]]
      BY <2>1, <2>3 DEF Fire
    <3>2. FiresAt(job[r].trigger, job[r].due) \in Nat
      BY <3>1, Typed, FiresAtType DEF TypeInv, Jobs
    <3>3. job'[r] = [job[r] EXCEPT !.due = FiresAt(job[r].trigger, job[r].due)]
      BY <2>1, <3>1
    <3>4. job'[r].trigger = job[r].trigger
      BY <3>1, <3>3
    <3>5. job'[r] # Null
      BY <3>1, <3>2, <3>3, AutomationAssumption
    <3> QED
      BY <2>1, <3>1, <3>4, <3>5
  <2> QED
    BY <2>2, <2>3 DEF Job, Load, Advance, Scheduler
<1> QED
  BY <1>1, <1>2, <1>3, <1>4, <1>5, <1>6, JobsQuiet

\* A rule taken from the list stays pending until it is scheduled.
LEMMA ReconcileNextJobs ==
  ASSUME TypeInv, JobsInv, NEW p \in Process, ReconcileNext(p)
  PROVE  JobsInv'
<1>1. /\ process[p].at = "next" /\ process[p] \in ProcessRecord
      /\ UNCHANGED <<rule, job, scheduler, lock>>
      /\ Reconciling(p, process[p])
  BY Typed DEF ReconcileNext, Database, Scheduler, Reconciling
<1> DEFINE Walked(r, row, record) ==
        /\ Become(p, record)
        /\ record.at \in {"find", "schedule"} /\ record.rule = r
        /\ record.rows = [process[p].rows EXCEPT ![r] = row]
        /\ record.todo = process[p].todo \ {r}
<1>2. \E r \in process[p].todo : \E row \in {process[p].rows[r], rule[r]} :
        \E record : Walked(r, row, record)
  <2> DEFINE Walk(r, row) ==
        LET step == [process[p] EXCEPT !.rule = r, !.rows[r] = row, !.todo = @ \ {r}]
        IN Become(p, IF p = Start /\ Overdue(row, process[p].now)
                       THEN [step EXCEPT !.at = "find", !.key = row.next]
                       ELSE [step EXCEPT !.at = "schedule"])
  <2>1. PICK r \in process[p].todo : \E row \in {process[p].rows[r], rule[r]} : Walk(r, row)
    BY DEF ReconcileNext
  <2>2. PICK row \in {process[p].rows[r], rule[r]} : Walk(r, row)
    BY <2>1
  <2> DEFINE step == [process[p] EXCEPT !.rule = r, !.rows[r] = row, !.todo = @ \ {r}]
             record == IF p = Start /\ Overdue(row, process[p].now)
                         THEN [step EXCEPT !.at = "find", !.key = row.next]
                         ELSE [step EXCEPT !.at = "schedule"]
  <2>3. /\ record.at \in {"find", "schedule"} /\ record.rule = r
        /\ record.rows = [process[p].rows EXCEPT ![r] = row]
        /\ record.todo = process[p].todo \ {r}
    BY <1>1 DEF ProcessRecord
  <2>4. Become(p, record)
    BY <2>2
  <2> HIDE DEF record
  <2> QED
    BY <2>3, <2>4
<1>3. PICK r \in process[p].todo : \E row \in {process[p].rows[r], rule[r]} :
        \E record : Walked(r, row, record)
  BY <1>2
<1>4. PICK row \in {process[p].rows[r], rule[r]} : \E record : Walked(r, row, record)
  BY <1>3
<1>5. PICK record : Walked(r, row, record)
  BY <1>4
<1>6. process'[p] = record /\ \A q \in Process : q # p => process'[q] = process[q]
  BY <1>5, Typed DEF Become
<1>7. Settled' => Settled
  BY <1>1, <1>6 DEF Settled, Process
<1>8. \A q \in Rule : q \in Pending(process'[p]) <=> q \in Pending(process[p])
  BY <1>1, <1>5, <1>6 DEF Pending
<1>9. r \in Pending(process[p]) /\ r \in Rule
  BY <1>1 DEF Pending, ProcessRecord
<1>10. Settled => process[p].rows[r].trigger = rule[r].trigger
  BY <1>1, <1>9 DEF JobsInv
<1>11. ASSUME Settled, NEW q \in Rule
       PROVE  process'[p].rows[q].trigger = process[p].rows[q].trigger
  <2>1. process[p].rows \in [Rule -> Row]
    BY <1>1 DEF ProcessRecord
  <2> QED
    BY <1>5, <1>6, <1>10, <1>11, <2>1
<1> QED
  BY <1>1, <1>6, <1>7, <1>8, <1>11, JobsQuiet

\* The list is of the rules as they are, and jobs of others are removed.
LEMMA ReconcileJobs ==
  ASSUME TypeInv, JobsInv, NEW p \in Process, Reconcile(p), lock' = p,
         \/ p \in Client /\ lock = Null
         \/ p = Start /\ scheduler = "down"
  PROVE  JobsInv'
<1> DEFINE record == [Idle EXCEPT !.at = "next", !.now = clock, !.rows = rule, !.todo = Desired]
<1>1. record.at = "next" /\ record.rows = rule /\ record.todo = Desired
  BY DEF Idle
<1>2. Become(p, record) /\ UNCHANGED rule
      /\ job' = [r \in Rule |-> IF r \in Desired THEN job[r] ELSE Null]
  BY DEF Reconcile, Database
<1> HIDE DEF record
<1>3. process'[p] = record /\ \A q \in Process : q # p => process'[q] = process[q]
  BY <1>2, Typed DEF Become
<1>4. Locked /\ lock = Null /\ p # Null
  BY AutomationAssumption DEF TypeInv, Locked
<1>5. \A q \in Process : Reconciling(q, process'[q]) => q = p
  BY <1>3, <1>4, AutomationAssumption DEF Locked, Process
<1>6. Pending(process'[p]) = Desired
  BY <1>1, <1>3 DEF Pending
<1>7. \A r \in Rule : r \in Desired' <=> r \in Desired
  BY <1>2 DEF Desired
<1>8. \A r \in Rule : r \notin Desired => Follows(r)'
  BY <1>2, <1>7 DEF Follows
<1> QED
  BY <1>1, <1>2, <1>3, <1>4, <1>5, <1>6, <1>7, <1>8 DEF JobsInv

\* When nothing is pending, every job is there.
LEMMA ReconcileEndJobs ==
  ASSUME TypeInv, JobsInv, NEW p \in Process, ReconcileEnd(p)
  PROVE  JobsInv'
<1>1. /\ process[p].at = "next" /\ process[p].todo = {} /\ Become(p, Idle)
      /\ UNCHANGED <<rule, job>> /\ Locked /\ Reconciling(p, process[p])
  BY DEF ReconcileEnd, Database, TypeInv, Reconciling
<1>2. process'[p] = Idle /\ \A q \in Process : q # p => process'[q] = process[q]
  BY <1>1, Typed DEF Become
<1>3. \A q \in Process : ~Reconciling(q, process'[q])
  BY <1>1, <1>2, RowTypes DEF Locked, Reconciling
<1>4. Settled' => Settled
  BY <1>1, <1>2 DEF Settled, Process
<1>5. Settled => \A r \in Rule : Follows(r)
  BY <1>1 DEF JobsInv, Pending
<1>6. \A r \in Rule : Follows(r)' <=> Follows(r)
  BY <1>1 DEF Follows, Desired
<1> QED
  BY <1>3, <1>4, <1>5, <1>6 DEF JobsInv

\* The pending rule gets its job.
LEMMA ScheduleJobs ==
  ASSUME TypeInv, JobsInv, NEW p \in Process, Schedule(p)
  PROVE  JobsInv'
<1> DEFINE r == process[p].rule
           row == process[p].rows[r]
           due == FiresAt(row.trigger, NextRun(row.trigger, process[p].now))
           record == [process[p] EXCEPT !.at = "next"]
<1>1. /\ process[p].at = "schedule" /\ process[p] \in ProcessRecord /\ Placed(p, process[p])
      /\ UNCHANGED <<scheduler, lock>> /\ Become(p, record) /\ Locked
      /\ job \in [Rule -> [trigger : Trigger, due : Nat] \cup {Null}]
  BY Typed DEF Schedule, Goto, Become, TypeInv, AutomationTypeOK
<1>2. r \in Rule /\ row.trigger \in Trigger
  BY <1>1 DEF Placed
<1>3. /\ record.at = "next" /\ record.rows = process[p].rows /\ record.todo = process[p].todo
  BY <1>1 DEF ProcessRecord
<1> HIDE DEF record
<1>4. process'[p] = record /\ \A q \in Process : q # p => process'[q] = process[q]
  BY <1>1, Typed DEF Become
<1>5. Reconciling(p, process[p]) /\ lock = p
  BY <1>1 DEF Reconciling, Locked
<1>6. \A q \in Process : Reconciling(q, process'[q]) => q = p
  BY <1>1, <1>4, <1>5 DEF Locked
<1>7. lock' # Null
  BY <1>1, <1>5, AutomationAssumption DEF Process
<1>8. Settled' => Settled
  BY <1>1, <1>4 DEF Settled, Process
<1>9. \A q \in Rule : rule'[q].state = rule[q].state /\ rule'[q].trigger = rule[q].trigger
  <2>1. \A next : /\ [rule[r] EXCEPT !.next = next].state = rule[r].state
                  /\ [rule[r] EXCEPT !.next = next].trigger = rule[r].trigger
    BY <1>2, Typed DEF Row
  <2>2. \/ UNCHANGED rule
        \/ \E next : rule' = [rule EXCEPT ![r] = [rule[r] EXCEPT !.next = next]]
    BY DEF Schedule
  <2> QED
    BY <1>2, <2>1, <2>2, Typed
<1>10. \A q \in Rule : q \in Desired' <=> q \in Desired
  BY <1>9 DEF Desired, Runs
<1>11. \A q \in Rule : q # r => job'[q] = job[q]
  BY <1>1 DEF Schedule
<1>12. ASSUME Settled, NEW q \in Rule, q = r
       PROVE  Follows(q)'
  <2>1. r \in Desired /\ row.trigger = rule[r].trigger
    BY <1>1, <1>2, <1>5, <1>12 DEF JobsInv, Pending
  <2>2. Recurring(row.trigger)
    BY <2>1 DEF Desired
  <2>3. job' = [job EXCEPT ![r] = [trigger |-> row.trigger, due |-> due]]
    BY <2>2 DEF Schedule
  <2>4. due \in Nat
    BY <1>1, <1>2, <2>2, Typed, NextRunType, FiresAtType, AutomationAssumption
    DEF ProcessRecord, Minute
  <2>5. job'[r] = [trigger |-> row.trigger, due |-> due]
    BY <1>1, <1>2, <2>3
  <2> HIDE DEF due
  <2>6. job'[r].trigger = row.trigger /\ job'[r] # Null
    BY <1>2, <2>4, <2>5, AutomationAssumption
  <2> QED
    BY <1>9, <1>10, <1>12, <2>1, <2>6 DEF Follows
<1>13. ASSUME Settled, NEW q \in Rule, q \notin Pending(process'[p])
       PROVE  Follows(q)'
  <2>1. CASE q = r
    BY <1>12, <1>13, <2>1
  <2>2. CASE q # r
    <3>1. q \notin Pending(process[p])
      BY <1>1, <1>3, <1>4, <1>13, <2>2 DEF Pending
    <3>2. Follows(q)
      BY <1>5, <1>13, <3>1 DEF JobsInv
    <3> QED
      BY <1>9, <1>10, <1>11, <2>2, <3>2 DEF Follows
  <2> QED
    BY <2>1, <2>2
<1>14. ASSUME Settled, NEW q \in Rule, q \in Pending(process'[p])
       PROVE  q \in Desired' /\ process'[p].rows[q].trigger = rule'[q].trigger
  <2>1. q \in Pending(process[p])
    BY <1>3, <1>4, <1>14 DEF Pending
  <2> QED
    BY <1>3, <1>4, <1>5, <1>9, <1>10, <1>14, <2>1 DEF JobsInv
<1> QED
  BY <1>6, <1>7, <1>8, <1>13, <1>14 DEF JobsInv

LEMMA JobsStep ==
  ASSUME TypeInv, JobsInv, [AutomationNext]_automationVars
  PROVE  JobsInv'
<1>1. ASSUME UNCHANGED <<rule, job, scheduler, lock, process>>
      PROVE  JobsInv'
  BY <1>1 DEF JobsInv, Settled, Follows, Desired
<1>2. CASE StartUp
  BY <1>2, ReconcileJobs DEF StartUp, Process
<1>3. CASE Stop
  <2>1. \A p \in Process : process'[p] = Idle /\ ~Reconciling(p, Idle)
    BY <1>3, RowTypes DEF Stop, Reconciling
  <2>2. scheduler' # "running"
    BY <1>3 DEF Stop
  <2> QED
    BY <2>1, <2>2 DEF JobsInv
<1>4. ASSUME NEW p \in Process, Execute(p) \/ ReconcileNext(p) \/ ReconcileEnd(p) \/ Schedule(p)
      PROVE  JobsInv'
  BY <1>4, ExecuteJobs, ReconcileNextJobs, ReconcileEndJobs, ScheduleJobs
<1>5. ASSUME NEW c \in Client, Request(c)
      PROVE  JobsInv'
  <2>1. Synchronize(c) => JobsInv'
    BY ReconcileJobs DEF Synchronize, Process
  <2> QED
    BY <1>5, <2>1, RequestJobs DEF Request
<1>6. ASSUME NEW r \in Rule, Job(r)
      PROVE  JobsInv'
  BY <1>6, JobJobs
<1> QED
  BY <1>1, <1>2, <1>3, <1>4, <1>5, <1>6
  DEF AutomationNext, automationVars, Tick, Database, Scheduler

\* Unless a request on a rule is between its commit and the end of its
\* synchronization, the scheduler has exactly the jobs of the enabled
\* recurring rules, with their triggers, in whatever order requests commit
\* and synchronize and whenever the application stops and starts.
THEOREM JobsFollowRulesTheorem == AutomationSpec => []JobsFollowRules
<1>1. AutomationInit => TypeInv /\ JobsInv
  BY TypeStart, RowTypes DEF AutomationInit, JobsInv, Reconciling
<1>2. TypeInv /\ JobsInv /\ [AutomationNext]_automationVars => (TypeInv /\ JobsInv)'
  BY TypeStep, JobsStep
<1>3. TypeInv /\ JobsInv => JobsFollowRules
  <2>1. SUFFICES ASSUME TypeInv, JobsInv, scheduler = "running",
                        \A c \in Client : process[c].at \notin {"sync", "next", "schedule"}
                 PROVE  \A r \in Rule : Follows(r)
    BY DEF JobsFollowRules, Follows
  <2>2. lock = Null
    BY <2>1 DEF TypeInv, Locked
  <2> QED
    BY <2>1, <2>2 DEF JobsInv, Settled
<1> QED
  BY <1>1, <1>2, <1>3, PTL DEF AutomationSpec

-----------------------------------------------------------------------------
(* The start of the application makes up for what was missed. *)

\* While the application starts, nothing else takes a step on rules.
LEMMA StartAlone ==
  ASSUME TypeInv, scheduler = "starting", [AutomationNext]_automationVars
  PROVE  \/ Stop
         \/ Execute(Start) \/ ReconcileNext(Start) \/ ReconcileEnd(Start) \/ Schedule(Start)
         \/ UNCHANGED <<rule, log, actions, scheduler, process>>
<1>1. \A p \in Process : p # Start => process[p].at = "idle"
  BY DEF TypeInv, Locked
<1>2. /\ \A c \in Client : c \in Process /\ c # Start
      /\ \A r \in Rule : r \in Process /\ r # Start
  BY AutomationAssumption DEF Process
<1>3. ASSUME NEW p \in Process, Execute(p) \/ ReconcileNext(p) \/ ReconcileEnd(p) \/ Schedule(p)
      PROVE  p = Start
  BY <1>1, <1>3 DEF Execute, Find, Act, Fail, ReconcileNext, ReconcileEnd, Schedule
<1>4. ASSUME NEW c \in Client
      PROVE  ~Request(c)
  BY <1>1, <1>2 DEF Request, BeginDispatch, DispatchNext, Create, BeginUpdate, CommitUpdate,
                    Delete, Synchronize
<1>5. ASSUME NEW r \in Rule
      PROVE  ~Job(r)
  BY <1>1, <1>2 DEF Job, Fire, Load, Advance
<1> QED
  BY <1>3, <1>4, <1>5 DEF AutomationNext, automationVars, StartUp, Tick, Database, Scheduler

LEMMA ExecuteStart ==
  ASSUME TypeInv, StartInv, Execute(Start)
  PROVE  StartInv'
<1> DEFINE s == process[Start]
<1>1. /\ s \in ProcessRecord /\ Placed(Start, s) /\ s.at \in {"find", "act", "fail"}
      /\ Start \in Process /\ UNCHANGED <<rule, scheduler>>
  BY Typed DEF Execute, Find, Act, Fail, Process, Database, Scheduler
<1>2. Return(Start) = "schedule"
  BY AutomationAssumption DEF Return
<1>3. Entry(Start) \in Rule \X Source /\ Entry(Start) = <<s.rule, s.rows[s.rule].next>>
  BY <1>1 DEF Entry, Placed, StartInv
<1>4. \/ Become(Start, Idle)
      \/ \E step \in {"act", "fail"} : Goto(Start, step)
      \/ Goto(Start, "schedule") /\ log'[Entry(Start)] # "none"
  <2>1. CASE Find(Start)
    BY <1>2, <2>1 DEF Find, Database
  <2>2. CASE Act(Start)
    BY <1>2, <1>3, <2>2, Typed DEF Act
  <2>3. CASE Fail(Start)
    BY <1>2, <1>3, <2>3, Typed DEF Fail
  <2> QED
    BY <2>1, <2>2, <2>3 DEF Execute
<1>5. CASE Become(Start, Idle)
  BY <1>1, <1>5, RowTypes, Typed DEF Become, StartInv
<1>6. ASSUME NEW step \in {"act", "fail", "schedule"}, Goto(Start, step),
             step = "schedule" => log'[Entry(Start)] # "none"
      PROVE  StartInv'
  <2> DEFINE record == [s EXCEPT !.at = step]
  <2>1. /\ record.at = step /\ record.rule = s.rule /\ record.key = s.key
        /\ record.rows = s.rows /\ record.todo = s.todo /\ record.now = s.now
    BY <1>1 DEF ProcessRecord
  <2>2. process'[Start] = record
    BY <1>1, <1>6, Typed DEF Goto
  <2> HIDE DEF record
  <2>3. Pending(record) = Pending(s)
    BY <1>1, <1>6, <2>1 DEF Pending
  <2> QED
    BY <1>1, <1>3, <1>6, <2>1, <2>2, <2>3 DEF StartInv
<1> QED
  BY <1>4, <1>5, <1>6

LEMMA ReconcileNextStart ==
  ASSUME TypeInv, StartInv, ReconcileNext(Start)
  PROVE  StartInv'
<1> DEFINE s == process[Start]
<1>1. /\ s \in ProcessRecord /\ s.at = "next"
      /\ Start \in Process /\ UNCHANGED <<rule, log, scheduler>>
  BY Typed DEF ReconcileNext, Process, Database, Scheduler
<1> DEFINE Walk(r, row) ==
        LET step == [s EXCEPT !.rule = r, !.rows[r] = row, !.todo = @ \ {r}]
        IN Become(Start, IF Start = Start /\ Overdue(row, s.now)
                           THEN [step EXCEPT !.at = "find", !.key = row.next]
                           ELSE [step EXCEPT !.at = "schedule"])
<1>2. PICK r \in s.todo : \E row \in {s.rows[r], rule[r]} : Walk(r, row)
  BY DEF ReconcileNext
<1>3. r \in Rule /\ s.rows[r] = rule[r] /\ s.rows \in [Rule -> Row]
  BY <1>1 DEF StartInv, Pending, ProcessRecord
<1>4. Walk(r, rule[r])
  BY <1>2, <1>3
<1> DEFINE row == rule[r]
           step == [s EXCEPT !.rule = r, !.rows[r] = row, !.todo = @ \ {r}]
           found == [step EXCEPT !.at = "find", !.key = row.next]
           listed == [step EXCEPT !.at = "schedule"]
           record == IF Overdue(row, s.now) THEN found ELSE listed
<1>5. /\ record.rule = r /\ record.now = s.now
      /\ record.rows = [s.rows EXCEPT ![r] = row] /\ record.todo = s.todo \ {r}
      /\ \/ record.at = "find" /\ record.key = row.next
         \/ record.at = "schedule" /\ ~Overdue(row, s.now)
  BY <1>1 DEF ProcessRecord
<1>6. Become(Start, record)
  BY <1>4
<1> HIDE DEF record
<1>7. process'[Start] = record
  BY <1>1, <1>6, Typed DEF Become
<1>8. record.rows = s.rows
  BY <1>3, <1>5
<1>9. Pending(record) = Pending(s)
  BY <1>1, <1>2, <1>5 DEF Pending
<1> QED
  BY <1>1, <1>3, <1>5, <1>7, <1>8, <1>9 DEF StartInv

LEMMA ScheduleStart ==
  ASSUME TypeInv, StartInv, Schedule(Start)
  PROVE  StartInv'
<1> DEFINE s == process[Start]
           record == [s EXCEPT !.at = "next"]
<1>1. /\ s \in ProcessRecord /\ s.at = "schedule" /\ Start \in Process
      /\ UNCHANGED scheduler /\ Become(Start, record)
  BY Typed DEF Schedule, Goto, Become, Process
<1>2. record.at = "next" /\ record.rows = s.rows /\ record.todo = s.todo
  BY <1>1 DEF ProcessRecord
<1> HIDE DEF record
<1>3. process'[Start] = record
  BY <1>1, Typed DEF Become
<1>4. Pending(record) = s.todo /\ s.rule \notin s.todo /\ s.todo \subseteq Pending(s)
  BY <1>1, <1>2 DEF Pending, StartInv
<1>5. \A q \in Rule : q # s.rule => rule'[q] = rule[q]
  BY Typed DEF Schedule
<1>6. \A q \in s.todo : q \in Rule /\ s.rows[q] = rule'[q]
  BY <1>1, <1>4, <1>5 DEF StartInv, ProcessRecord
<1> QED
  BY <1>1, <1>2, <1>3, <1>4, <1>6 DEF StartInv

LEMMA StartStep ==
  ASSUME TypeInv, StartInv, [AutomationNext]_automationVars
  PROVE  StartInv'
<1>1. CASE scheduler = "starting"
  <2>1. CASE Stop
    BY <2>1, RowTypes DEF Stop, StartInv, Process
  <2>2. CASE ReconcileEnd(Start)
    BY <2>2, RowTypes, Typed DEF ReconcileEnd, Become, StartInv, Process
  <2>3. CASE UNCHANGED <<rule, log, actions, scheduler, process>>
    BY <2>3 DEF StartInv, Overdue
  <2> QED
    BY <1>1, <2>1, <2>2, <2>3, StartAlone, ExecuteStart, ReconcileNextStart, ScheduleStart
<1>2. CASE scheduler # "starting" /\ StartUp
  <2> DEFINE record == [Idle EXCEPT !.at = "next", !.now = clock, !.rows = rule, !.todo = Desired]
  <2>1. record.at = "next" /\ record.rows = rule /\ record.todo = Desired
    BY DEF Idle
  <2>2. Become(Start, record) /\ UNCHANGED rule /\ scheduler' = "starting"
    BY <1>2 DEF StartUp, Reconcile, Database
  <2> HIDE DEF record
  <2>3. process'[Start] = record
    BY <2>2, Typed DEF Become, Process
  <2> QED
    BY <2>1, <2>2, <2>3 DEF StartInv
\* The start is not under way, and nothing else begins it.
<1>3. CASE scheduler # "starting" /\ ~StartUp
  <2>1. process[Start].at = "idle" /\ Start \in Process
    BY <1>3 DEF StartInv, Process
  <2>2. ASSUME NEW p \in Process, Execute(p) \/ ReconcileNext(p) \/ ReconcileEnd(p) \/ Schedule(p)
        PROVE  p # Start /\ process'[Start] = process[Start]
    BY <2>1, <2>2, Typed
    DEF Execute, Find, Act, Fail, ReconcileNext, ReconcileEnd, Schedule, Become, Goto
  <2>3. ASSUME NEW c \in Client, Request(c)
        PROVE  process'[Start] = process[Start]
    <3>1. c # Start
      BY AutomationAssumption
    <3> QED
      BY <2>1, <2>3, <3>1, Typed
      DEF Request, BeginDispatch, DispatchNext, Create, BeginUpdate, CommitUpdate, Delete,
          Synchronize, Reconcile, Become
  <2>4. ASSUME NEW r \in Rule, Job(r)
        PROVE  process'[Start] = process[Start]
    <3>1. r # Start
      BY AutomationAssumption
    <3> QED
      BY <2>1, <2>4, <3>1, Typed DEF Job, Fire, Load, Advance, Become
  <2>5. process'[Start].at = "idle"
    <3>1. CASE Stop
      BY <2>1, <3>1, RowTypes DEF Stop
    <3> QED
      BY <1>3, <2>1, <2>2, <2>3, <2>4, <3>1 DEF AutomationNext, automationVars, Tick
  <2> QED
    BY <2>5 DEF StartInv
<1> QED
  BY <1>1, <1>2, <1>3

\* The start of the application does not move a next run that was due to a
\* later time before an execution of that run is logged, however often starts
\* before it were interrupted.
THEOREM DueRunsCaughtUpTheorem == AutomationSpec => DueRunsCaughtUp
<1>1. AutomationInit => TypeInv /\ StartInv
  BY TypeStart, RowTypes DEF AutomationInit, StartInv, Process
<1>2. TypeInv /\ StartInv /\ [AutomationNext]_automationVars => (TypeInv /\ StartInv)'
  BY TypeStep, StartStep
<1> DEFINE Late(r) ==
      /\ scheduler = "starting" /\ rule'[r].next # rule[r].next
      /\ rule[r].next # Null /\ rule[r].next <= process[Start].now
<1>3. ASSUME TypeInv, StartInv, [AutomationNext]_automationVars, NEW r \in Rule, Late(r)
      PROVE  log[<<r, rule[r].next>>] # "none"
  <2>1. rule' # rule
    BY <1>3
  <2>2. Schedule(Start)
    BY <1>3, <2>1, StartAlone
    DEF Stop, Execute, Find, Act, Fail, ReconcileNext, ReconcileEnd, Database
  <2>3. /\ process[Start].at = "schedule" /\ r = process[Start].rule
        /\ process[Start] \in ProcessRecord
    BY <1>3, <2>2, Typed DEF Schedule, Process
  <2>4. process[Start].rows[r] = rule[r]
    BY <1>3, <2>3 DEF StartInv, Pending
  <2> QED
    BY <1>3, <2>3, <2>4 DEF StartInv, Overdue
<1>4. TypeInv /\ StartInv /\ [AutomationNext]_automationVars =>
        [\A r \in Rule : Late(r) => log[<<r, rule[r].next>>] # "none"]_automationVars
  BY <1>3
<1> QED
  BY <1>1, <1>2, <1>4, PTL DEF AutomationSpec, DueRunsCaughtUp
=============================================================================
