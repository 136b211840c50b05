----------------------------- MODULE Automation -----------------------------
(***************************************************************************)
(* Automation rules: the requests that create, change and delete them and  *)
(* dispatch events to them (services/automation.py), and the scheduler     *)
(* that runs those with a schedule (services/automation_scheduler.py).     *)
(*                                                                         *)
(* A process is the thread of a request, the one running instance of a     *)
(* rule's job, or the start of the application.  A transaction commits in  *)
(* one step: SQLite has one writer.  What a process has read is kept in    *)
(* its record, since it reads outside its transactions.                    *)
(*                                                                         *)
(* Time is counted in minutes, the resolution of the keys of scheduled     *)
(* runs, and every step is taken after the minute has begun.               *)
(***************************************************************************)
EXTENDS Naturals, FiniteSets

CONSTANTS
  Rule,          \* identifiers of rules
  Client,        \* the requests that can be under way at once
  Event,         \* source keys of what is dispatched: a transaction, a due task
  Trigger,       \* the triggers clients give
  Null,          \* no value
  Start,         \* the process that starts the application
  MayFail,       \* whether actions may raise
  Grace,         \* the misfire grace time
  MaxTime,       \* the last minute
  MaxRevision    \* the revision clients do not go beyond

Kinds == {"event", "daily", "interval"}

ASSUME AutomationAssumption ==
  /\ Trigger \subseteq [kind : Kinds, every : Nat \ {0}]
  /\ MayFail \in BOOLEAN
  /\ Grace \in Nat /\ MaxTime \in Nat /\ MaxRevision \in Nat
  /\ Null \notin Rule \cup Client \cup {Start} \cup Nat \cup [trigger : Trigger, due : Nat]
  /\ Start \notin Rule \cup Client /\ Rule \cap Client = {}

VARIABLES
  clock,         \* the minute
  rule,          \* the automation_rules table
  log,           \* the executions: the status of each rule and source key
  actions,       \* how often the action of each rule was committed for a key
  job,           \* the jobs in the memory of the scheduler
  scheduler,     \* "down", "starting" or "running"
  lock,          \* who holds _scheduler_lock
  process        \* what each process is doing

automationVars == <<clock, rule, log, actions, job, scheduler, lock, process>>

Process == Rule \cup Client \cup {Start}
Minute == 0..MaxTime
Source == Event \cup Minute

Recurring(trigger) == trigger.kind # "event"

\* next_scheduled_run: a daily or weekly schedule is kept, an interval starts
\* anew from now.
NextRun(trigger, now) ==
  CASE trigger.kind = "event" -> Null
    [] trigger.kind = "daily" -> (now \div trigger.every + 1) * trigger.every
    [] trigger.kind = "interval" -> now + trigger.every

Row ==
  [state : {"none", "enabled", "disabled", "deleted"},
   trigger : Trigger \cup {Null}, next : Nat \cup {Null}, revision : Nat]

NoRow == [state |-> "none", trigger |-> Null, next |-> Null, revision |-> 0]

Steps ==
  {"idle", "update", "sync", "next", "schedule", "load", "dispatch", "find", "act",
   "fail", "advance"}

ProcessRecord ==
  [at : Steps, rule : Rule \cup {Null}, key : Source \cup {Null}, now : Minute,
   rows : [Rule -> Row], todo : SUBSET Rule]

Idle ==
  [at |-> "idle", rule |-> Null, key |-> Null, now |-> 0,
   rows |-> [r \in Rule |-> NoRow], todo |-> {}]

\* Every variable holds what it is declared to hold; only a process that
\* holds the lock changes jobs.
AutomationTypeOK ==
  /\ clock \in Minute
  /\ rule \in [Rule -> Row]
  /\ log \in [Rule \X Source -> {"none", "succeeded", "skipped", "failed"}]
  /\ actions \in [Rule \X Source -> Nat]
  /\ job \in [Rule -> [trigger : Trigger, due : Nat] \cup {Null}]
  /\ scheduler \in {"down", "starting", "running"}
  /\ lock \in Process \cup {Null}
  /\ process \in [Process -> ProcessRecord]
  /\ \A p \in Process : process[p].at = "schedule" => lock = p

AutomationInit ==
  /\ clock = 0
  /\ rule = [r \in Rule |-> NoRow]
  /\ log = [e \in Rule \X Source |-> "none"]
  /\ actions = [e \in Rule \X Source |-> 0]
  /\ job = [r \in Rule |-> Null]
  /\ scheduler = "down"
  /\ lock = Null
  /\ process = [p \in Process |-> Idle]

-----------------------------------------------------------------------------

Become(p, record) == process' = [process EXCEPT ![p] = record]
Goto(p, step) == process' = [process EXCEPT ![p].at = step]

Runs(row) == row.state = "enabled"
Active(row) == row.state \in {"enabled", "disabled"}
Desired == {r \in Rule : Runs(rule[r]) /\ Recurring(rule[r].trigger)}
Listening == {r \in Rule : Runs(rule[r]) /\ ~Recurring(rule[r].trigger)}

Database == <<rule, log, actions>>
Scheduler == <<job, scheduler, lock>>

-----------------------------------------------------------------------------
(* One execution: the rule process[p].rule for the key process[p].key. *)

Entry(p) == <<process[p].rule, process[p].key>>

\* What p does once the execution has been logged.
Return(p) ==
  CASE p = Start -> "schedule" [] p \in Rule -> "advance" [] p \in Client -> "dispatch"

Find(p) ==
  /\ process[p].at = "find"
  /\ Goto(p, IF log[Entry(p)] = "none" THEN "act" ELSE Return(p))
  /\ UNCHANGED <<clock, Database, Scheduler>>

\* Mutant: the action is committed by itself.
ActThenLog(p) ==
  /\ process[p].at = "act"
  /\ \/ /\ actions' = [actions EXCEPT ![Entry(p)] = @ + 1]
        /\ log' = [log EXCEPT ![Entry(p)] = IF @ = "none" THEN "succeeded" ELSE @]
        /\ Goto(p, Return(p))
     \/ /\ log[Entry(p)] = "none"
        /\ log' = [log EXCEPT ![Entry(p)] = "skipped"]
        /\ Goto(p, Return(p))
        /\ UNCHANGED actions
     \/ /\ MayFail
        /\ Goto(p, "fail")
        /\ UNCHANGED <<log, actions>>
  /\ UNCHANGED <<clock, rule, Scheduler>>

\* The action, if the conditions match, and its log commit together, or not
\* at all if the key has been taken since it was looked for.  An action that
\* violates a constraint of its own ends the request or the job unlogged.
Act(p) ==
  /\ process[p].at = "act"
  /\ \/ /\ log[Entry(p)] = "none"
        /\ \/ /\ log' = [log EXCEPT ![Entry(p)] = "succeeded"]
              /\ actions' = [actions EXCEPT ![Entry(p)] = @ + 1]
           \/ /\ log' = [log EXCEPT ![Entry(p)] = "skipped"]
              /\ UNCHANGED actions
        /\ Goto(p, Return(p))
     \/ /\ log[Entry(p)] # "none"
        /\ Goto(p, Return(p))
        /\ UNCHANGED <<log, actions>>
     \/ /\ MayFail
        /\ Goto(p, "fail") \/ Become(p, Idle)
        /\ UNCHANGED <<log, actions>>
  /\ UNCHANGED <<clock, rule, Scheduler>>

\* The failure is logged under the same key; if it has been taken, the
\* request or the job ends with that exception.
Fail(p) ==
  /\ process[p].at = "fail"
  /\ \/ /\ log[Entry(p)] = "none"
        /\ log' = [log EXCEPT ![Entry(p)] = "failed"]
        /\ Goto(p, Return(p))
     \/ /\ log[Entry(p)] # "none"
        /\ Become(p, Idle)
        /\ UNCHANGED log
  /\ UNCHANGED <<clock, rule, actions, Scheduler>>

Execute(p) == Find(p) \/ Act(p) \/ Fail(p)

-----------------------------------------------------------------------------
(* Dispatch: a service after its commit, or the scan of approaching events *)
(* and overdue tasks, which dispatches the same keys every minute.         *)

BeginDispatch(c) ==
  /\ process[c].at = "idle" /\ scheduler = "running"
  /\ \E k \in Event :
       Become(c, [Idle EXCEPT !.at = "dispatch", !.key = k, !.todo = Listening])
  /\ UNCHANGED <<clock, Database, Scheduler>>

DispatchNext(c) ==
  /\ process[c].at = "dispatch"
  /\ \/ /\ process[c].todo = {}
        /\ Become(c, Idle)
     \/ \E r \in process[c].todo :
          Become(c, [process[c] EXCEPT !.at = "find", !.rule = r, !.todo = @ \ {r}])
  /\ UNCHANGED <<clock, Database, Scheduler>>

-----------------------------------------------------------------------------
(* Requests on rules: each commits, and then synchronizes the scheduler. *)

Create(c) ==
  /\ process[c].at = "idle" /\ scheduler = "running"
  /\ \E r \in Rule, t \in Trigger, state \in {"enabled", "disabled"} :
       /\ rule[r].state = "none"
       /\ rule' = [rule EXCEPT ![r] =
            [state |-> state, trigger |-> t,
             next |-> NextRun(t, clock), revision |-> 1]]
  /\ Become(c, [Idle EXCEPT !.at = "sync"])
  /\ UNCHANGED <<clock, log, actions, Scheduler>>

\* The new values are made from the row as it is read; next_run_at is
\* computed from now whatever the request changes.
BeginUpdate(c) ==
  /\ process[c].at = "idle" /\ scheduler = "running"
  /\ \E r \in Rule, t \in Trigger, state \in {"enabled", "disabled"} :
       /\ Active(rule[r]) /\ rule[r].revision < MaxRevision
       /\ Become(c, [Idle EXCEPT !.at = "update", !.rule = r,
            !.rows[r] = [rule[r] EXCEPT
              !.state = state, !.trigger = t,
              !.next = IF state = "enabled" THEN NextRun(t, clock) ELSE Null]])
  /\ UNCHANGED <<clock, Database, Scheduler>>

CommitUpdate(c) ==
  /\ process[c].at = "update"
  /\ LET r == process[c].rule
         values == process[c].rows[r]
     IN \/ /\ Active(rule[r]) /\ rule[r].revision = values.revision
           /\ rule' = [rule EXCEPT ![r] = [values EXCEPT !.revision = @ + 1]]
           /\ Become(c, [Idle EXCEPT !.at = "sync"])
        \/ /\ ~Active(rule[r]) \/ rule[r].revision # values.revision
           /\ Become(c, Idle)
           /\ UNCHANGED rule
  /\ UNCHANGED <<clock, log, actions, Scheduler>>

Delete(c) ==
  /\ process[c].at = "idle" /\ scheduler = "running"
  /\ \E r \in Rule :
       /\ Active(rule[r])
       /\ rule' = [rule EXCEPT ![r].state = "deleted", ![r].revision = @ + 1]
  /\ Become(c, [Idle EXCEPT !.at = "sync"])
  /\ UNCHANGED <<clock, log, actions, Scheduler>>

-----------------------------------------------------------------------------
(* reconcile_scheduler, by a request or by the start of the application. *)

\* Mutant: the jobs of other rules stay.
ReconcileDesired(p) ==
  /\ Become(p, [Idle EXCEPT !.at = "next", !.now = clock, !.rows = rule, !.todo = Desired])
  /\ UNCHANGED <<clock, Database, job>>

\* The jobs of rules that have none any more are removed.
Reconcile(p) ==
  /\ Become(p, [Idle EXCEPT !.at = "next", !.now = clock, !.rows = rule, !.todo = Desired])
  /\ job' = [r \in Rule |-> IF r \in Desired THEN job[r] ELSE Null]
  /\ UNCHANGED <<clock, Database>>

\* Mutant: the lock is not waited for.
SynchronizeAtOnce(c) ==
  /\ process[c].at = "sync"
  /\ lock' = c
  /\ Reconcile(c)
  /\ UNCHANGED scheduler

Synchronize(c) ==
  /\ process[c].at = "sync"
  /\ lock = Null
  /\ lock' = c
  /\ Reconcile(c)
  /\ UNCHANGED scheduler

StartUp ==
  /\ scheduler = "down"
  /\ scheduler' = "starting"
  /\ lock' = Start
  /\ Reconcile(Start)

\* Mutant: a run that is due right now is not caught up.
DueBefore(row, now) == row.next # Null /\ row.next < now

Overdue(row, now) == row.next # Null /\ row.next <= now

\* The row is the one the list was read with, or has been loaded again since
\* after a commit for another rule.  The start of the application makes up
\* for a run that was due while it was down.
ReconcileNext(p) ==
  /\ process[p].at = "next"
  /\ \E r \in process[p].todo : \E row \in {process[p].rows[r], rule[r]} :
       LET step == [process[p] EXCEPT !.rule = r, !.rows[r] = row, !.todo = @ \ {r}]
       IN Become(p, IF p = Start /\ Overdue(row, process[p].now)
                      THEN [step EXCEPT !.at = "find", !.key = row.next]
                      ELSE [step EXCEPT !.at = "schedule"])
  /\ UNCHANGED <<clock, Database, Scheduler>>

ReconcileEnd(p) ==
  /\ process[p].at = "next" /\ process[p].todo = {}
  /\ Become(p, Idle)
  /\ lock' = Null
  /\ scheduler' = "running"
  /\ UNCHANGED <<clock, Database, job>>

\* When a job with this trigger fires next, if it would have fired at due.
FiresAt(trigger, due) ==
  IF trigger.kind = "daily" THEN NextRun(trigger, clock)
  ELSE IF due > clock THEN due
  ELSE due + trigger.every * ((clock - due) \div trigger.every + 1)

\* The job is replaced whether its trigger has changed or not, and
\* next_run_at is written if it is not what it would be from now.
Schedule(p) ==
  /\ process[p].at = "schedule"
  /\ LET r == process[p].rule
         row == process[p].rows[r]
         next == NextRun(row.trigger, process[p].now)
     IN \/ /\ Recurring(row.trigger)
           /\ job' = [job EXCEPT ![r] = [trigger |-> row.trigger, due |-> FiresAt(row.trigger, next)]]
           /\ rule' = [rule EXCEPT ![r].next = IF row.next # next THEN next ELSE @]
        \/ /\ ~Recurring(row.trigger)
           /\ UNCHANGED <<rule, job>>
  /\ Goto(p, "next")
  /\ UNCHANGED <<clock, log, actions, scheduler, lock>>

-----------------------------------------------------------------------------
(* Jobs. *)

\* The runs missed meanwhile are one, the last; it is dropped if it is too
\* late, or if it comes while the one before is running.
Fire(r) ==
  LET next == FiresAt(job[r].trigger, job[r].due)
      last == next - job[r].trigger.every
  IN /\ scheduler = "running"
     /\ job[r] # Null
     /\ job[r].due <= clock
     /\ job' = [job EXCEPT ![r].due = next]
     /\ \/ /\ process[r].at = "idle" /\ clock <= last + Grace
           /\ Become(r, [Idle EXCEPT !.at = "load"])
        \/ /\ process[r].at # "idle" \/ clock > last + Grace
           /\ UNCHANGED process
     /\ UNCHANGED <<clock, Database, scheduler, lock>>

\* The job runs for the minute in which it runs.
Load(r) ==
  /\ process[r].at = "load"
  /\ Become(r,
       IF Runs(rule[r]) /\ Recurring(rule[r].trigger)
       THEN [Idle EXCEPT !.at = "find", !.rule = r, !.key = clock, !.rows[r] = rule[r]]
       ELSE Idle)
  /\ UNCHANGED <<clock, Database, Scheduler>>

\* next_run_at is written by the trigger the job has loaded.
Advance(r) ==
  /\ process[r].at = "advance"
  /\ rule' = [rule EXCEPT ![r].next = NextRun(process[r].rows[r].trigger, clock)]
  /\ Become(r, Idle)
  /\ UNCHANGED <<clock, log, actions, Scheduler>>

-----------------------------------------------------------------------------

\* The application stops or dies, and its jobs with it.
Stop ==
  /\ scheduler # "down"
  /\ scheduler' = "down"
  /\ job' = [r \in Rule |-> Null]
  /\ lock' = Null
  /\ process' = [p \in Process |-> Idle]
  /\ UNCHANGED <<clock, Database>>

Tick ==
  /\ clock < MaxTime
  /\ clock' = clock + 1
  /\ UNCHANGED <<Database, Scheduler, process>>

Request(c) ==
  \/ BeginDispatch(c) \/ DispatchNext(c)
  \/ Create(c) \/ BeginUpdate(c) \/ CommitUpdate(c) \/ Delete(c) \/ Synchronize(c)

Job(r) == Fire(r) \/ Load(r) \/ Advance(r)

AutomationNext ==
  \/ Tick \/ StartUp \/ Stop
  \/ \E p \in Process : Execute(p) \/ ReconcileNext(p) \/ ReconcileEnd(p) \/ Schedule(p)
  \/ \E c \in Client : Request(c)
  \/ \E r \in Rule : Job(r)

AutomationSpec == AutomationInit /\ [][AutomationNext]_automationVars

-----------------------------------------------------------------------------
(* Properties. *)

\* An action is committed once for a key that is logged as succeeded, and
\* not at all for any other, however often the key is dispatched, by
\* however many requests, jobs and starts of the application
\* (docs/automation.md: repeated dispatch cannot repeat the action; actions
\* and their success log commit together).
ActedAsLogged ==
  \A e \in Rule \X Source : actions[e] = IF log[e] = "succeeded" THEN 1 ELSE 0

\* Unless a request on a rule is between its commit and the end of its
\* synchronization, the scheduler has exactly the jobs of the enabled
\* recurring rules, with their triggers.
JobsFollowRules ==
  (scheduler = "running" /\ \A c \in Client : process[c].at \notin {"sync", "next", "schedule"}) =>
    \A r \in Rule :
      IF r \in Desired THEN job[r] # Null /\ job[r].trigger = rule[r].trigger
      ELSE job[r] = Null

\* The start of the application does not move a next run that was due to a
\* later time before an execution of that run is logged, whatever start
\* before it was interrupted where.
DueRunsCaughtUp ==
  [][\A r \in Rule :
       /\ scheduler = "starting" /\ rule'[r].next # rule[r].next
       /\ rule[r].next # Null /\ rule[r].next <= process[Start].now
       => log[<<r, rule[r].next>>] # "none"]_automationVars

\* An occurrence is not executed once a later one has been (automation.md:
\* stored keys prevent the replay of an occurrence that is recorded).
NoReplay ==
  [][\A r \in Rule : \A n, m \in Minute :
       log[<<r, n>>] = "none" /\ log'[<<r, n>>] # "none" /\ n < m => log[<<r, m>>] = "none"]_automationVars

\* When nothing is under way, the next run of a rule is one of its schedule.
NextRunFollowsSchedule ==
  (scheduler = "running" /\ \A p \in Process : process[p].at = "idle") =>
    \A r \in Desired : \E now \in 0..clock : rule[r].next = NextRun(rule[r].trigger, now)
=============================================================================
