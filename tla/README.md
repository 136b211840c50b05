# LocalLife OS verification

TLA+ modules, TLC runs and TLAPS proofs about LocalLife OS, the local-first personal
workspace in `src/`: a FastAPI service over SQLite (`src/apps/api/app`), a scheduler
thread inside it, a command line launcher, and a Next.js client (`src/apps/web`). Paths
below are relative to `src/apps/api/app` unless they start with `docs/`.

The modules are about what is hard to test there: requests that read, think and write
while other requests commit; two stores, files and rows, that must agree; operations of
many steps of which one fails, or during which the process dies; records that refer to each
other through long sequences of legal calls; and the calculations that people rely on
without checking them, of free time, of money and of risk.

## The system

### Concurrency, as the code has it

* Synchronous endpoints run on a pool of worker threads, `async` ones (only the
  attachment upload) on the event loop, scheduled jobs on threads of APScheduler, and the
  launcher's `backup` and `restore` in processes of their own.
* A request has a SQLAlchemy session to itself (`db/session.py`). With the default
  transaction mode of `sqlite3` a SELECT takes no lock and sees the last commit; the first
  INSERT, UPDATE or DELETE takes the one writer lock, which is held to the commit or the
  rollback (`db/transactions.py`). A request is thus a sequence of single reads, between
  any two of which others may commit, and one atomic write. That is the step structure of
  every module about requests.
* Rows carry a `revision`. `repositories/revisioned.py` updates `WHERE revision =
  expected`; several services write through the ORM instead, which writes the changed
  columns of the row with that identifier whatever its revision has become.
* `STORAGE_LOCK` (`services/storage_lock.py`), a reentrant lock of the process, orders
  what touches attachment files.

### Components

| Component | State | Operations | What is hard | What makes it correct |
|---|---|---|---|---|
| Tasks (`services/tasks.py`) | tasks, dependency edges | create, update, bulk complete and reschedule, delete, add and remove dependency | validation on rows read before the transaction; trees and graphs spread over rows | acyclic tree and graph, links to live rows, revision discipline, bulk atomicity, status transitions |
| Projects (`services/projects.py`) | projects | create, rename, archive | tasks check the project before they write | archived projects receive no task |
| Scheduling (`services/scheduling*.py`) | previews with evidence and placements | preview, apply | evidence read in several SELECTs; time between preview and apply | applied once, on what was reviewed, where it fits |
| Calendar events (`services/calendar.py`) | events | create, update, move, delete | they are evidence of previews | a plan does not overlap a busy event |
| Scenario Lab (`services/scenarios.py`) | scenarios, changes | create, rename, discard, add/edit/remove change, preview, accept | review by fingerprint outside the transaction; in-memory revisions | what was reviewed is what is applied, all of it, once |
| Attachments (`services/attachments.py`) | rows and files | upload, delete, download | two stores, a lock held over an `await` | a row has its bytes, bytes have a row |
| Backup, restore, delete-all (`services/backups.py`, `services/privacy.py`) | archives, staged directories | create, restore, delete everything | failure or crash between renames, two processes | all or nothing, nothing lost, honest reports |
| Demo data (`services/demo_data.py`) | reserved rows and files | load, reset | as attachments | as attachments |
| Automation (`services/automation*.py`) | rules, executions, jobs | create and edit rules, dispatch events, scheduled runs, catch-up | idempotency keys, crash between execution and next run | a trigger runs a rule once; a missed run is made up for |
| Imports (`services/*imports.py`, `import_files.py`) | batches, rows, mapping profiles | preview, map, select, apply, profiles | duplicates and edits appear between preview and apply; requests overlap on a batch | a line is imported once; rows say what became of them |
| Finance (`services/finance_*.py`, `subscriptions.py`) | accounts, categories, transactions, plans, rules, subscriptions, budgets | create, change, delete, fulfil, generate, pause | derived entries, occurrences generated twice, a plan fulfilled twice | one plan per occurrence, one transaction per plan, references to active rows |
| Reports (`services/finance_reports.py`, `finance_calculations.py`) | none | cash flow, spending, committed balance, budgets | the same money is a plan, an occurrence and a transaction in turn | each amount counts once; totals agree |
| Goals (`services/goals.py`) | savings goals, goals | create, change, contribute, delete | sums computed from an earlier read | no contribution is lost |
| Commitments (`services/commitment*.py`) | commitments, links | create, change, archive, delete, link, assess | PATCHes validated with fields of an earlier read; a risk assessment of many kinds of evidence | terms that fit together; no warning hidden |
| Notes, tags, links (`services/notes.py`, `tags.py`, `domain_links.py`) | notes, tags, typed links | create, change, delete, link | links without foreign keys | links to what exists |
| Capacity and solver (`services/scheduling_intervals.py`, `scheduling_capacity.py`, `scheduling_solver.py`) | none | intervals, days, windows, constraints | seconds against minutes, clipped and adjoining intervals, days | windows are exactly the suitable free time; plans keep the limit of a day |
| Timelines (`services/timelines.py`) | events | record, list | | |
| Recurrence (`services/recurrence.py`) | none | expand rules | bounds, time zones | complete and bounded expansion |
| Launcher (`launcher.py`) | PID file, child processes | start, stop, status, doctor, backup, restore | stale PID files, half-started pairs | no orphan, no double start |
| Shell, schema, web client | configuration, tables, query caches | wiring | | |

Requests interact through the database; automation is dispatched by other services after
their commit; previews and scenario reviews read what the task, calendar and finance
services write; backups read everything. `PROJECT.json` lists the components with their
files, and every hazard at its line.

## Modules

| Module | Models | Composition |
|---|---|---|
| `TaskLifecycle` | the life of task rows as one-step operations: the abstract specification | |
| `Tasks` | the task service, one action per database step of a request | implements `TaskLifecycle` (`LifecycleImplemented`) |
| `TasksProofs` | theorems of `Tasks` | EXTENDS `Tasks` |
| `Scheduling` | previews and their application | EXTENDS `Tasks`: task, event and scheduling requests interleave; still implements `TaskLifecycle` |
| `Capacity` | free time, daily capacity, the windows and constraints of the solver: pure operators | |
| `Scenarios` | Scenario Lab | EXTENDS `TaskLifecycle`, which stands for the task endpoints |
| `SchedulingProofs` | theorems of `Scheduling`, and of `Capacity` what the solver is offered | EXTENDS `Scheduling`, `Capacity`, `TasksProofs` |
| `ScenariosProofs` | theorems of `Scenarios` | EXTENDS `Scenarios` |
| `Storage` | attachments, backups, delete-all, demo data, the storage lock, the worker pool | |
| `StorageProofs` | theorems of `Storage` | EXTENDS `Storage` |
| `Restore` | activating a backup, call by call | |
| `RestoreProofs` | theorems of `Restore` | EXTENDS `Restore` |
| `Automation` | rules, their executions, the scheduler and its jobs | |
| `AutomationProofs` | theorems of `Automation` | EXTENDS `Automation` |
| `Imports` | batches of CSV and calendar rows, with the ledger and the calendar they go to | |
| `ImportsProofs` | theorems of `Imports` | EXTENDS `Imports` |
| `Records` | tables of revisioned rows and the shape of a request | |
| `Finance` | accounts, categories, transactions, plans | EXTENDS `Records` |
| `Recurring` | recurrence rules and subscriptions | EXTENDS `Finance` |
| `Goals` | savings goals, goals, budgets | EXTENDS `Recurring` |
| `Notes` | notes, tags, links | EXTENDS `Goals` |
| `Commitments` | commitments and their links | EXTENDS `Notes` |
| `LifeRecords` | the specification of the seven above together | EXTENDS `Commitments` |
| `RecordsProofs` | theorems of `LifeRecords`, and of `Assessment` how it warns | EXTENDS `LifeRecords` and `Assessment` |
| `Assessment` | the assessment of a commitment: a pure function of evidence | |
| `Reports` | balances, cash flow, spending, committed balance, budgets, and the evidence of an assessment, read off the records | EXTENDS `LifeRecords` and `Assessment` |
| `MC*` | constants, request bodies, workloads and symmetry of the runs; pure operators over bounded inputs | EXTEND the module they check |

### Tasks and TaskLifecycle

`task` is the table: per identifier its state (absent, active, soft-deleted), revision,
status, whether `completed_at` is set, parent, project and scheduled interval.
`dependency` is `task_dependencies`. `request[r]` is what the request holds in Python
variables: the rows it has read, the revisions the client sent, the patch. `Begin*`
actions receive a request and make the first read, `ReadItem` reads the next row of a bulk
request, `Check*` are the validations that read (parent walk, project, graph), `Commit*`
are the transactions with all they contain: row writes, deleted edges, detached
children, and the conflict that rolls everything back. Titles, descriptions, priorities
and timeline events are left out. Recurring task occurrences are reads.

`TaskLifecycle` says what a client may rely on for one row: it appears at revision 1, a
write checks the transition against the row it overwrites and takes it to the next
revision, completion marks follow the status, a deleted row never changes.
`LifecycleImplemented` maps `task` onto it.

### Scheduling

A preview reads the selected tasks, dependencies with their targets, the scheduled
tasks and the calendar in that order, one step each, and stores placements with this
evidence. The solver (CP-SAT or its fallback) is *any* placement that satisfies the
constraints it enforces. Applying reads the evidence again, compares (the fingerprint is
the evidence itself: a hash without collisions), and writes placements and `applied_at`
in one step. A preview may expire at any time. Every interval is long enough for every
task, dependencies are finish-to-start, and a bulk reschedule uses one interval for its items.

### Capacity

What `Scheduling` abstracts to any placement is here in the detail of the code: merging,
intersection and subtraction of intervals, the minutes of a day that are committed, free
for focus and left under the daily limit, the windows offered to the solver for a task,
and the hard constraints of a plan. Instants are seconds, since the code rounds starts up
and ends down to whole minutes; days are intervals, since their instants come from the
time zone data. The operators are functions of one request, so there is no state:
`MCScheduling` evaluates them over all small inputs as assumptions of its runs
(`MergeIsUnion`, `TimeIsSets`, `WindowsAreRight`, `PlansKeepLimits`).

`PlansKeepLimits` says that a plan which satisfies the constraints takes free time only and
that the capacity report shows afterwards what it promised before. It has two
preconditions, and the evaluation fails without either: intervals of whole minutes (parts
of minutes are not counted, so a day can hold more than its report says), and no
task over midnight, which is charged to the day it starts in.

### Scenarios

`scenario` and `change` are the tables, `workload` says which clients call which
operations in one behaviour, `review` is the fingerprint a client holds. The
targets are tasks; projects, events, planned transactions and the rest take the same
code path. Acceptance lists the changes, checks staleness and fingerprint, lists the
changes *again*, loads the first record, and then applies and commits; the reads of the
further records happen after the first flush and are part of the commit. Changes are
applied in any order, since `list_for_scenario` orders by creation and a change targets
one record.

### Storage

`row`, `file` and `temp` are the attachment table, the attachment directory and its
`.upload` files, `staged` what delete-all moved aside, `backup` the archives as pairs of
named rows and contained files. `holders` are the requests inside `STORAGE_LOCK`: either
any number of uploads, which share the loop's thread, or one other request. `loop` is the
upload the event loop is blocked on. A read of an upload needs a worker thread. `Fault`
names the calls that may raise, and `Crash` kills the process between any two steps: a
request under way is then "killed", its handlers never run, and the lock is free.
File contents are one value per identifier. The directories of imports and backups are
left out: all that is kept of them is that staging one of them may raise (`StageOthers`),
and that the attachments, which are put back last, are not put back if one of them cannot be.

Delete-all is a step for each call. It renames the directory (`StageDirectory`), makes a
new one (`MakeRoot`), stages the others, and empties the database. Only after the new
directory is made is the rename on the list of what is to be put back: if that call raises,
the files stay aside (`Strand`). Putting back is two calls, of which the first ignores its own
errors (`ClearRoot`: an `rmtree`) and the second may raise (`PutBack`: a rename). It does
raise without any fault if an upload has made its directory between the two, for which
uploads take no lock.

No start of the application and no download looks for a directory that a delete-all has left
aside (`LeftAside`: it was killed, or could not put it back). `RowHasFile` and
`BackupConsistent` therefore say where bytes are, and not that they are in place: in the
directory, or in the one that such a delete-all or one under way has moved aside. What they
exclude is that bytes are lost, by whatever fails, dies or interleaves. That the bytes
are in place after a delete-all that failed is `FailedDeleteAllRollsBack`, which the code does
not keep.

### Restore

`live` is the database file and the attachments directory, `kept[a]` and `copy[a]` the
files that carry the identifier of attempt `a`, `safety[a]` its pre-restore backup. Each
file system call of `_activate_restore`, of its exception handler and of its `finally`
clause is a step that may raise; `Crash` may come between any two, or inside a copy or a
removal. Attempts follow each other, with use of the application in between, and may
restore a safety backup. `OutcomeIsTrue` says what each outcome reported to the user
means; of a rollback, that the original database is back, which is the half of the
promise that the code keeps. `RolledBackMeansOriginal` is the whole.

### Automation

`clock` counts minutes, the resolution of the key of a scheduled run. `rule` is
`automation_rules`; `log` is `automation_executions` as a map from rule and source key to
a status, so its unique constraint is its shape, and the paths that meet the constraint
(`Act` and `Fail` with a taken key) are explicit; `actions` counts what actions have
committed. The key also names the trigger type, which is the same for every schedule.
`job` is the memory of APScheduler, `lock` is `_scheduler_lock`, and `process[p]` holds the Python
variables of a thread: a request, the one running instance of a rule's job
(`max_instances=1`), or the start of the application.

A request on a rule commits and then synchronizes the scheduler, as two steps. A
synchronization takes the lock, lists the enabled rules, removes the jobs of all others and then goes
rule by rule; a commit inside it expires what it has read, so each row is the one listed or
one loaded again. A start does the same, but first executes a run that was due while the
application was down, under the key of the minute that was due. An execution looks for
its key, commits action and log together, and logs a failure in a second transaction, unless the action
violated a constraint, which ends the request or the job.
Jobs fire at most once for all the runs they missed, if the last is not beyond `Grace` (one hour in the
code), and not while the instance before runs. `Stop` ends the application at any step, in an orderly
way or not: nothing of a process survives either. Conditions and actions are an outcome:
done, skipped, or raised. A dispatch stands for a service after its commit
and for the scan of approaching events and overdue tasks, which dispatches the same keys again.

### Imports

A file becomes a batch with a row per line. What a line says under a mapping of its
columns is a constant, an item: the key that identifies it (import fingerprint, UID) and
its value; the external identifiers of transactions entered by hand are left out. `Lines` gives statements that overlap, mappings that read a line differently,
and versions of a calendar. A request reads outside of a transaction and writes in one;
batches and rows have no revision, and an UPDATE writes only the columns that differ from
what the request has read, which `Written` spells out. Each application of a calendar
row compares the revision of its event, of a CSV row looks for its fingerprint again. The ledger and the
calendar are also edited by hand between any two steps. `known`,
`from` and `edited` are not columns; properties ask for them.

### Records: finance, goals, notes, commitments

These services share one shape, which `Records` states once. A request reads and validates
(`Begin*`, one step: a row that passed validation can only stop being valid, so the last moment is the
weakest one), and then commits one transaction in which `Refusable` lists what the code
notices: a revision that is no longer current, a unique index (`held`; deleted rows
count), a row asked for again inside the transaction that is gone, a link inserted
while it is still there (the flush inserts before it deletes). `Refused` is the transaction that
fails; it leaves nothing. Everything else that has changed between the two is not noticed, and that is
what the properties are about.

The tables are in `db`, link rows of all kinds in `links`. Amounts are small numbers, a
schedule is the set of the times its rule expands to, a budget is the set of its limits,
the money and dates of a commitment are what `WellShaped` relates. Names, texts and payees
are left out, and the days of posted transactions are a parameter of the reports. `born` of a plan, `plan` of a
transaction and `set`, `given` of a savings goal are not columns but what properties ask for.
A behaviour belongs to a workload: the clients and the operations of one area, chosen at
`Init`, since all areas at once multiply states without meeting anywhere but in the links.

### Reports and Assessment

A report is one step over the records and a range of days. `Reports` keeps which rows
count in which column: posted transactions, open plans, occurrences that no open plan
stands in for, linked rules that their subscription represents. The days on which
transactions occurred are whatever the client sends, and only reports read them, so they are
no column of the records but a parameter of each report (`occurred`); the properties speak of every
choice of them, and of every range. The boundaries are those of the code: the committed balance counts
transactions up to `as_of` and plans from `as_of` on, a cash flow opens with all transactions before
its range. `FulfilmentMovesAmount` says what this makes of posting a plan: its amount leaves the
ranges in which it was due and enters those in which the transaction is dated, so that
`effectively_available` falls when an overdue plan is posted, rises when
the transaction is dated after `as_of`, and else stays the same. Months, names, the opening balances of
accounts, buffers and the costs of commitments are left out, and the budgets of an assessment share
one period.

`Assessment` is the whole of the rules by which a commitment is on track, at risk or
blocked: time, money, dependencies, deadlines, with the evidence as a record.
`Reports.Evidence` collects it from the records; `MCRecords` evaluates the task rules over all
small graphs and the time rules over all small sums (`SomeTaskStarts`: open work that no
graph blocks for ever can begin somewhere; `TimeAccounted`: unscheduled time is never more than
is asked for; `WarningsShown`).

## Runs

Every run finishes within five minutes on two workers. Runs that expect a violation check
one statement of the documentation and are listed as findings, with the quote, in
`PROJECT.json`, which also names the properties of each run and, for each, a change of the
code that breaks it.

| Run | Shows |
|---|---|
| `lifecycle` | two clients, two tasks, all interleavings of create, update, bulk complete, delete: types, completion marks, optimistic reads, revisions, bulk atomicity, refinement of `TaskLifecycle` |
| `relations` | one client, three tasks in trees and graphs, or two that are planned: the cycle checks and the link clean-up are right as algorithms; a plan is applied only where it still fits and in the order of the dependencies; free time and capacity over small inputs |
| `sched_concurrent` | two clients: a preview is applied once, on the rows the solver saw |
| `scenarios` | acceptance is all or nothing, one change per record; for one client, what was reviewed is what is applied, and a settled scenario is final |
| `storage_failures` | four requests, any call failing, those of the clean-up included, and a crash at any step: no bytes of a row or of a backup are lost, and those that are not in place are where a delete-all has set them aside |
| `storage_live` | three requests with a worker each, demo data included: every request ends; when all is quiet there are exactly the bytes the rows name, if no removal fails and delete-all does not after its first rename |
| `restore_failures` | two restores, any failure and crash: nothing lost, outcomes are true, recovery errors name what to recover |
| `restore_rename` | (violation) one failure after which the rollback reported as complete leaves the attachments aside |
| `automation` | two requests at a time, the job of a rule, failing actions, restarts at any step: one action per success, jobs follow rules, missed runs are made up for |
| `imports` | statements and calendars previewed, mapped, selected and applied among edits by hand, also by two clients at once: nothing is imported twice; for one client, every row says what became of it and an applied batch stays as it is |
| `records` | every request of one client, and overlapping requests of two where they meet: occurrences planned once, plans fulfilled once, contributions and prices kept, what is closed stays closed, posting a plan moves its amount from the days it is due to the day it is dated and changes no other total; for one client, references lead to active rows and balances are what came in less what went out; assessments over small evidence |
| `counted` | (violation) an occurrence whose plan is fulfilled is counted again as a projection |

### Beside the runs

These configurations are checked by hand with `tlc -config <file> <module>`, the module
being the part of the name before `_`, and `-continue` where two properties are named. They
are counterexamples: statements one would like to make about the code, that it does not
keep. They are the other side of the properties above, which hold under the conditions of their
runs (one client, say), and the hazards in `PROJECT.json` name them.

| Configuration | Property | What happens |
|---|---|---|
| `MCTasks_cycle_race` | `DependenciesAcyclic`, `ParentsAcyclic` | two requests check, then both write, and close a cycle |
| `MCTasks_delete_race` | `LinksLive` | a link is committed to a task that was deleted meanwhile |
| `MCTasks_inherited_project` | `SubtaskSharesProject`, `ArchivedProjectReceivesNoTask` | the parent's project is changed by a later PATCH, or archived before a subtask inherits it |
| `MCTasks_detach` | `RevisionIdentifiesRow` | deleting a parent changes its children under an unchanged revision |
| `MCScheduling_apply_race` | `AppliedScheduleFits` | two plans are applied at once and overlap |
| `MCScenarios_races` | `PlanAppliedAlways`, `SettledForGood` | a plan is applied to what was not reviewed; a scenario is accepted and discarded at once |
| | `RevisionCoversPlan` | two edits make one new revision |
| | `CompletionKept` | completing through a scenario leaves `completed_at` empty |
| `MCStorage_cli_backup` | `BackupConsistent` | the backup command does not share the lock of the server |
| `MCStorage_upload_races` | `BytesGoWithRow` | the files of a failed upload are removed outside the lock, or not at all |
| | `FailedDeleteAllRollsBack` | an upload makes its directory while delete-all puts its own back, which then fails: the attachments stay aside |
| `MCStorage_demo_races` | `RowHasFile` | refreshing the demo data fails, or meets a reset, between files and rows |
| `MCAutomation_late_jobs` | `NoReplay`, `NextRunFollowsSchedule` | a late run is logged under its own minute, and executed again as a missed run; a job writes the next run of a schedule it loaded before an update |
| `MCImports_stale_rows` | `StaleMeansImportedSince`, `EditsKept` | two equal lines of one statement make the batch unappliable, with an error about an import that never was; an event deleted and imported again has the revision an older batch expects, and is overwritten |
| `MCRecords_archived` | `ArchivedKeepsLinks` | a note takes or drops a link to an archived commitment, which the endpoint of the commitment refuses |

### Bounds

* Tasks: two clients and two or three rows. Every race above is between two requests, and each
  of their checks concerns one or two rows; cycles need two rows to be missed by a check,
  three for the transitive part of the sequential check. `MaxRevision` 2 or 3 lets a
  row change between a read and a write and a stale client be told so. `MaxItems` 2 lets
  the second item of a bulk request fail after the first was written.
* Scheduling: two intervals of an hour, so that two tasks compete for one and can be
  ordered; two previews, or one applied twice. `relations` lets a behaviour (`LinksOrPlans`, an action constraint) either link
  its tasks, without projects once there are dependencies, or plan with two: the two meet
  only in the dependencies, which planning has. `lifecycle` has dependencies only while rows
  are new (`LinkedWhenNew`, a constraint): they concern the life of a row only when it is deleted.
* Scenarios: two changes, so that a plan can fail half-way.
* Storage: four requests are an upload, a deletion, a backup and delete-all; a request is
  served once, so the order in which they come is free.
* Imports: two lines a file, two mappings, one transaction by hand. A line of each file shares its key
  with one of another, a mapping reads another line as that of a third, and one line is unreadable.
* Records: two rows where rows can meet (accounts, transactions, plans, notes), one
  elsewhere; two times and windows of one or both, so that generations overlap; two prices
  and contributions. `MaxRevision` is given per table and lets each row be read, changed by
  another request and written; `MaxSaved` caps a goal. `MaxLinks` 1: links are checked one by one. Where no plans are
  generated they are due at the first time (`TimesMatter`, a constraint), since the reports are over both.
* Assessments: three tasks, because a blocked task can hold up a third through a second;
  minutes up to two each, with the boundary days 14 and 15 and a date that has passed.
* Capacity: seven instants half a minute apart, so that minutes are whole and broken, and up to three
  intervals, so that two can be bridged by a third; plans of two tasks on two days of three minutes.
* Restore: two attempts, four contents (the first workspace, a backup and two later ones).
* Automation: rules meet only at the lock, so one rule has two requests at a time, its
  job and starts. Three minutes after the first,
  and no grace time, let a run be due, too late, or made one with those missed after it;
  `late_jobs` has a minute of grace. Revision 2
  lets a row change between the read and the write of an update.

Requests, revisions or identifiers run out in every run and the system may stop, so
`CHECK_DEADLOCK FALSE` is set. That requests do not stop each other is what `EveryRequestEnds` says.

### Fairness

All properties but one are safety properties. `EveryRequestEnds`, that a request under
way is at some time no longer under way, is checked under weak
fairness of each begun request: threads and the loop run what is ready. Clients are not
assumed to send anything, and since a request is served once, nobody can take the lock
for ever. The run has a worker for each request. With as many requests waiting for the
lock as there are workers (set `Workers` to 2 in `MCStorage_live.cfg`) an upload that has
to read from a spooled file waits for a worker while all workers wait for it: the pool
has 40 threads and nothing in the code keeps them from waiting for the lock.

## Proofs

`TasksProofs` proves for any sets of tasks, projects, intervals and requests, any bodies
and any bounds:

* `TypeCorrect`: `Spec => []TypeOK`.
* `CompletionTheorem`: `completed_at` is set exactly on completed rows.
* `SeenTheorem`: if the revision a client sent is still the row's, then what the request
  checked on the row it read is what the row still holds, although nothing locked it.
* `RevisionTheorem`: every write of a live row takes it to its next revision.
* `BulkTheorem`: no step of a bulk request changes some of its tasks and not others.
* `LifecycleTheorem`: `Tasks` implements `TaskLifecycle`.
* `RelationsTheorem`: while one client works, dependencies and parents have no cycle and
  lead to rows that are not deleted.

The assumption is `ConstantsAssumption`: bodies are well typed, SQL NULL and "not named"
are not identifiers. The argument is one inductive invariant, `IInv`. Types alone are not
enough: a commit writes values validated on a row read earlier. `Fresh(r, t)` says that
the row read is no newer than the row, and, if its revision is still current, equal to it
in the columns checks depend on; `Own(r)` says what a request that has passed its checks
holds (its items are read, a bulk request's transitions are valid for what was read, an
INSERT has every column); `Unborn` that rows never inserted are at revision 0, so that a
revision is never reused. `RowSteps` shows that every action writes rows by advancing
their revision (or only clears a parent), `OtherInv` that this keeps `Fresh` for all
other requests, `RequestSteps` that the request's own step establishes it. The
refinement then follows action by action: `CreateRefines`, `DeleteRefines`, `WriteRefines`.

`RelationsTheorem` has a hypothesis, `OneClient`, since two requests that add an edge each
are how cycles come about (`MCTasks_cycle_race`): the theorem says that this race is the only
way. `Carries(r)` is what the search of the graph has told the only request before it writes. That
a task is reachable is stated as `Graphs` does not: every set closed under the edges that
holds the source holds the target. An edge then closes no cycle if some closed set
separates its ends, and no path has to be walked by induction.

`AutomationProofs` proves for any rules, requests, events, triggers, grace time and bounds:

* `AutomationTypeCorrect`: types, and that only the holder of the lock is about to change a job.
* `ActedAsLoggedTheorem`: an action has been committed once for a key that is logged as
  succeeded, and never for any other.
* `JobsFollowRulesTheorem`: when no request on a rule is under way, the jobs are those of
  the enabled recurring rules, with their triggers.
* `DueRunsCaughtUpTheorem`: a start moves a due next run only after its execution is logged.

The assumption is `AutomationAssumption`: intervals are at least a minute, and the names
of processes and the null value are distinct. `TypeInv` adds to the types who can be at
which step (`Placed`), that one process at most reconciles and that it holds the lock, and
that what is listed has a trigger. `JobsInv` is needed because requests commit in one
order and synchronize in another: unless some request still has to synchronize, the job of
every rule is right (`Follows`), or the reconciliation under way has the rule before it
(`Pending`) and knows it by its present trigger. `StartInv` says that when a start is about to schedule a
rule whose run was due, that run is in the log. Each is shown to survive every action, and the
theorems follow from them.

`RestoreProofs` proves for any number of attempts, any contents and any set of steps that may raise:

* `RestoreTypes`: `RestoreSpec => []RestoreTypeOK`.
* `OriginalIsKept`: each half of the workspace a restore found is in place or aside until
  both halves of the backup are in place, whatever raises and wherever the process dies.
* `OutcomesAreTrue`: a success, and a mere cleaning error, mean that the backup is in
  place; a rollback that the original database is.
* `RecoveryIsPossible`: an error that asks for manual recovery names, for each half
  that is not back, where the original is.

The assumption is `RestoreAssumption`. `RestoreInv` says for each step of the code what the
steps before it have left: `Attempts` that one attempt runs at a time, `FlagsAtStep` what
the flags and the list of failures can be, `DatabaseAtStep` and `AttachmentsAtStep` where the two
halves of the original and of the backup are. In the handler the last two depend on the
flags: if a half was swapped its original is aside, otherwise in place, except that
attachments set aside before their flag was set may be in either place. That exception is
the finding of `restore_rename`; without it the invariant is not inductive.

`SchedulingProofs` proves for any tasks, intervals, events, previews and requests:

* `SchedulingTypes`: types of tables, previews and plans.
* `ApplyTheorem`: a preview is consumed by the first apply that commits.
* `PlacementTheorem`: whatever commits while apply reads or after it, a placement lands only
  on an open task without an interval, in the status the solver saw.
* `AcyclicTheorem` and `LinksTheorem`: while one client works, so do the relations of tasks
  under apply, which is a second writer of them.
* `ApplyFitsTheorem`: while one client works, what is applied overlaps neither an event nor
  another interval, and respects the dependencies.

The assumptions are those of `Tasks` and `SchedulingAssumption`. `SInv` adds to `IInv` that rows which
exist have a revision (`Born`), that evidence, in a plan or a stored preview, is no newer than its
task and equal to it in status and interval while the task is at that revision (`Held`),
that the solver places only open tasks (`PlacedOpen`), and that what an apply has chosen is among the
placements of a preview that exists (`AppliesPreview`). `TaskSteps` shows that apply, the second
writer of tasks, keeps `IInv` and writes rows as the task service does (`RowStep`), which
is all `Held` needs to survive (`HeldStays`). The fingerprint is not used for it: the revisions in the
WHERE clauses suffice for the tasks. Dependencies and calendar have none. They are what
`ApplyFitsTheorem` is about, with the hypothesis `OneClient` since two clients break it
(`MCScheduling_apply_race`), and there the fingerprint is what counts: `SolvedPreview` says
that a stored plan fits the evidence stored with it, `CurrentPlan` that after the
comparison the evidence is what the tables hold.

About `Capacity` it proves, for all intervals, days and seconds, `OfferedTimeSuits` (every start a
window allows is free time between the earliest start and the deadline of the task, in the day
to which it is charged) and `SuitableTimeOffered` (every whole minute at which it would fit is
allowed by a window). The two lemmas are `Rounding`, on floor and ceiling of seconds, and `Clipped`.

`ScenariosProofs` proves for any tasks, scenarios, changes, requests and workloads:

* `ScenariosTypes`: types, and that a draft holds one change per record at any time.
* `AcceptanceTheorem`: whatever overlaps, an acceptance performs every change it lists or
  none, but for a record that changed between being loaded first and the lock.
* `SettlementTheorem` and `ReviewTheorem`: while one client works alone, settled scenarios stay as
  they are, revisions cover lists, and what is applied is the plan that was reviewed.

The assumption is `ScenarioAssumption`; that requests are finite in number is used to count
the clients in `Alone`. `DraftsInv` says what a request holds at each step whatever the tables
hold by then (`Sound`), and that a change loaded to be edited is still for the record and
scenario it was loaded for, or gone (`HoldsChange`): the unique index alone would
not keep drafts to one change per record if an edit could move one. `AloneInv` says that when
only one client works, what it holds is what the tables hold, and, once its fingerprint
was compared, that the plan it holds is the plan it was shown. Two clients break the
second part, which is what `MCScenarios_races` shows.

`StorageProofs` proves for any number of requests, attachments and workers, any set of calls that
may raise, and crashes at any step:

* `StorageTypes`: types, and that only code inside the storage lock holds it, with the demo
  data and the backup command too.
* `RowsKeepFiles`: the bytes of every attachment the API shows are where download looks for
  them, or in the directory that a delete-all has moved aside and not emptied the database after:
  one under way, one killed, or one whose putting back has raised.
* `BackupsConsistent`: a verified backup holds the bytes of every attachment its database
  names, but for those that such a delete-all, killed or failed, had left aside.
* `BytesTheorem`: when nothing is under way, every file that is stored belongs to an
  attachment of the database, and nothing is left aside.

The assumption is `StorageAssumption`. `RowsKeepFiles` and `BackupsConsistent` suppose
that `Operation` has only uploads, deletes, backups and delete-all, and of what may raise
nothing: with the demo data and the backup command they are false (`MCStorage_demo_races`,
`MCStorage_cli_backup`). They do not say that a delete-all that fails restores the
attachments: `FailedDeleteAllRollsBack` is false (`MCStorage_upload_races`).
`BytesTheorem` is about all operations, and supposes that the process lives and that no call
in `LeavingBehind` fails: the removal of what a failed upload, a deletion or a delete-all has
to take away, and everything a delete-all does after its first rename. The last is less obvious. A failed upload
removes its file outside the lock; if a delete-all has just moved the file aside
the removal finds nothing, and a delete-all that then fails puts the file back.

The first two rest on `StorageInv`. It has two parts. `LockInv` says that a request has the lock exactly while it is at a step inside it, alone
or with other uploads, and what a request knows of its own identifier. `FilesInv` says where the files are:
in place or left aside unless a delete-all is `Emptying` the database (`InPlace`), which then has aside
what has not been left aside by another (`Aside`), renamed before
the row is committed (`Renamed`), and listed after the rows they belong to (`BackedUp`). The second part rests on the
first through `AloneInside`: at each step that takes a file away, nobody else is inside the
lock to rely on it. `LeftAside` only grows (`LeftAsideStays`), so that a crash or
`Strand` moves files from the one side to the other and loses none (`CrashStep`, `EmptyingStrands`).
`BytesTheorem` rests on `TypedLock`, the part of `LockInv` that all operations keep, and `BytesInv`: every
file has a row, or a request under way whose step will remove it or give it a row; what is
aside belongs to a delete-all that is `Holding` it; and none is at the steps that put back (`Unfailed`).

`RecordsProofs` proves for any tables, clients, names, amounts, windows and bounds, however
requests overlap:

* `PlansOnceTheorem`: an occurrence of a rule has one planned transaction, for good,
  and a fulfilled plan one transaction, which names it.
* `NothingLostTheorem`: a savings goal holds what was last set and every contribution since,
  the price changes of a subscription are a chain that ends at its price, and commitments are well shaped.
* `ClosedTheorem`: a plan that is fulfilled or cancelled, and a commitment that is archived, stay so.
* `RecordsTypes`: rows, links and requests have their types, a transfer and nothing else has a
  destination, and a plan has an actual exactly when it is fulfilled.
* `AloneTheorem`: while one client works, an account in use is active, links of notes and
  commitments lead from and to active records, linked rules say what their
  subscription says, and what was validated is not refused.

The assumptions are `RecordsAssumption` (null is no identifier, and identifiers are finite in
number, so that each generated plan gets one of its own), `FinanceAssumption` (entries
have the columns of a transaction, and amounts are positive, as the table constraints say),
`RecurringAssumption` (an expansion is finite and a set of times, prices are positive),
`GoalsAssumption` (contributions are natural numbers within the bound), `WorkloadsAssumption`
(the clients of a workload can be counted), `CommitmentAssumption` and `TablesAssumption`. The code decides everything outside of the
transaction that writes, and the tables hold no locks. What saves it is stated in
`Informed`: if the row still has the revision the request has read, then what the
request has learnt of it (`Learnt`: its status, its amounts, its unique columns) is still
so. Every write raises the revision of the row (`RequestsStay`), so the step of one request
leaves this true of all others, and the UPDATE that names the revision makes it true of the row it writes.
Between rows the unique indexes do the same: `PlansInv` says that the values they hold are
disjoint. `FulfilledInv` ties a fulfilled plan and its transaction both ways, and needs
that a transaction to be deleted fulfils nothing (`Unneeded`), which
is decided when the row is read and stays true because fulfilment makes a new transaction.
`SavingsInv`, `ChainsInv` and `CommitmentsInv` are the promises about goals, prices and
terms. `RecordsStep` shows `RecordsInv` action by action.

The last two theorems rest on two more invariants, kept together by `TypesStep`. `TypesInv` adds to
`RecordsInv` the types of rows (`RowOK`), links (`LinkOK`) and requests (`RequestOK`): a request
computes values before the transaction that writes them, so a row keeps its type only if the request
has it. `AloneInv` is `BackedInv` (accounts of active rows are active), `FollowInv` (rules that have
not ended follow their subscription), `LeadInv` (links lead to active records) and, for the
request of the only client, `Valid`: what it has validated, and that the links it will drop are
all those of the row it deletes. With a second client `Valid` fails between the read
and the write, and an account can be deleted while a transaction that uses it is
created. The proof has one lemma for the reads of each kind of request (`AccountBegun` and
its like) and one for its transactions (`AccountKept` and its like). Those of a request that writes
one row cite `InsertKeeps`, `UpdateKeeps` or `DeleteKeeps`, which ask only for the shape
of the new row and that the active records it needs are there (`Fits`).

About `Assessment` it proves `WorstWarningShown`: for every evidence, the overall status of an
assessment is the worst of the warnings. It rests on `WarningApplies`, that each rule looks at
something that makes its component apply, and is conditional on sums of minutes being natural
numbers (`MinutesOK`), which the constraints of the tables guarantee.

`ImportsProofs` proves for any files, lines, mappings and values, and any finite number of clients:

* `ImportsTypes`: types, a row for each line, and one stored copy of a file while one client works.
* `ImportedOnceTheorem`: whatever overlaps, one transaction has a fingerprint, deleted ones
  included, and one active event a UID; while one client works, a line becomes one record.
* `BatchTheorem`: while one client works, the rows of a batch say what became of them, and
  imported rows and imported records lead to each other.
* `AppliedTheorem`: while one client works, an applied batch stays as it is, and nothing more
  is imported from it.

The assumptions are `CsvAssumption`, `LinesAssumption` (lines are a sequence), `NoneAssumption`
(null is nothing else) and `WorkloadAssumption` (clients are finite in number, so that they can
be counted in `Alone`). The first two parts of the second theorem need no assumption on
the clients, because an application compares each row with the tables in the transaction that writes
(`KeysOnce`, of which `KeysApply` is the step that matters). Everything else is kept
only by what a request has read: `Knows` says that the rows and the batch the only request
holds are those of the tables, that the batch is still to be applied, and that rows of a preview or
a mapping are `Fresh`, that is, nothing has been made of them. `Accounted` is
the promise about rows, and `Traced` its converse, from records to rows. Rows name the
records made of them by their place in the table: `Places` shows that records made in the order of
the rows get each new place once. With two clients `Knows` fails, and with it the
promises, as the hazard of two applications of one batch says.

Model-checked only: `ReportsConsistent`, `FulfilmentMovesAmount`, `SomeTaskStarts`, `TimeAccounted`,
`MergeIsUnion`, `TimeIsSets` and `PlansKeepLimits` concern folds, recursive functions and
sums, whose proofs need an induction that the installed provers cannot instantiate; they are
checked over the states and inputs of the runs. Out of the prover's reach
is `EveryRequestEnds`, a liveness property.

## Properties the code does not have

Met while modelling, and not stated as properties because nothing in the repository promises
otherwise. Each is visible in the definition named.

* A free interval over midnight is offered to the solver as a window, and counts in the
  capacity of neither day if its parts are too short for focus (`Capacity.FocusMinutes`).
* Completed tasks that were never scheduled still count as unscheduled work, a
  cancelled prerequisite blocks its task for ever, and time scheduled beyond the estimate of one task hides
  unscheduled time of another (`Assessment`).
* An assessment subtracts the whole cash outflow from each linked savings goal (`Assessment`).
* Two rules linked to one subscription generate two plans for its occurrence, and a plan
  moved to another day no longer stands in for its occurrence (`Reports.Counted`).
* Deleting a category leaves its transactions, which then cannot be edited before they
  get another; deleting a subscription leaves its linked rules; deleting an account does
  not look at budgets; deleting a tag leaves its links (`Finance`, `Recurring`, `Notes`).
* Posting an overdue plan lowers `effectively_available`, since the plan was not counted and
  the transaction is; posting one under a date after `as_of` raises it, since neither is
  (`Reports.CommittedBalance`, `FulfilmentMovesAmount`).
* A delete-all that fails and cannot put the attachments back names no place to recover them from
  (`Storage.Strand`), and nothing looks for a directory it has left aside.
* An action of a rule that violates a constraint of the database, other than that of the log, ends the
  request without a failed execution, and the start of the application with it (`Automation.Act`).
* A savings goal that reaches its target by a PATCH is not completed (`Goals.SavingPatches`).
* A change that states again a link the record has already meets the unique index, since
  inserts are flushed before deletes (`Records.Restates`).
* A calendar batch that is stale cannot be previewed again, and a calendar with one UID twice
  cannot be applied (`Imports`).

## Plan

Written: tasks, lifecycle, scheduling, capacity, scenarios, storage, restore, automation,
imports, records, reports, assessments; proofs about tasks, scheduling, scenarios, automation, storage,
restore, imports, records, capacity, assessments. What is left, in the order of its worth:

1. `Launcher`: start, stop and the PID file, which two processes write.
2. Recurrence: bounded expansion against a reference definition, from weekly and monthly rules.
3. `Reports` by months, with opening balances, buffers and commitment costs.
4. The other target types of scenarios, and the links of tasks, projects and events.

The runs are one per question; those whose counterexample documents a limit of another
run stay beside the runs.

## Not modelled

* Timelines are appended in the transaction of the change they tell of and read in one
  merged list; nothing depends on them.
* Recurrence is a bounded use of `dateutil` and time zone data; where other
  modules use it, a schedule is the set of its times.
* The launcher, as in the plan. Workspace and preferences are a row each, written by one request;
  of the seed and demo data the files and their rows are in `Storage`.
* The API shell, layout and wording of responses, exports, and the scan for events
  that approach, beyond the dispatch it makes.
* Archive format, checks and encryption of backups: the data of `Storage` and `Restore`.
* The objective and preferred times of the solver, its time limit, the reasons it gives.
* Schema and migrations: tables appear as the state of the modules that use them.
* The web client, which calls the API and keeps nothing but query caches.
