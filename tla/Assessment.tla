----------------------------- MODULE Assessment -----------------------------
(***************************************************************************)
(* The assessment of a commitment: services/commitment_evaluators.py over  *)
(* the evidence of commitment_collectors.py.  It is a function of what one *)
(* request reads, and nothing keeps its result.  Messages, the records     *)
(* that explain a warning and the suggested actions are left out.          *)
(*                                                                         *)
(* Evidence e is a record of                                               *)
(*   task         the active tasks, by id: [status, estimate, scheduled],  *)
(*                scheduled in minutes, 0 without a complete interval      *)
(*   linked       the ids of the active tasks the commitment links         *)
(*   dependencies the dependencies of those: [task, on, type]              *)
(*   event        the linked active events: [status, buffers]              *)
(*   conflicts    the conflicts that one of those is a part of             *)
(*   plan         the linked plans: [status, type, amount, currency,       *)
(*                budgets], the last the budgets whose categories and      *)
(*                period it falls into                                     *)
(*   spent        the currencies of the posted expenses that are linked,   *)
(*                or the actuals of linked plans                           *)
(*   ledger, kept what the accounts of a currency hold and must keep       *)
(*   budget       the linked budgets: [currency, remaining]                *)
(*   saving       the linked savings goals: [status, currency, target,     *)
(*                current]                                                 *)
(*   goals        the linked goals                                         *)
(*   missing      the links that lead to no active record                  *)
(*   terms        [cost, buffer, minutes, currency, decision, target]: the *)
(*                currency as a set of at most one, and each date as the   *)
(*                set of the whole days until it                           *)
(***************************************************************************)
EXTENDS Integers, FiniteSets
LOCAL INSTANCE FiniteSetsExt

DeadlineWarningDays == 14
DecisionWarningDays == 7

\* What the collector makes sure of.
Collected(e) ==
  /\ \A d \in e.dependencies : d.task \in e.linked
  /\ e.conflicts # {} => DOMAIN e.event # {}
  /\ e.terms.decision \cup e.terms.target \subseteq Int

AtLeastZero(n) == IF n < 0 THEN 0 ELSE n

(***************************************************************************)
(* Money.                                                                  *)
(***************************************************************************)
OpenPlansOf(e, type, currency) ==
  {p \in DOMAIN e.plan : /\ e.plan[p].status = "planned"
                         /\ e.plan[p].type = type
                         /\ e.plan[p].currency = currency}

PlannedOf(e, type, currency) ==
  MapThenSumSet(LAMBDA p : e.plan[p].amount, OpenPlansOf(e, type, currency))

PlannedCost(e, currency) ==
  PlannedOf(e, "expense", currency) + IF currency \in e.terms.currency THEN e.terms.cost ELSE 0

ProjectedAvailable(e, currency) ==
  e.ledger[currency] - PlannedCost(e, currency) + PlannedOf(e, "income", currency)

RequiredBuffer(e, currency) ==
  IF currency \in e.terms.currency /\ e.terms.buffer > e.kept[currency]
  THEN e.terms.buffer ELSE e.kept[currency]

MoneyImpact(e) ==
  e.terms.currency \cup e.spent
    \cup {currency \in DOMAIN e.ledger :
            \E type \in {"income", "expense"} : OpenPlansOf(e, type, currency) # {}}

BudgetViolation(e, b) ==
  /\ \E p \in OpenPlansOf(e, "expense", e.budget[b].currency) : b \in e.plan[p].budgets
  /\ e.budget[b].remaining < 0

\* The outflow of a currency is taken from each of its goals.
SavingsDelayed(e, g) ==
  LET goal == e.saving[g]
      outflow == PlannedCost(e, goal.currency)
  IN /\ goal.status = "active"
     /\ outflow > 0
     /\ AtLeastZero(goal.target - AtLeastZero(goal.current - outflow))
          > AtLeastZero(goal.target - goal.current)

(***************************************************************************)
(* Time, dependencies and deadlines.                                       *)
(***************************************************************************)
Relevant(e) == {t \in e.linked : e.task[t].status # "cancelled"}

RequiredTime(e) == MapThenSumSet(LAMBDA t : e.task[t].estimate, Relevant(e))

ScheduledTime(e) == MapThenSumSet(LAMBDA t : e.task[t].scheduled, Relevant(e))

BufferTime(e) ==
  MapThenSumSet(LAMBDA i : e.event[i].buffers,
                {i \in DOMAIN e.event : e.event[i].status # "cancelled"})

TimeCapacity(e) ==
  LET needed == RequiredTime(e) + BufferTime(e)
  IN IF e.terms.minutes > needed THEN e.terms.minutes ELSE needed

Unscheduled(e) == AtLeastZero(TimeCapacity(e) - ScheduledTime(e) - BufferTime(e))

MissingPrerequisites(e) == {d.on : d \in e.dependencies} \ e.linked

Blocking(e, d) ==
  \/ d.on \notin DOMAIN e.task
  \/ d.type = "finish_to_start" /\ e.task[d.on].status # "completed"
  \/ d.type # "finish_to_start" /\ e.task[d.on].status = "todo"

BlockedTasks(e) == {d.task : d \in {x \in e.dependencies : Blocking(e, x)}}

DeadlinePassed(e) == \E days \in e.terms.decision \cup e.terms.target : days < 0

DeadlineNear(e) ==
  \/ \E days \in e.terms.decision : days <= DecisionWarningDays
  \/ (\E days \in e.terms.target : days <= DeadlineWarningDays) /\ Unscheduled(e) > 0

(***************************************************************************)
(* The rules, each with the severity of its warning and the component that *)
(* the warning counts for.                                                 *)
(***************************************************************************)
Severity ==
  [unscheduled_required_work |-> "warning", financial_buffer_violation |-> "critical",
   missing_dependencies |-> "critical", blocked_tasks |-> "warning",
   missing_link_targets |-> "critical", calendar_conflict |-> "critical",
   budget_violation |-> "critical", savings_goal_delay |-> "warning",
   deadline_passed |-> "critical", deadline_risk |-> "warning"]

Component ==
  [unscheduled_required_work |-> "time", financial_buffer_violation |-> "financial",
   missing_dependencies |-> "dependency", blocked_tasks |-> "dependency",
   missing_link_targets |-> "dependency", calendar_conflict |-> "schedule",
   budget_violation |-> "goal", savings_goal_delay |-> "goal",
   deadline_passed |-> "deadline", deadline_risk |-> "deadline"]

GoalRules(e, code) ==
  \/ code = "budget_violation" /\ \E b \in DOMAIN e.budget : BudgetViolation(e, b)
  \/ code = "savings_goal_delay" /\ \E g \in DOMAIN e.saving : SavingsDelayed(e, g)

DeadlineRules(e, code) ==
  \/ code = "deadline_passed" /\ DeadlinePassed(e)
  \/ code = "deadline_risk" /\ ~DeadlinePassed(e) /\ DeadlineNear(e)

Fires(e, code) ==
  \/ code = "unscheduled_required_work" /\ Unscheduled(e) > 0
  \/ /\ code = "financial_buffer_violation"
     /\ \E m \in MoneyImpact(e) : ProjectedAvailable(e, m) < RequiredBuffer(e, m)
  \/ code = "missing_dependencies" /\ MissingPrerequisites(e) # {}
  \/ code = "blocked_tasks" /\ BlockedTasks(e) # {}
  \/ code = "missing_link_targets" /\ e.missing # {}
  \/ code = "calendar_conflict" /\ e.conflicts # {}
  \/ GoalRules(e, code) \/ DeadlineRules(e, code)

Warnings(e) == {code \in DOMAIN Severity : Fires(e, code)}

Applicable(e, component) ==
  \/ component = "time" /\ TimeCapacity(e) > 0
  \/ component = "financial" /\ MoneyImpact(e) # {}
  \/ component = "dependency" /\ e.linked \cup e.missing # {}
  \/ component = "schedule" /\ DOMAIN e.event # {}
  \/ component = "goal" /\ DOMAIN e.budget \cup DOMAIN e.saving \cup e.goals # {}
  \/ component = "deadline" /\ e.terms.decision \cup e.terms.target # {}

Components == {Component[code] : code \in DOMAIN Component}

Worst(codes) ==
  IF \E code \in codes : Severity[code] = "critical" THEN "critical"
  ELSE IF codes # {} THEN "warning" ELSE "ok"

\* The level of a component, given the codes that fired.
Status(e, codes, component) ==
  IF Applicable(e, component)
  THEN Worst({code \in codes : Component[code] = component})
  ELSE "not_applicable"

OverallStatus(e, codes) ==
  LET levels == {Status(e, codes, component) : component \in Components}
  IN IF "critical" \in levels THEN "critical"
     ELSE IF "warning" \in levels THEN "warning"
     ELSE IF "ok" \in levels THEN "ok" ELSE "not_applicable"

(***************************************************************************)
(* Properties.                                                             *)
(***************************************************************************)
\* docs/commitment-engine.md:133: the overall status "is the worst applicable
\* component".  It is also the worst warning: no warning belongs to a
\* component that does not apply, where its level would not be counted.
NoWarningHidden(e) ==
  LET codes == Warnings(e)
  IN IF codes = {} THEN OverallStatus(e, codes) \in {"ok", "not_applicable"}
     ELSE OverallStatus(e, codes) = Worst(codes)

\* The minutes that remain are never more than what is missing task by task
\* and what the manual requirement asks beyond.  (They may be less: what one
\* task is scheduled beyond its estimate counts for another.)
UnscheduledBounded(e) ==
  Unscheduled(e) <=
    MapThenSumSet(LAMBDA t : AtLeastZero(e.task[t].estimate - e.task[t].scheduled), Relevant(e))
      + AtLeastZero(e.terms.minutes - RequiredTime(e) - BufferTime(e))

\* A commitment that holds all prerequisites of its tasks, none of them
\* cancelled, has an open task that is not blocked as long as it has an open
\* task: the dependencies have no cycle.
SomeTaskCanStart(e) ==
  LET open == {t \in e.linked : e.task[t].status \in {"todo", "in_progress"}}
  IN /\ MissingPrerequisites(e) = {}
     /\ Relevant(e) = e.linked
     /\ open # {}
     => open \ BlockedTasks(e) # {}
=============================================================================
