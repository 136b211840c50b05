------------------------------- MODULE Goals -------------------------------
(***************************************************************************)
(* Savings goals and goals (services/goals.py) and budgets                 *)
(* (services/finance_budgets.py).  The limits of a budget are the links of *)
(* kind "limit" to its categories, without their amounts.                  *)
(***************************************************************************)
EXTENDS Recurring

CONSTANTS
  Targets,       \* the targets clients give a savings goal
  Contributions, \* the amounts clients contribute or set
  MaxSaved       \* bound: no goal holds more

ASSUME GoalsAssumption == MaxSaved \in Nat /\ Contributions \subseteq 0 .. MaxSaved

GoalStatus == {"active", "paused", "completed", "cancelled"}

(***************************************************************************)
(* Savings goals.  "set" and "given" are not columns: what a request last  *)
(* wrote as the current amount, and the contributions made since.          *)
(***************************************************************************)
ValidSavingsAccount(a) == a # None => a \in Live("account")

BeginCreateSaving(c) ==
  Reads(c, "create_saving",
    {[account |-> a, target |-> target] & Creation("saving") :
       a \in {b \in Field(Ids["account"]) : Free("saving") # {} /\ ValidSavingsAccount(b)},
       target \in Targets})

CreateSaving(c) ==
  /\ Writes(c, "create_saving")
  /\ db' = Added("saving",
       [account |-> request[c].account, target |-> request[c].target, current |-> 0,
        status |-> "active", set |-> 0, given |-> 0])

SavingPatches(goal) ==
  {[goal EXCEPT !.account = a] : a \in Field(Ids["account"])}
    \cup {[goal EXCEPT !.target = target] : target \in Targets}
    \cup {[goal EXCEPT !.current = n, !.set = n, !.given = 0] : n \in Contributions}
    \cup {[goal EXCEPT !.status = status] : status \in GoalStatus}

\* An amount or a target that a PATCH sets does not complete the goal.
BeginUpdateSaving(c) ==
  Reads(c, "update_saving",
    UNION {{[goal |-> goal] & Change("saving", g) :
              goal \in {p \in SavingPatches(db.saving[g]) : ValidSavingsAccount(p.account)}} :
           g \in Changeable("saving")})

UpdateSaving(c) ==
  Writes(c, "update_saving") /\ db' = Updated(request[c], request[c].goal)

\* The sum and the status are computed from what was read before the
\* transaction.
Contributed(goal, n) ==
  [goal EXCEPT !.current = @ + n, !.given = @ + n,
     !.status = IF goal.current + n >= goal.target THEN "completed" ELSE @]

BeginContribute(c) ==
  Reads(c, "contribute",
    UNION {{[goal |-> Contributed(db.saving[g], n), amount |-> n] & Change("saving", g) :
              n \in {m \in Contributions : db.saving[g].current + m <= MaxSaved}} :
           g \in Changeable("saving")})

Contribute(c) ==
  LET r == request[c]
  IN /\ Writes(c, "contribute")
     /\ db' = Updated(r, [current |-> r.goal.current, status |-> r.goal.status,
                          given |-> db.saving[r.id].given + r.amount])

BeginDeleteSaving(c) ==
  Reads(c, "delete_saving",
    {[Change("saving", g) EXCEPT !.drops = LinksOf("commitment", <<"saving", g>>)] :
       g \in Changeable("saving")})

DeleteSaving(c) ==
  Writes(c, "delete_saving") /\ db' = SoftDeleted(request[c])

(***************************************************************************)
(* Goals.                                                                  *)
(***************************************************************************)
Progress == {0, 5000, 10000}

BeginCreateGoal(c) ==
  Reads(c, "create_goal",
    {[progress |-> p, status |-> status] & Creation("goal") :
       p \in {q \in Progress : Free("goal") # {}}, status \in GoalStatus})

CreateGoal(c) ==
  /\ Writes(c, "create_goal")
  /\ db' = Added("goal", [progress |-> request[c].progress, status |-> request[c].status])

\* Full progress completes a goal unless the body names a status.
GoalPatches(goal) ==
  {[progress |-> p, status |-> IF p = 10000 THEN "completed" ELSE goal.status] :
     p \in Progress}
    \cup [progress : Progress, status : GoalStatus]

BeginUpdateGoal(c) ==
  Reads(c, "update_goal",
    UNION {{[goal |-> patch] & Change("goal", g) : patch \in GoalPatches(db.goal[g])} :
           g \in Changeable("goal")})

UpdateGoal(c) ==
  Writes(c, "update_goal") /\ db' = Updated(request[c], request[c].goal)

BeginDeleteGoal(c) ==
  Reads(c, "delete_goal",
    {[Change("goal", g) EXCEPT !.drops = LinksOf("commitment", <<"goal", g>>)] :
       g \in Changeable("goal")})

DeleteGoal(c) ==
  Writes(c, "delete_goal") /\ db' = SoftDeleted(request[c])

(***************************************************************************)
(* Budgets.  The limits are validated before the transaction and replaced  *)
(* in it.                                                                  *)
(***************************************************************************)
ValidLimits(categories) ==
  categories \subseteq {k \in Live("category") : Kind[k] = "expense"}

Limits(b, categories) == {<<"limit", b, <<"category", k>>>> : k \in categories}

LimitsOf(b) == {l \in links : l[1] = "limit" /\ l[2] = b}

BeginCreateBudget(c) ==
  Reads(c, "create_budget",
    {[limits |-> categories] & Creation("budget") :
       categories \in {k \in SUBSET Ids["category"] : Free("budget") # {} /\ ValidLimits(k)}})

CreateBudget(c) ==
  /\ Commits(c, "create_budget", {}, Limits(NewId("budget"), request[c].limits))
  /\ db' = Added("budget", [named |-> TRUE])

BudgetPatches(b) ==
  {[replaces |-> FALSE] & Change("budget", b)}
    \cup {[replaces |-> TRUE] & [Change("budget", b) EXCEPT !.adds = Limits(b, categories)] :
          categories \in {k \in SUBSET Ids["category"] : ValidLimits(k)}}

BeginUpdateBudget(c) ==
  Reads(c, "update_budget", UNION {BudgetPatches(b) : b \in Changeable("budget")})

UpdateBudget(c) ==
  LET r == request[c]
  IN /\ Commits(c, "update_budget", IF r.replaces THEN LimitsOf(r.id) ELSE {}, r.adds)
     /\ db' = Updated(r, [named |-> TRUE])

\* The limits stay with the deleted budget.
BeginDeleteBudget(c) ==
  Reads(c, "delete_budget",
    {[Change("budget", b) EXCEPT !.drops = LinksOf("commitment", <<"budget", b>>)] :
       b \in Changeable("budget")})

DeleteBudget(c) ==
  Writes(c, "delete_budget") /\ db' = SoftDeleted(request[c])

(***************************************************************************)
(* The requests of goals.py and finance_budgets.py.                        *)
(***************************************************************************)
GoalRequest(c) ==
  \/ BeginCreateGoal(c) \/ CreateGoal(c)
  \/ BeginUpdateGoal(c) \/ UpdateGoal(c)
  \/ BeginDeleteGoal(c) \/ DeleteGoal(c)

BudgetRequest(c) ==
  \/ BeginCreateBudget(c) \/ CreateBudget(c)
  \/ BeginUpdateBudget(c) \/ UpdateBudget(c)
  \/ BeginDeleteBudget(c) \/ DeleteBudget(c)
  \/ BeginCreateSaving(c) \/ CreateSaving(c)
  \/ BeginUpdateSaving(c) \/ UpdateSaving(c)
  \/ BeginContribute(c) \/ Contribute(c)
  \/ BeginDeleteSaving(c) \/ DeleteSaving(c)

(***************************************************************************)
(* Properties.                                                             *)
(***************************************************************************)
\* The current amount of a savings goal is what a request last set it to and
\* every contribution since: overlapping contributions are not lost, although
\* each computes the sum from an earlier read.
NoContributionLost ==
  \A g \in {h \in Ids["saving"] : db.saving[h].rev > 0} :
    db.saving[g].current = db.saving[g].set + db.saving[g].given
=============================================================================
