------------------------------ MODULE Reports ------------------------------
(***************************************************************************)
(* The finance reports: services/finance_reports.py,                       *)
(* finance_calculations.py and the balances of finance_accounts.py, read   *)
(* off the records.  A report is one step, over the plans, the occurrences *)
(* and the posted transactions of a range of days.  The days transactions  *)
(* occurred on are whatever clients have sent, and reports alone read them *)
(* (occurred): a parameter of each, and every choice is checked.  The      *)
(* months of a report, the names and the lists of records that explain it, *)
(* the opening balances of accounts and the buffers, and the costs of      *)
(* commitments are left out of the reports; is_committed is taken as set   *)
(* on every plan and every rule, where the committed balance is largest.   *)
(***************************************************************************)
EXTENDS LifeRecords, Assessment
LOCAL INSTANCE FiniteSetsExt

CONSTANTS
  HomeCurrency,    \* the currency of budgets, savings goals and commitments
  LimitAmount,     \* what a budget allows for each of its categories
  CommitmentMoney  \* the cost or the buffer of a commitment that has one

ASSUME ReportsAssumption == Times \subseteq Int

Currencies == {Currency[a] : a \in Ids["account"]}

\* The sum of the amounts of some of the rows of a table.
Total(t, rows) == MapThenSumSet(LAMBDA i : db[t][i].entry.amount, rows)

Of(t, rows, type, currency) ==
  {i \in rows : db[t][i].entry.type = type /\ Currency[db[t][i].entry.account] = currency}

Between(from, to) == {time \in Times : from <= time /\ time <= to}
Until(to) == {time \in Times : time <= to}
Before(from) == {time \in Times : time < from}

\* The days the transactions may have occurred on.
PostingDates == [Ids["actual"] -> Times]

Posted(range, occurred) == {i \in Live("actual") : occurred[i] \in range}

(***************************************************************************)
(* Balances.                                                               *)
(***************************************************************************)
TransactionEffect(entry, a) ==
  IF entry.account = a
  THEN IF entry.type = "income" THEN entry.amount ELSE -entry.amount
  ELSE IF entry.to = a THEN entry.amount ELSE 0

\* Without the opening balance, which no transaction changes.
AccountBalance(a, posted) ==
  MapThenSumSet(LAMBDA i : TransactionEffect(db.actual[i].entry, a), posted)

LedgerBalance(currency, posted) ==
  MapThenSumSet(LAMBDA a : AccountBalance(a, posted),
                {a \in Live("account") : Currency[a] = currency})

(***************************************************************************)
(* Plans and projections.                                                  *)
(***************************************************************************)
\* Mutant: plans of every status are read.
PlansOfAnyStatus(range) == {p \in Live("plan") : db.plan[p].due \in range}

OpenPlans(range) == {p \in Live("plan") : Open(p) /\ db.plan[p].due \in range}

ActiveRules == {i \in Live("rule") : db.rule[i].status = "active"}

ActiveSubscriptions == {s \in Live("sub") : db.sub[s].status = "active"}

\* The occurrences of a schedule that no open plan of its rule or
\* subscription replaces.
Projected(schedule, range, plans) ==
  (schedule \cap range) \ {db.plan[p].due : p \in plans}

RuleOccurrences(i, range) ==
  Projected(db.rule[i].schedule, range, {p \in OpenPlans(range) : db.plan[p].rule = i})

SubscriptionOccurrences(s, range) ==
  Projected(db.sub[s].schedule, range, {p \in OpenPlans(range) : db.plan[p].sub = s})

\* A linked rule is represented by its subscription.
ProjectedRules(type, currency) ==
  Of("rule", {i \in ActiveRules : db.rule[i].sub = None}, type, currency)

RuleTotal(rules, range) ==
  MapThenSumSet(LAMBDA i : db.rule[i].entry.amount * Cardinality(RuleOccurrences(i, range)),
                rules)

SubscriptionTotal(range, currency) ==
  MapThenSumSet(
    LAMBDA s : db.sub[s].amount * Cardinality(SubscriptionOccurrences(s, range)),
    {s \in ActiveSubscriptions : Currency[db.sub[s].account] = currency})

(***************************************************************************)
(* The reports.                                                            *)
(***************************************************************************)
CashFlow(from, to, currency, occurred) ==
  LET range == Between(from, to)
      posted == Posted(range, occurred)
  IN [opening |-> LedgerBalance(currency, Posted(Before(from), occurred)),
      actual_income |-> Total("actual", Of("actual", posted, "income", currency)),
      actual_expense |-> Total("actual", Of("actual", posted, "expense", currency)),
      planned_income |-> Total("plan", Of("plan", OpenPlans(range), "income", currency)),
      planned_expense |-> Total("plan", Of("plan", OpenPlans(range), "expense", currency)),
      recurring_income |-> RuleTotal(ProjectedRules("income", currency), range),
      recurring_expense |-> RuleTotal(ProjectedRules("expense", currency), range)
                              + SubscriptionTotal(range, currency)]

\* What some categories, None for no category, have and will have cost.
SpendingOn(categories, range, currency, occurred) ==
  LET spent(t, rows) == Total(t, {i \in Of(t, rows, "expense", currency) :
                                    db[t][i].entry.category \in categories})
  IN [actual |-> spent("actual", Posted(range, occurred)),
      planned |-> spent("plan", OpenPlans(range))]

\* What is posted counts up to as_of, whenever it was planned for; what is
\* planned counts from as_of on, and an overdue plan does not.
CommittedBalance(as_of, end, currency, occurred) ==
  LET range == Between(as_of, end)
  IN [ledger |-> LedgerBalance(currency, Posted(Until(as_of), occurred)),
      planned |-> Total("plan", Of("plan", OpenPlans(range), "expense", currency)),
      recurring |-> RuleTotal(ProjectedRules("expense", currency), range),
      subscription |-> SubscriptionTotal(range, currency)]

Covered(b) == {l[3][2] : l \in LimitsOf(b)}

\* The two amounts that remaining_after_planned subtracts from the limits.
BudgetConsumption(b, period, currency, occurred) ==
  SpendingOn(Covered(b), period, currency, occurred)

Both(report) == report.actual + report.planned

(***************************************************************************)
(* What an assessment reads of the records here.  The tasks and the events *)
(* of a commitment are rows of other modules, its dates count days from    *)
(* the assessment on.  The budgets it links have one period.               *)
(***************************************************************************)
LinkedTargets(k) == {l[3] : l \in {m \in links : m[1] = "commitment" /\ m[2] = k}}

LinkedPlan(p, budgets, period) ==
  LET entry == db.plan[p].entry
  IN [status |-> db.plan[p].status, type |-> entry.type, amount |-> entry.amount,
      currency |-> Currency[entry.account],
      budgets |-> {b \in budgets : entry.category \in Covered(b) /\ db.plan[p].due \in period}]

LinkedBudget(b, period, occurred) ==
  [currency |-> HomeCurrency,
   remaining |-> LimitAmount * Cardinality(LimitsOf(b))
                   - Both(BudgetConsumption(b, period, HomeCurrency, occurred))]

LinkedSaving(g) ==
  [status |-> db.saving[g].status, currency |-> HomeCurrency,
   target |-> db.saving[g].target, current |-> db.saving[g].current]

AssessedTerms(terms) ==
  [cost |-> IF terms.cost THEN CommitmentMoney ELSE 0,
   buffer |-> IF terms.buffer THEN CommitmentMoney ELSE 0,
   minutes |-> 0,
   currency |-> IF terms.currency THEN {HomeCurrency} ELSE {},
   decision |-> {terms.deadline} \ {None},
   target |-> {terms.ends} \ {None}]

Evidence(k, period, occurred) ==
  LET found(t) == {i \in Live(t) : <<t, i>> \in LinkedTargets(k)}
      actuals == found("actual") \cup ({db.plan[p].actual : p \in found("plan")} \cap Live("actual"))
  IN [task |-> <<>>, linked |-> {}, dependencies |-> {}, event |-> <<>>, conflicts |-> {},
      plan |-> [p \in found("plan") |-> LinkedPlan(p, found("budget"), period)],
      spent |-> {m \in Currencies : Of("actual", actuals, "expense", m) # {}},
      ledger |-> [m \in Currencies |-> LedgerBalance(m, Live("actual"))],
      kept |-> [m \in Currencies |-> 0],
      budget |-> [b \in found("budget") |-> LinkedBudget(b, period, occurred)],
      saving |-> [g \in found("saving") |-> LinkedSaving(g)],
      goals |-> found("goal"),
      missing |-> {x \in LinkedTargets(k) : x[2] \notin Live(x[1])},
      terms |-> AssessedTerms(db.commitment[k].terms)]

(***************************************************************************)
(* Properties.                                                             *)
(***************************************************************************)
\* What the active accounts of a currency hold at the end of a cash flow is
\* what they held before it, and what came in less what was spent: transfers
\* move money and make none, although accounts are deleted and transactions
\* edited apart from each other.  And an occurrence that has an open plan is
\* neither projected for its rule nor for the subscription that the rule is
\* linked to.  And no warning of a commitment is hidden by a component that
\* does not apply.
ReportsConsistent ==
  /\ Alone => \A currency \in Currencies, occurred \in PostingDates :
       \A to \in Times : \A from \in Until(to) :
         LET flow == CashFlow(from, to, currency, occurred)
         IN LedgerBalance(currency, Posted(Until(to), occurred))
              = flow.opening + flow.actual_income - flow.actual_expense
  /\ \A p \in OpenPlans(Times) : LET i == db.plan[p].rule
       IN i # None =>
            /\ db.plan[p].due \notin RuleOccurrences(i, Times)
            /\ db.rule[i].sub # None =>
                 db.plan[p].due \notin SubscriptionOccurrences(db.rule[i].sub, Times)
  /\ \A k \in Live("commitment"), occurred \in PostingDates :
       \A to \in Times : \A from \in Until(to) :
         NoWarningHidden(Evidence(k, Between(from, to), occurred))

Available(as_of, end, currency, occurred) ==
  LET balance == CommittedBalance(as_of, end, currency, occurred)
  IN balance.ledger - (balance.planned + balance.recurring + balance.subscription)

\* The plan p is posted as the transaction a, as planned.
Posts(p, a) ==
  /\ db.actual[a].rev = 0 /\ db'.actual[a].rev > 0
  /\ db'.actual[a].plan = p
  /\ db'.actual[a].entry = db.plan[p].entry

\* What an entry of some categories costs in a currency, in a range of days.
Cost(entry, categories, currency, time, range) ==
  IF /\ entry.type = "expense" /\ Currency[entry.account] = currency
     /\ entry.category \in categories /\ time \in range
  THEN entry.amount ELSE 0

\* Posting a plan as planned takes an amount from the plans of the ranges it
\* is due in and adds it to the transactions of the ranges that the client
\* has dated it in, and does nothing else, whatever overlaps.  What a
\* category costs and a budget has left change by no more than that.  What is
\* available changes only if the plan is overdue or the transaction dated
\* after as_of, as the ledger is read up to as_of and plans from then on; and
\* what a commitment that holds the plan will leave, of which every
\* transaction is read, stays the same.  (Of plans made by hand: see
\* OccurrencesCountedOnce.)
FulfilmentMovesAmount ==
  [][\A p \in Live("plan"), a \in Ids["actual"] :
       LET plan == db.plan[p]
           cost(categories, currency, time, range) ==
             Cost(plan.entry, categories, currency, time, range)
       IN (/\ Posts(p, a)
           /\ plan.rule = None /\ plan.sub = None
           /\ plan.entry.type # "income"
           /\ {plan.entry.account, plan.entry.to} \subseteq Field(Live("account"))) =>
             \A currency \in Currencies, occurred \in PostingDates :
               \A end \in Times : \A start \in Until(end) :
                 LET range == Between(start, end)
                     all == Field(Ids["category"])
                 IN /\ Available(start, end, currency, occurred)'
                         = Available(start, end, currency, occurred)
                             + cost(all, currency, plan.due, range)
                             - cost(all, currency, occurred[a], Until(start))
                    /\ \A categories \in {{k} : k \in all}
                                           \cup {Covered(b) : b \in Live("budget")} :
                         Both(SpendingOn(categories, range, currency, occurred))'
                           = Both(SpendingOn(categories, range, currency, occurred))
                               - cost(categories, currency, plan.due, range)
                               + cost(categories, currency, occurred[a], range)
                    /\ \A k \in {j \in Live("commitment") : <<"plan", p>> \in LinkedTargets(j)} :
                         ProjectedAvailable(Evidence(k, range, occurred), currency)'
                           = ProjectedAvailable(Evidence(k, range, occurred), currency)]_recordVars

\* How often the cash flow counts an occurrence of a rule: as a posted
\* transaction, as an open plan and as a projection.
Counted(i, time) ==
  Cardinality({p \in Live("plan") : db.plan[p].rule = i /\ db.plan[p].born = time
                                      /\ db.plan[p].status # "cancelled"})
    + Cardinality({time} \cap RuleOccurrences(i, Times))

\* docs/finance-engine.md:59-60: "Generated plans replace their matching
\* recurrence or subscription occurrence, preventing double counting."  An
\* occurrence of an active rule is counted once, whatever became of its plan.
OccurrencesCountedOnce ==
  \A i \in {j \in ActiveRules : db.rule[j].sub = None} : \A time \in Times :
    Counted(i, time) <= 1
=============================================================================
