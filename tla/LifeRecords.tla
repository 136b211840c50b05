---------------------------- MODULE LifeRecords ----------------------------
(***************************************************************************)
(* The records of a life together: accounts, categories, transactions,     *)
(* plans, rules, subscriptions, goals, budgets, notes, tags and            *)
(* commitments, changed by clients whose requests overlap.                 *)
(***************************************************************************)
EXTENDS Commitments

ASSUME TablesAssumption ==
  DOMAIN Ids =
    {"account", "category", "actual", "plan", "rule", "sub", "saving", "goal", "budget",
     "note", "tag", "commitment"}

Next ==
  \E c \in Clients :
    \/ AccountRequest(c) \/ TransactionRequest(c)
    \/ RuleRequest(c) \/ SubscriptionRequest(c)
    \/ GoalRequest(c) \/ BudgetRequest(c)
    \/ NoteRequest(c) \/ TagRequest(c)
    \/ CommitmentRequest(c)
    \/ Refused(c)

Spec == RecordsInit /\ [][Next]_recordVars

(***************************************************************************)
(* Type correctness.                                                       *)
(***************************************************************************)
Rows(t) == {db[t][i] : i \in {j \in Ids[t] : db[t][j].rev > 0}}

FinanceRowsOK ==
  /\ \A row \in Rows("actual") : row.entry \in Entry
  /\ \A row \in Rows("plan") :
       /\ row.entry \in Entry
       /\ row.due \in Times /\ row.born \in Times
       /\ row.rule \in Field(Ids["rule"]) /\ row.sub \in Field(Ids["sub"])
       /\ row.status \in {"planned", "fulfilled", "cancelled"}
       /\ row.actual \in Field(Ids["actual"])
       /\ row.status = "fulfilled" <=> row.actual # None
  /\ \A row \in Rows("rule") :
       /\ row.entry \in Entry /\ row.sub \in Field(Ids["sub"])
       /\ row.status \in RuleStatus /\ row.schedule \in Schedules
  /\ \A row \in Rows("sub") :
       /\ row.account \in Ids["account"] /\ row.category \in Field(Ids["category"])
       /\ row.amount \in Prices /\ row.schedule \in Schedules
       /\ row.status \in SubscriptionStatus

OtherRowsOK ==
  /\ \A row \in Rows("saving") :
       /\ row.account \in Field(Ids["account"])
       /\ row.target \in Targets /\ row.current \in 0 .. MaxSaved
       /\ row.status \in GoalStatus
  /\ \A row \in Rows("goal") : row.progress \in Progress /\ row.status \in GoalStatus
  /\ \A row \in Rows("note") : row.held \subseteq Daily(row.date)
  /\ \A row \in Rows("commitment") : row.status \in CommitmentStatus

\* The rows have the shapes of models/finance.py and models/productivity.py,
\* a transfer and only a transfer has a destination, a plan has its actual
\* exactly when it is fulfilled, and a link has two ends.
RecordsTypeOK ==
  /\ \A t \in DOMAIN Ids : \A i \in Ids[t] :
       db[t][i].rev \in Nat /\ db[t][i].live \in BOOLEAN
  /\ FinanceRowsOK
  /\ OtherRowsOK
  /\ \A t \in {"actual", "plan", "rule"} : \A row \in Rows(t) :
       row.entry.to # None <=> row.entry.type = "transfer"
  /\ \A l \in links :
       l[1] \in {"limit", "note", "entity", "tag", "commitment"}
         /\ l[3][2] \in Ids[l[3][1]]
  /\ \A c \in Clients : request[c] = Idle \/ request[c].op \in workload.ops

(***************************************************************************)
(* Properties of several parts at once.                                    *)
(***************************************************************************)
\* While one client works alone, what an active finance record and what a
\* link of a note or of a commitment leads to is active, linked rules say
\* what their subscription says, and what a request has validated is not
\* refused afterwards.
AloneConsistent ==
  AccountsInUse /\ LinksLead /\ LinkedRulesFollow /\ AloneIsServed

\* A plan has its occurrence and its posted transaction to itself, whichever
\* generations and fulfilments overlap.
PlansOnce == OccurrencePlannedOnce /\ FulfilledOnce

\* What one request writes another request does not undo: contributions add
\* up, price changes chain, and the terms of a commitment fit together,
\* although all are computed or validated from an earlier read.
NothingLost == NoContributionLost /\ PriceHistory /\ CommitmentsWellShaped

\* What is closed stays closed, whatever an overlapping request has decided
\* before: a cancelled or fulfilled plan, an archived commitment.
ClosedStaysClosed == [][PlansStayClosed /\ ArchivedImmutable]_recordVars
=============================================================================
