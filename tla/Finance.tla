------------------------------ MODULE Finance ------------------------------
(***************************************************************************)
(* Accounts, categories, posted transactions and planned transactions:     *)
(* services/finance_accounts.py, finance_categories.py,                    *)
(* finance_transactions.py and finance_validation.py.                      *)
(*                                                                         *)
(* An entry is what a transaction, a plan and a recurrence rule share: the *)
(* account, the destination of a transfer, the category, the type and the  *)
(* amount.  Names, payees, notes and dates other than a plan's are left    *)
(* out.  The dispatch to the automation rules after a commit is the        *)
(* BeginDispatch of module Automation.                                     *)
(***************************************************************************)
EXTENDS Records

CONSTANTS
  Currency,      \* the currency an account is created with
  Kind,          \* the kind a category is created with
  Defaults,      \* the categories of the seed, which are not deleted
  Entries,       \* the entries clients send
  Amounts,       \* the amounts clients change an amount to
  Fingerprints,  \* the import fingerprints clients send
  Times          \* the times a plan may be due at

Types == {"income", "expense", "transfer"}

Field(values) == values \cup {None}

Entry ==
  [account : Ids["account"], to : Field(Ids["account"]),
   category : Field(Ids["category"]), type : Types, amount : Nat \ {0}]

\* The schemas ask for amounts greater than zero.
ASSUME FinanceAssumption == Entries \subseteq Entry /\ Amounts \subseteq Nat \ {0}

\* "born" is the time a plan was made for, and not a column: the properties
\* ask for it when the plan has been moved.
PlanRow(entry, due, rule, sub) ==
  [entry |-> entry, due |-> due, born |-> due, rule |-> rule, sub |-> sub,
   status |-> "planned", actual |-> None]

\* The values a row holds under the unique indexes.
Fingerprint(t, p) == {<<t, "fingerprint", q>> : q \in {p} \ {None}}

Occurrence(rule, due) == <<"plan", "occurrence", rule, due>>

(***************************************************************************)
(* validate_transaction_relationships.                                     *)
(***************************************************************************)
ValidSubscription(e, s) ==
  /\ s \in Live("sub")
  /\ db.sub[s].account = e.account
  /\ db.sub[s].category = e.category
  /\ e.type = "expense"

ValidEntry(e, s) ==
  /\ e.account \in Live("account")
  /\ e.type = "transfer" =>
       /\ e.to \in Live("account") \ {e.account}
       /\ Currency[e.to] = Currency[e.account]
       /\ e.category = None
  /\ e.type # "transfer" => e.to = None
  /\ e.category # None =>
       /\ e.category \in Live("category")
       /\ Kind[e.category] = IF e.type = "income" THEN "income" ELSE "expense"
  /\ s # None => ValidSubscription(e, s)

FingerprintFree(t, p, except) ==
  \A i \in Ids[t] \ {except} : db[t][i].held \cap Fingerprint(t, p) = {}

(***************************************************************************)
(* Accounts and categories.                                                *)
(***************************************************************************)
BeginCreateAccount(c) ==
  Reads(c, "create_account", {Creation("account") : i \in Free("account")})

CreateAccount(c) ==
  Writes(c, "create_account") /\ db' = Added("account", [opened |-> TRUE])

BeginUpdateAccount(c) ==
  Reads(c, "update_account", {Change("account", a) : a \in Changeable("account")})

UpdateAccount(c) ==
  Writes(c, "update_account") /\ db' = Updated(request[c], [opened |-> TRUE])

\* Mutant: the destination of a transfer is not counted.
UsesAsSource(row, a) == row.entry.account = a

Uses(row, a) == row.entry.account = a \/ row.entry.to = a

\* The finance records that keep an account from being deleted.  A budget
\* has no account, and a link is not counted.
AccountInUse(a) ==
  \/ \E t \in {"actual", "plan", "rule"} : \E i \in Live(t) : Uses(db[t][i], a)
  \/ \E t \in {"sub", "saving"} : \E i \in Live(t) : db[t][i].account = a

BeginDeleteAccount(c) ==
  Reads(c, "delete_account",
    {Change("account", a) : a \in {b \in Changeable("account") : ~AccountInUse(b)}})

DeleteAccount(c) ==
  Writes(c, "delete_account") /\ db' = SoftDeleted(request[c])

BeginCreateCategory(c) ==
  Reads(c, "create_category", {Creation("category") : i \in Free("category")})

CreateCategory(c) ==
  Writes(c, "create_category") /\ db' = Added("category", [named |-> TRUE])

BeginUpdateCategory(c) ==
  Reads(c, "update_category", {Change("category", k) : k \in Changeable("category")})

UpdateCategory(c) ==
  Writes(c, "update_category") /\ db' = Updated(request[c], [named |-> TRUE])

\* Nothing is asked of the records that have the category.
BeginDeleteCategory(c) ==
  Reads(c, "delete_category",
    {Change("category", k) : k \in Changeable("category") \ Defaults})

DeleteCategory(c) ==
  Writes(c, "delete_category") /\ db' = SoftDeleted(request[c])

(***************************************************************************)
(* Posted transactions.  A transfer is a transaction of its type.          *)
(***************************************************************************)
BeginCreateTransaction(c) ==
  Reads(c, "create_transaction",
    {[entry |-> e] & Claiming("actual", Fingerprint("actual", p)) :
       e \in {f \in Entries : Free("actual") # {} /\ ValidEntry(f, None)},
       p \in {q \in Field(Fingerprints) : FingerprintFree("actual", q, None)}})

CreateTransaction(c) ==
  /\ Writes(c, "create_transaction")
  /\ db' = Added("actual",
       [entry |-> request[c].entry, plan |-> None, held |-> request[c].held])

WithAmount(e, a) == [e EXCEPT !.amount = a]

\* What a PATCH makes of an entry: another category or another amount.
Patched(e) ==
  {[e EXCEPT !.category = k] : k \in Field(Ids["category"])}
    \cup {WithAmount(e, a) : a \in Amounts}

\* The category is validated again even when the body does not name it.
BeginUpdateTransaction(c) ==
  Reads(c, "update_transaction",
    UNION {{[entry |-> e] & Change("actual", i) :
              e \in {f \in Patched(db.actual[i].entry) : ValidEntry(f, None)}} :
           i \in Changeable("actual")})

UpdateTransaction(c) ==
  /\ Writes(c, "update_transaction")
  /\ db' = Updated(request[c], [entry |-> request[c].entry])

Fulfils(i) == \E p \in Live("plan") : db.plan[p].actual = i

BeginDeleteTransaction(c) ==
  Reads(c, "delete_transaction",
    {[Change("actual", i) EXCEPT !.drops = LinksOf("commitment", <<"actual", i>>)] :
       i \in {j \in Changeable("actual") : ~Fulfils(j)}})

DeleteTransaction(c) ==
  Writes(c, "delete_transaction") /\ db' = SoftDeleted(request[c])

(***************************************************************************)
(* Planned transactions.                                                   *)
(***************************************************************************)
Open(p) == db.plan[p].status = "planned"

PlanBodies ==
  {[entry |-> e, due |-> due, sub |-> s] :
     e \in Entries, due \in Times, s \in Field(Ids["sub"])}

BeginCreatePlan(c) ==
  Reads(c, "create_plan",
    {body & Creation("plan") :
       body \in {b \in PlanBodies : Free("plan") # {} /\ ValidEntry(b.entry, b.sub)}})

CreatePlan(c) ==
  /\ Writes(c, "create_plan")
  /\ db' = Added("plan", PlanRow(request[c].entry, request[c].due, None, request[c].sub))

BeginUpdatePlan(c) ==
  Reads(c, "update_plan",
    UNION {{[entry |-> e, due |-> due] & Change("plan", p) :
              e \in {f \in Patched(db.plan[p].entry) : ValidEntry(f, db.plan[p].sub)},
              due \in Times} :
           p \in {q \in Changeable("plan") : Open(q)}})

UpdatePlan(c) ==
  /\ Writes(c, "update_plan")
  /\ db' = Updated(request[c], [entry |-> request[c].entry, due |-> request[c].due])

\* Mutant: the status of the plan is not asked for.
BeginCancelAnyPlan(c) ==
  Reads(c, "cancel_plan", {Change("plan", p) : p \in Changeable("plan")})

BeginCancelPlan(c) ==
  Reads(c, "cancel_plan", {Change("plan", p) : p \in {q \in Changeable("plan") : Open(q)}})

CancelPlan(c) ==
  Writes(c, "cancel_plan") /\ db' = Updated(request[c], [status |-> "cancelled"])

\* The actual is inserted first, from what was read of the plan, and goes
\* again if the plan has changed since.  "plan" is not a column of it: the
\* properties ask for the plan it was made for.
BeginFulfilPlan(c) ==
  Reads(c, "fulfil_plan",
    {[entry |-> WithAmount(db.plan[p].entry, a)] & Change("plan", p) :
       p \in {q \in Changeable("plan") : Open(q) /\ Free("actual") # {}},
       a \in Amounts})

\* Mutant: the plan is not given its actual.
FulfilWithoutLink(c) ==
  /\ Writes(c, "fulfil_plan")
  /\ Free("actual") # {}
  /\ db' = [Updated(request[c], [status |-> "fulfilled"])
              EXCEPT !.actual = Added("actual", [entry |-> request[c].entry, plan |-> request[c].id]).actual]

FulfilPlan(c) ==
  /\ Writes(c, "fulfil_plan")
  /\ Free("actual") # {}
  /\ db' = [Updated(request[c], [status |-> "fulfilled", actual |-> NewId("actual")])
              EXCEPT !.actual =
                Added("actual", [entry |-> request[c].entry, plan |-> request[c].id]).actual]

BeginDeletePlan(c) ==
  Reads(c, "delete_plan",
    {[Change("plan", p) EXCEPT !.drops = LinksOf("commitment", <<"plan", p>>)] :
       p \in {q \in Changeable("plan") : db.plan[q].status # "fulfilled"}})

DeletePlan(c) ==
  Writes(c, "delete_plan") /\ db' = SoftDeleted(request[c])

(***************************************************************************)
(* The requests of api/v1/routes/finance_accounts.py and                   *)
(* finance_transactions.py.                                                *)
(***************************************************************************)
AccountRequest(c) ==
  \/ BeginCreateAccount(c) \/ CreateAccount(c)
  \/ BeginUpdateAccount(c) \/ UpdateAccount(c)
  \/ BeginDeleteAccount(c) \/ DeleteAccount(c)
  \/ BeginCreateCategory(c) \/ CreateCategory(c)
  \/ BeginUpdateCategory(c) \/ UpdateCategory(c)
  \/ BeginDeleteCategory(c) \/ DeleteCategory(c)

TransactionRequest(c) ==
  \/ BeginCreateTransaction(c) \/ CreateTransaction(c)
  \/ BeginUpdateTransaction(c) \/ UpdateTransaction(c)
  \/ BeginDeleteTransaction(c) \/ DeleteTransaction(c)
  \/ BeginCreatePlan(c) \/ CreatePlan(c)
  \/ BeginUpdatePlan(c) \/ UpdatePlan(c)
  \/ BeginCancelPlan(c) \/ CancelPlan(c)
  \/ BeginFulfilPlan(c) \/ FulfilPlan(c)
  \/ BeginDeletePlan(c) \/ DeletePlan(c)

(***************************************************************************)
(* Properties.                                                             *)
(***************************************************************************)
\* While one client works alone, no active record of the finance tables
\* refers to a deleted account: delete_account counts them all.
AccountsInUse ==
  Alone => \A a \in Ids["account"] : AccountInUse(a) => a \in Live("account")

\* A plan is fulfilled by a posted transaction of its own, which stays: no
\* two requests fulfil it twice, and neither the plan nor its transaction is
\* deleted, whatever was decided from an older read.
FulfilledOnce ==
  \A p \in Ids["plan"] : db.plan[p].rev > 0 /\ db.plan[p].status = "fulfilled" =>
    /\ p \in Live("plan")
    /\ db.plan[p].actual \in Live("actual")
    /\ \A a \in Ids["actual"] :
         db.actual[a].rev > 0 => (db.actual[a].plan = p <=> a = db.plan[p].actual)

\* A closed plan is not opened, edited or closed another way: a cancelled
\* one can only be deleted.
PlansStayClosed ==
  \A p \in Ids["plan"] :
    db.plan[p].rev > 0 /\ ~Open(p) =>
      [db'.plan[p] EXCEPT !.rev = 0, !.live = TRUE]
        = [db.plan[p] EXCEPT !.rev = 0, !.live = TRUE]
=============================================================================
