--------------------------- MODULE RecordsProofs ---------------------------
(***************************************************************************)
(* What overlapping requests of any number of clients cannot do to the     *)
(* records: the UPDATE that names the revision a client has read, and the  *)
(* unique indexes, are enough, although everything else is decided outside *)
(* of the transaction (RecordsInv).  Then the types of rows, links and     *)
(* requests (TypesInv), and what else holds while one client works alone   *)
(* (AloneInv).  At the end, that the overall status of an assessment is    *)
(* the worst of its warnings.                                              *)
(***************************************************************************)
EXTENDS Assessment, LifeRecords, FiniteSetTheorems, TLAPS

(***************************************************************************)
(* The inductive invariant.                                                *)
(***************************************************************************)
Creates ==
  {"create_account", "create_category", "create_transaction", "create_plan", "create_rule",
   "create_sub", "create_saving", "create_goal", "create_budget", "create_note",
   "create_tag", "create_commitment"}

Changes ==
  {"update_account", "delete_account", "update_category", "delete_category",
   "update_transaction", "delete_transaction", "update_plan", "cancel_plan",
   "fulfil_plan", "delete_plan", "update_rule", "set_rule_status", "delete_rule",
   "update_sub", "delete_sub", "update_saving", "contribute", "delete_saving",
   "update_goal", "delete_goal", "update_budget", "delete_budget", "update_note",
   "delete_note", "delete_tag", "update_commitment", "archive_commitment",
   "delete_commitment"}

\* The table whose row an operation inserts, updates or deletes.
TableOf ==
  [create_account |-> "account", update_account |-> "account", delete_account |-> "account",
   create_category |-> "category", update_category |-> "category",
   delete_category |-> "category", create_transaction |-> "actual",
   update_transaction |-> "actual", delete_transaction |-> "actual",
   create_plan |-> "plan", update_plan |-> "plan", cancel_plan |-> "plan",
   fulfil_plan |-> "plan", delete_plan |-> "plan", generate |-> "plan",
   create_rule |-> "rule", update_rule |-> "rule", set_rule_status |-> "rule",
   delete_rule |-> "rule", create_sub |-> "sub", update_sub |-> "sub", delete_sub |-> "sub",
   create_saving |-> "saving", update_saving |-> "saving", contribute |-> "saving",
   delete_saving |-> "saving", create_goal |-> "goal", update_goal |-> "goal",
   delete_goal |-> "goal", create_budget |-> "budget", update_budget |-> "budget",
   delete_budget |-> "budget", create_note |-> "note", update_note |-> "note",
   delete_note |-> "note", create_tag |-> "tag", delete_tag |-> "tag",
   create_commitment |-> "commitment", update_commitment |-> "commitment",
   archive_commitment |-> "commitment", delete_commitment |-> "commitment"]

Columns == {"rev", "live", "held"}

IsRow(row) ==
  /\ Columns \subseteq DOMAIN row
  /\ row.rev \in Nat
  /\ row.live \in BOOLEAN
  /\ row.live => row.rev > 0

Tabled ==
  /\ DOMAIN db = DOMAIN Ids
  /\ \A t \in DOMAIN Ids : DOMAIN db[t] = Ids[t] /\ \A i \in Ids[t] : IsRow(db[t][i])

Kept(t) == {i \in Ids[t] : db[t][i].rev > 0}

\* What a request has learnt of a row, and is true as long as the row has
\* the revision it had.
Learnt(r, row) ==
  /\ r.table = "plan" => r.held = row.held
  /\ r.op \in {"update_plan", "cancel_plan", "fulfil_plan"} => row.status = "planned"
  /\ r.op = "delete_plan" => row.status # "fulfilled"
  /\ r.op = "contribute" => r.amount \in Nat /\ r.goal.current = row.current + r.amount
  /\ r.op = "update_sub" => r.old = row.amount
  /\ r.op \in {"update_commitment", "archive_commitment"} => row.status # "archived"
  /\ r.op = "update_commitment" => WellShaped(r.values & row.terms)

\* What a savings goal always says of its contributions.
AddsUp(goal) ==
  /\ {"current", "set", "given"} \subseteq DOMAIN goal
  /\ goal.current \in Nat /\ goal.set \in Nat /\ goal.given \in Nat
  /\ goal.current = goal.set + goal.given

\* Plans to be inserted by one request: each has an occurrence of its own.
Generated(r) ==
  /\ IsFiniteSet(r.plans)
  /\ \A p \in r.plans :
       /\ p.rule # None /\ p.status = "planned"
       /\ {"rule", "born", "status", "actual", "held"} \subseteq DOMAIN p
       /\ DOMAIN p \cap {"rev", "live"} = {}
       /\ p.held = {Occurrence(p.rule, p.born)} /\ p.held \subseteq r.held
  /\ \A p, q \in r.plans : p.born = q.born => p = q

\* No plan is fulfilled by the transaction.
Unneeded(a) ==
  \A p \in Kept("plan") : db.plan[p].status = "fulfilled" => db.plan[p].actual # a

Informed(r) ==
  /\ r.op \in Creates => r.table = TableOf[r.op] /\ r.id = None
  /\ r.op \in Changes =>
       /\ r.table = TableOf[r.op]
       /\ r.id \in Ids[r.table]
       /\ r.rev \in Nat \ {0} /\ r.rev <= db[r.table][r.id].rev
       /\ ~Stale(r) => Learnt(r, db[r.table][r.id])
  /\ r.op = "delete_transaction" => Unneeded(r.id)
  /\ r.op = "create_commitment" => WellShaped(r.terms)
  /\ r.op = "update_saving" => AddsUp(r.goal)
  /\ r.op = "create_sub" => r.amount \in Prices
  /\ r.op = "update_sub" =>
       /\ r.settings.amount \in Prices /\ r.old \in Prices
       /\ DOMAIN r.settings = {"category", "amount", "schedule", "status"}
  /\ r.op = "generate" => r.table = "plan" /\ r.id = None /\ Generated(r)

PlansInv ==
  /\ \A p \in Kept("plan") :
       {"rule", "born", "status", "actual"} \subseteq DOMAIN db.plan[p]
  /\ \A p \in Kept("plan") :
       db.plan[p].rule # None =>
         Occurrence(db.plan[p].rule, db.plan[p].born) \in db.plan[p].held
  /\ \A p, q \in Ids["plan"] : p # q => db.plan[p].held \cap db.plan[q].held = {}

FulfilledInv ==
  /\ \A p \in Kept("plan") : db.plan[p].status = "fulfilled" =>
       /\ db.plan[p].live
       /\ db.plan[p].actual \in Live("actual")
       /\ db.actual[db.plan[p].actual].plan = p
  /\ \A a \in Kept("actual") : "plan" \in DOMAIN db.actual[a]
  /\ \A a \in Kept("actual") : \A p \in Ids["plan"] : db.actual[a].plan = p =>
       /\ p \in Kept("plan") /\ db.plan[p].status = "fulfilled" /\ db.plan[p].actual = a

SavingsInv == \A g \in Kept("saving") : AddsUp(db.saving[g])

Chained(row) ==
  /\ {"amount", "prices"} \subseteq DOMAIN row
  /\ row.amount \in Prices
  /\ row.prices \in Seq(Prices \X Prices)
  /\ \A n \in 1 .. Len(row.prices) :
       /\ row.prices[n][1] # row.prices[n][2]
       /\ n > 1 => row.prices[n][1] = row.prices[n - 1][2]
  /\ row.prices # <<>> => row.prices[Len(row.prices)][2] = row.amount

ChainsInv == \A s \in Kept("sub") : Chained(db.sub[s])

CommitmentsInv ==
  \A k \in Kept("commitment") :
    {"terms", "status"} \subseteq DOMAIN db.commitment[k] /\ WellShaped(db.commitment[k].terms)

RequestsInv == \A c \in Clients : Informed(request[c])

RecordsInv ==
  /\ Tabled
  /\ DOMAIN request = Clients
  /\ RequestsInv
  /\ PlansInv /\ FulfilledInv /\ SavingsInv /\ ChainsInv /\ CommitmentsInv

(***************************************************************************)
(* Rows.                                                                   *)
(***************************************************************************)
\* What a step may do to the tables: a row it touches goes to a later revision.
Moves ==
  /\ DOMAIN db' = DOMAIN Ids
  /\ \A t \in DOMAIN Ids :
       /\ DOMAIN db'[t] = Ids[t]
       /\ \A i \in Ids[t] :
            /\ IsRow(db'[t][i])
            /\ db'[t][i] = db[t][i] \/ db'[t][i].rev > db[t][i].rev

\* A step that writes one row.
Puts(t, i, row) ==
  /\ t \in DOMAIN Ids /\ i \in Ids[t]
  /\ IsRow(row) /\ row.rev > db[t][i].rev
  /\ db' = [db EXCEPT ![t][i] = row]

LEMMA PutMoves ==
  ASSUME Tabled, NEW t, NEW i, NEW row, Puts(t, i, row)
  PROVE  /\ Moves
         /\ \A u \in DOMAIN Ids \ {t} : db'[u] = db[u]
         /\ \A j \in Ids[t] : db'[t][j] = IF j = i THEN row ELSE db[t][j]
BY DEF Puts, Tabled, Moves

\* The row "new" that a transaction makes of the fields it is given.
IsAdded(t, row, new) ==
  /\ NewId(t) \in Free(t)
  /\ Added(t, row) = [db EXCEPT ![t][NewId(t)] = new]
  /\ IsRow(new)
  /\ new.rev = 1 /\ new.live = TRUE
  /\ new.held = IF "held" \in DOMAIN row THEN row.held ELSE {}
  /\ DOMAIN new = DOMAIN row \cup Columns
  /\ \A f \in DOMAIN row : new[f] = row[f]

LEMMA Inserts ==
  ASSUME Tabled, NEW t \in DOMAIN Ids, Free(t) # {},
         NEW row, DOMAIN row \cap {"rev", "live"} = {}
  PROVE  \E new : IsAdded(t, row, new)
<1> DEFINE new == row & [rev |-> 1, live |-> TRUE, held |-> {}]
<1>1. NewId(t) \in Free(t)
  BY DEF NewId
<1>2. Added(t, row) = [db EXCEPT ![t][NewId(t)] = new]
  BY DEF Added
<1>3. DOMAIN new = DOMAIN row \cup Columns
  BY DEF &, Columns
<1>4. /\ new.rev = 1 /\ new.live = TRUE
      /\ new.held = IF "held" \in DOMAIN row THEN row.held ELSE {}
      /\ \A f \in DOMAIN row : new[f] = row[f]
  BY DEF &
<1>5. IsRow(new)
  <2> HIDE DEF new
  <2>1. new.rev \in Nat /\ new.rev > 0
    BY <1>4
  <2> QED BY <1>3, <1>4, <2>1, Zenon DEF IsRow
<1> QED BY <1>1, <1>2, <1>3, <1>4, <1>5 DEF IsAdded

\* The row "new" that a transaction makes of the row of its request.
IsUpdated(r, values, new) ==
  LET row == db[r.table][r.id]
  IN /\ Updated(r, values) = [db EXCEPT ![r.table][r.id] = new]
     /\ IsRow(new)
     /\ new.rev = row.rev + 1 /\ new.live = TRUE /\ new.held = r.held
     /\ DOMAIN new = DOMAIN values \cup DOMAIN row
     /\ \A f \in DOMAIN values \ Columns : new[f] = values[f]
     /\ \A f \in DOMAIN row \ (DOMAIN values \cup Columns) : new[f] = row[f]

LEMMA Revises ==
  ASSUME Tabled, NEW r, r.table \in DOMAIN Ids, r.id \in Ids[r.table], ~Stale(r), NEW values
  PROVE  \E new : IsUpdated(r, values, new)
<1> DEFINE row == db[r.table][r.id]
           merged == values & row
           new == [merged EXCEPT !.live = TRUE, !.rev = r.rev + 1, !.held = r.held]
<1>1. IsRow(row) /\ row.rev = r.rev
  BY RecordsAssumption DEF Tabled, Stale
<1>2. Updated(r, values) = [db EXCEPT ![r.table][r.id] = new]
  BY DEF Updated
<1>3. /\ DOMAIN merged = DOMAIN values \cup DOMAIN row
      /\ \A f \in DOMAIN values : merged[f] = values[f]
      /\ \A f \in DOMAIN row \ DOMAIN values : merged[f] = row[f]
  BY DEF &
<1>4. QED
  <2> HIDE DEF merged, row
  <2>1. /\ new.rev = row.rev + 1 /\ new.live = TRUE /\ new.held = r.held
        /\ DOMAIN new = DOMAIN merged
        /\ \A f \in DOMAIN merged \ Columns : new[f] = merged[f]
    BY <1>1, <1>3 DEF IsRow, Columns
  <2>2. IsRow(new)
    <3> HIDE DEF new
    <3>1. new.rev \in Nat /\ new.rev > 0
      BY <1>1, <2>1 DEF IsRow
    <3>2. Columns \subseteq DOMAIN new
      BY <1>1, <1>3, <2>1 DEF IsRow
    <3> QED BY <2>1, <3>1, <3>2, Zenon DEF IsRow
  <2> HIDE DEF new
  <2>3. /\ \A f \in DOMAIN values \ Columns : new[f] = values[f]
        /\ \A f \in DOMAIN row \ (DOMAIN values \cup Columns) : new[f] = row[f]
    BY <1>3, <2>1
  <2>4. DOMAIN new = DOMAIN values \cup DOMAIN row
    BY <1>3, <2>1
  <2> QED BY <1>2, <2>1, <2>2, <2>3, <2>4, Zenon DEF row, IsUpdated

\* The row "new" that is marked as deleted.
IsDeleted(r, new) ==
  LET row == db[r.table][r.id]
  IN /\ SoftDeleted(r) = [db EXCEPT ![r.table][r.id] = new]
     /\ IsRow(new)
     /\ new.rev = row.rev + 1 /\ new.live = FALSE /\ new.held = r.held
     /\ DOMAIN new = DOMAIN row
     /\ \A f \in DOMAIN row \ Columns : new[f] = row[f]

LEMMA Deletes ==
  ASSUME Tabled, NEW r, r.table \in DOMAIN Ids, r.id \in Ids[r.table], ~Stale(r)
  PROVE  \E new : IsDeleted(r, new)
<1> DEFINE row == db[r.table][r.id]
           new == [row EXCEPT !.live = FALSE, !.rev = r.rev + 1, !.held = r.held]
<1>1. IsRow(row) /\ row.rev = r.rev
  BY RecordsAssumption DEF Tabled, Stale
<1>2. SoftDeleted(r) = [db EXCEPT ![r.table][r.id] = new]
  BY DEF SoftDeleted
<1>3. QED
  <2> HIDE DEF row
  <2>1. /\ new.rev = row.rev + 1 /\ new.live = FALSE /\ new.held = r.held
        /\ DOMAIN new = DOMAIN row
        /\ \A f \in DOMAIN row \ Columns : new[f] = row[f]
    BY <1>1 DEF IsRow, Columns
  <2>2. IsRow(new)
    <3> HIDE DEF new
    <3>1. new.rev \in Nat /\ new.rev > 0
      BY <1>1, <2>1 DEF IsRow
    <3>2. Columns \subseteq DOMAIN new
      BY <1>1, <2>1 DEF IsRow
    <3> QED BY <2>1, <3>1, <3>2, Zenon DEF IsRow
  <2> HIDE DEF new
  <2> QED BY <1>2, <2>1, <2>2 DEF row, IsDeleted

(***************************************************************************)
(* The reads of a request.                                                 *)
(***************************************************************************)
\* A step in which a client begins or gives up a request.
Begins(c, r) ==
  /\ request' = [request EXCEPT ![c] = r]
  /\ db' = db
  /\ Informed(r)

\* What was read is about row i of a table.
IsChange(r, t, i) ==
  /\ {"table", "id", "rev", "held"} \subseteq DOMAIN r
  /\ r.table = t /\ r.id = i /\ r.rev = db[t][i].rev

LEMMA ReadsBegin ==
  ASSUME NEW c, NEW op, NEW found, Reads(c, op, found),
         \A r \in found : Informed([op |-> op] & r)
  PROVE  \E r : Begins(c, r)
BY DEF Reads, Opens, Begins

LEMMA OpensBegin ==
  ASSUME NEW c, NEW op, NEW r, Opens(c, op, r), db' = db, Informed([op |-> op] & r)
  PROVE  \E q : Begins(c, q)
BY DEF Opens, Begins

LEMMA ReadsOnly ==
  ASSUME NEW c, NEW op, NEW found, Reads(c, op, found)
  PROVE  db' = db
BY DEF Reads

LEMMA Opened ==
  ASSUME NEW op, NEW r
  PROVE  /\ ([op |-> op] & r).op = op
         /\ \A f \in DOMAIN r \ {"op"} : ([op |-> op] & r)[f] = r[f]
BY DEF &

LEMMA ChangeInformed ==
  ASSUME Tabled, NEW op \in Changes, NEW t \in DOMAIN Ids, t = TableOf[op],
         NEW i \in Changeable(t), NEW r, IsChange(r, t, i)
  PROVE  LET new == [op |-> op] & r
         IN /\ new.op = op /\ new.table = t /\ new.id = i /\ new.rev = db[t][i].rev
            /\ new.held = r.held
            /\ i \in Ids[t] /\ new.rev \in Nat \ {0}
            /\ new.op \notin Creates
<1> DEFINE new == [op |-> op] & r
<1>1. /\ new.op = op /\ new.table = t /\ new.id = i /\ new.rev = db[t][i].rev
      /\ new.held = r.held
  BY Opened DEF IsChange
<1>2. i \in Ids[t] /\ new.rev \in Nat \ {0}
  <2> HIDE DEF new
  <2> QED BY <1>1 DEF Changeable, Live, Tabled, IsRow
<1>3. op \notin Creates
  BY DEF Creates, Changes
<1> QED BY <1>1, <1>2, <1>3

\* The operations of which nothing more needs to be known.
Plain ==
  Changes \ {"delete_transaction", "update_plan", "cancel_plan", "fulfil_plan",
             "delete_plan", "update_sub", "update_saving", "contribute",
             "update_commitment", "archive_commitment"}

LEMMA PlainInformed ==
  ASSUME Tabled, NEW op \in Plain, NEW t \in DOMAIN Ids, t = TableOf[op],
         NEW i \in Changeable(t), NEW r, IsChange(r, t, i)
  PROVE  Informed([op |-> op] & r)
<1> DEFINE new == [op |-> op] & r
<1>1. op \in Changes
  BY DEF Plain
<1>2. /\ new.op = op /\ new.table = t /\ new.id = i /\ new.rev = db[t][i].rev
      /\ i \in Ids[t] /\ new.rev \in Nat \ {0}
      /\ new.op \notin Creates
  BY <1>1, ChangeInformed
<1>3. t # "plan"
  BY DEF Plain, Changes, TableOf
<1>4. Learnt(new, db[t][i])
  <2> HIDE DEF new
  <2> QED BY <1>2, <1>3 DEF Learnt, Plain
<1>5. /\ op # "delete_transaction" /\ op # "create_commitment" /\ op # "update_saving"
      /\ op # "create_sub" /\ op # "update_sub" /\ op # "generate"
  BY DEF Plain, Changes
<1> SUFFICES Informed(new)
  OBVIOUS
<1> HIDE DEF new
<1>6. /\ new.op \notin Creates /\ new.table = TableOf[new.op]
      /\ new.id \in Ids[new.table]
      /\ new.rev \in Nat \ {0} /\ new.rev <= db[new.table][new.id].rev
      /\ Learnt(new, db[new.table][new.id])
      /\ new.op # "delete_transaction" /\ new.op # "create_commitment"
      /\ new.op # "update_saving" /\ new.op # "create_sub" /\ new.op # "update_sub"
      /\ new.op # "generate"
  BY <1>2, <1>4, <1>5
<1>7. QED
  BY <1>6 DEF Informed

LEMMA CreationInformed ==
  ASSUME NEW op \in Creates \ {"create_sub", "create_commitment"}, NEW r,
         {"table", "id"} \subseteq DOMAIN r, r.table = TableOf[op], r.id = None
  PROVE  Informed([op |-> op] & r)
<1> DEFINE new == [op |-> op] & r
<1>1. new.op = op /\ new.table = TableOf[op] /\ new.id = None
  BY Opened
<1> SUFFICES Informed(new)
  OBVIOUS
<1> HIDE DEF new
<1>2. /\ op \notin Changes
      /\ op # "delete_transaction" /\ op # "create_commitment" /\ op # "update_saving"
      /\ op # "create_sub" /\ op # "update_sub" /\ op # "generate"
  BY DEF Creates, Changes
<1>3. /\ new.op \notin Changes /\ new.table = TableOf[new.op]
      /\ new.op # "delete_transaction" /\ new.op # "create_commitment"
      /\ new.op # "update_saving" /\ new.op # "create_sub" /\ new.op # "update_sub"
      /\ new.op # "generate"
  BY <1>1, <1>2
<1> QED BY <1>1, <1>3 DEF Informed

LEMMA AccountBegins ==
  ASSUME Tabled, NEW c \in Clients,
         \/ BeginCreateAccount(c) \/ BeginUpdateAccount(c) \/ BeginDeleteAccount(c)
         \/ BeginCreateCategory(c) \/ BeginUpdateCategory(c) \/ BeginDeleteCategory(c)
  PROVE  \E r : Begins(c, r)
<1>1. \A op \in {"create_account"} : Informed([op |-> op] & Creation("account"))
  BY CreationInformed DEF Creates, Creation, TableOf
<1>2. \A op \in {"create_category"} : Informed([op |-> op] & Creation("category"))
  BY CreationInformed DEF Creates, Creation, TableOf
<1>3. \A t \in DOMAIN Ids : \A i : IsChange(Change(t, i), t, i)
  BY DEF IsChange, Change, Creation
<1>4. ASSUME NEW op \in {"update_account", "delete_account"}, NEW i \in Changeable("account")
      PROVE  Informed([op |-> op] & Change("account", i))
  BY <1>3, PlainInformed, TablesAssumption DEF Plain, Changes, TableOf
<1>5. ASSUME NEW op \in {"update_category", "delete_category"}, NEW i \in Changeable("category")
      PROVE  Informed([op |-> op] & Change("category", i))
  BY <1>3, PlainInformed, TablesAssumption DEF Plain, Changes, TableOf
<1>6. CASE BeginCreateAccount(c)
  BY <1>1, <1>6, ReadsBegin DEF BeginCreateAccount
<1>7. CASE BeginUpdateAccount(c)
  BY <1>4, <1>7, ReadsBegin DEF BeginUpdateAccount
<1>8. CASE BeginDeleteAccount(c)
  BY <1>4, <1>8, ReadsBegin DEF BeginDeleteAccount
<1>9. CASE BeginCreateCategory(c)
  BY <1>2, <1>9, ReadsBegin DEF BeginCreateCategory
<1>10. CASE BeginUpdateCategory(c)
  BY <1>5, <1>10, ReadsBegin DEF BeginUpdateCategory
<1>11. CASE BeginDeleteCategory(c)
  BY <1>5, <1>11, ReadsBegin DEF BeginDeleteCategory
<1> QED BY <1>6, <1>7, <1>8, <1>9, <1>10, <1>11

\* What was read is for a row that is not there yet.
IsCreation(r, t) ==
  {"table", "id"} \subseteq DOMAIN r /\ r.table = t /\ r.id = None

\* A body put beside what was read of a row.
Beside(values) == DOMAIN values \cap {"op", "table", "id", "rev", "held"} = {}

LEMMA BesideChange ==
  ASSUME NEW values, Beside(values), NEW t, NEW i
  PROVE  /\ IsChange(values & Change(t, i), t, i)
         /\ (values & Change(t, i)).held = db[t][i].held
<1>1. /\ DOMAIN Change(t, i) = {"table", "id", "rev", "held", "needs", "adds", "drops"}
      /\ Change(t, i).table = t /\ Change(t, i).id = i /\ Change(t, i).rev = db[t][i].rev
      /\ Change(t, i).held = db[t][i].held
  BY DEF Change, Creation
<1>2. \A f \in {"table", "id", "rev", "held"} :
        f \in DOMAIN (values & Change(t, i)) /\ (values & Change(t, i))[f] = Change(t, i)[f]
  <2> HIDE DEF Change
  <2> QED BY <1>1 DEF &, Beside
<1> QED BY <1>1, <1>2 DEF IsChange

LEMMA BesideCreation ==
  ASSUME NEW values, Beside(values), NEW t
  PROVE  IsCreation(values & Creation(t), t)
<1>1. /\ {"table", "id"} \subseteq DOMAIN Creation(t)
      /\ Creation(t).table = t /\ Creation(t).id = None
  BY DEF Creation
<1>2. \A f \in {"table", "id"} :
        f \in DOMAIN (values & Creation(t)) /\ (values & Creation(t))[f] = Creation(t)[f]
  BY <1>1 DEF &, Beside
<1> QED BY <1>1, <1>2 DEF IsCreation

\* The body is part of the request.
LEMMA BesideKeeps ==
  ASSUME NEW values, Beside(values), NEW r, NEW op, NEW f \in DOMAIN values
  PROVE  ([op |-> op] & (values & r))[f] = values[f]
<1>1. f \in DOMAIN (values & r) \ {"op"} /\ (values & r)[f] = values[f]
  BY DEF &, Beside
<1> QED BY <1>1, Opened

LEMMA PlanInformed ==
  ASSUME Tabled, NEW i \in Changeable("plan"), NEW r, IsChange(r, "plan", i),
         r.held = db.plan[i].held,
         NEW op \in {"update_plan", "cancel_plan", "fulfil_plan", "delete_plan"},
         IF op = "delete_plan" THEN db.plan[i].status # "fulfilled" ELSE Open(i)
  PROVE  Informed([op |-> op] & r)
<1> DEFINE new == [op |-> op] & r
<1>1. op \in Changes /\ TableOf[op] = "plan"
  BY DEF Changes, TableOf
<1>2. /\ new.op = op /\ new.table = "plan" /\ new.id = i /\ new.rev = db.plan[i].rev
      /\ new.held = r.held
      /\ i \in Ids["plan"] /\ new.rev \in Nat \ {0}
      /\ new.op \notin Creates
  BY <1>1, ChangeInformed, TablesAssumption
<1> SUFFICES Informed(new)
  OBVIOUS
<1> HIDE DEF new
<1>3. Learnt(new, db.plan[i])
  BY <1>2 DEF Learnt, Open
<1>4. /\ new.table = TableOf[new.op]
      /\ new.id \in Ids[new.table] /\ new.rev <= db[new.table][new.id].rev
      /\ Learnt(new, db[new.table][new.id])
      /\ new.op # "delete_transaction" /\ new.op # "create_commitment"
      /\ new.op # "update_saving" /\ new.op # "create_sub" /\ new.op # "update_sub"
      /\ new.op # "generate"
  BY <1>1, <1>2, <1>3
<1> QED BY <1>2, <1>4 DEF Informed

LEMMA TransactionBegins ==
  ASSUME Tabled, FulfilledInv, NEW c \in Clients,
         \/ BeginCreateTransaction(c) \/ BeginUpdateTransaction(c)
         \/ BeginDeleteTransaction(c)
  PROVE  \E r : Begins(c, r)
<1>1. CASE BeginCreateTransaction(c)
  <2>1. ASSUME NEW e, NEW held
        PROVE  Informed([op |-> "create_transaction"] &
                          ([entry |-> e] & Claiming("actual", held)))
    <3> DEFINE r == [entry |-> e] & Claiming("actual", held)
    <3>1. IsCreation(r, "actual")
      BY DEF IsCreation, Claiming, Creation, &
    <3> HIDE DEF r
    <3>2. Informed([op |-> "create_transaction"] & r)
      BY <3>1, CreationInformed DEF IsCreation, Creates, TableOf
    <3> QED BY <3>2 DEF r
  <2>2. PICK e \in {f \in Entries : Free("actual") # {} /\ ValidEntry(f, None)},
             p \in {q \in Field(Fingerprints) : FingerprintFree("actual", q, None)} :
          Opens(c, "create_transaction",
                [entry |-> e] & Claiming("actual", Fingerprint("actual", p)))
    BY <1>1 DEF BeginCreateTransaction, Reads
  <2>3. db' = db
    BY <1>1, ReadsOnly DEF BeginCreateTransaction
  <2> QED BY <2>1, <2>2, <2>3, OpensBegin
<1>2. CASE BeginUpdateTransaction(c)
  <2>1. ASSUME NEW e, NEW i \in Changeable("actual")
        PROVE  Informed([op |-> "update_transaction"] & ([entry |-> e] & Change("actual", i)))
    <3>1. IsChange([entry |-> e] & Change("actual", i), "actual", i)
      BY BesideChange DEF Beside
    <3> QED BY <3>1, PlainInformed, TablesAssumption DEF Plain, Changes, TableOf
  <2>2. PICK i \in Changeable("actual") :
          \E e \in {f \in Patched(db.actual[i].entry) : ValidEntry(f, None)} :
            Opens(c, "update_transaction", [entry |-> e] & Change("actual", i))
    BY <1>2 DEF BeginUpdateTransaction, Reads
  <2>3. db' = db
    BY <1>2, ReadsOnly DEF BeginUpdateTransaction
  <2> QED BY <2>1, <2>2, <2>3, OpensBegin
<1>3. CASE BeginDeleteTransaction(c)
  <2>1. ASSUME NEW i \in Changeable("actual"), ~Fulfils(i), NEW drops
        PROVE  Informed([op |-> "delete_transaction"] & [Change("actual", i) EXCEPT !.drops = drops])
    <3> DEFINE r == [Change("actual", i) EXCEPT !.drops = drops]
               new == [op |-> "delete_transaction"] & r
    <3>1. IsChange(r, "actual", i)
      BY DEF IsChange, Change, Creation
    <3> HIDE DEF r
    <3>2. "delete_transaction" \in Changes /\ TableOf["delete_transaction"] = "actual"
      BY DEF Changes, TableOf
    <3>3. /\ new.op = "delete_transaction" /\ new.table = "actual" /\ new.id = i
          /\ new.rev = db.actual[i].rev
          /\ i \in Ids["actual"] /\ new.rev \in Nat \ {0}
          /\ new.op \notin Creates
      BY <3>1, <3>2, ChangeInformed, TablesAssumption
    <3>4. Unneeded(i)
      BY <2>1 DEF Unneeded, Fulfils, FulfilledInv, Live, Kept
    <3> HIDE DEF new
    <3>5. Learnt(new, db.actual[i])
      BY <3>3 DEF Learnt
    <3>6. Informed(new)
      BY <3>2, <3>3, <3>4, <3>5 DEF Informed
    <3> QED BY <3>6 DEF new, r
  <2>2. PICK i \in {j \in Changeable("actual") : ~Fulfils(j)} :
          Opens(c, "delete_transaction",
                [Change("actual", i) EXCEPT !.drops = LinksOf("commitment", <<"actual", i>>)])
    BY <1>3, Zenon DEF BeginDeleteTransaction, Reads
  <2>3. db' = db
    BY <1>3, ReadsOnly DEF BeginDeleteTransaction
  <2> QED BY <2>1, <2>2, <2>3, OpensBegin
<1> QED BY <1>1, <1>2, <1>3

LEMMA PlanBegins ==
  ASSUME Tabled, NEW c \in Clients,
         \/ BeginCreatePlan(c) \/ BeginUpdatePlan(c) \/ BeginCancelPlan(c)
         \/ BeginFulfilPlan(c) \/ BeginDeletePlan(c)
  PROVE  \E r : Begins(c, r)
<1>1. CASE BeginCreatePlan(c)
  <2>1. ASSUME NEW body \in PlanBodies
        PROVE  Informed([op |-> "create_plan"] & (body & Creation("plan")))
    <3>1. Beside(body)
      BY DEF PlanBodies, Beside
    <3>2. IsCreation(body & Creation("plan"), "plan")
      BY <3>1, BesideCreation
    <3> QED BY <3>2, CreationInformed DEF IsCreation, Creates, TableOf
  <2> QED BY <1>1, <2>1, ReadsBegin DEF BeginCreatePlan
<1>2. CASE BeginUpdatePlan(c)
  <2>1. ASSUME NEW e, NEW due, NEW i \in Changeable("plan"), Open(i)
        PROVE  Informed([op |-> "update_plan"] &
                          ([entry |-> e, due |-> due] & Change("plan", i)))
    <3> DEFINE r == [entry |-> e, due |-> due] & Change("plan", i)
    <3>1. Beside([entry |-> e, due |-> due])
      BY DEF Beside
    <3>2. IsChange(r, "plan", i) /\ r.held = db["plan"][i].held
      BY <3>1, BesideChange
    <3> HIDE DEF r
    <3>3. Informed([op |-> "update_plan"] & r)
      BY <2>1, <3>2, PlanInformed
    <3> QED BY <3>3 DEF r
  <2>2. PICK i \in {q \in Changeable("plan") : Open(q)} :
          \E e \in {f \in Patched(db.plan[i].entry) : ValidEntry(f, db.plan[i].sub)},
             due \in Times :
            Opens(c, "update_plan", [entry |-> e, due |-> due] & Change("plan", i))
    BY <1>2, SMTT(30) DEF BeginUpdatePlan, Reads
  <2>3. db' = db
    BY <1>2, ReadsOnly DEF BeginUpdatePlan
  <2> QED BY <2>1, <2>2, <2>3, OpensBegin
<1>3. CASE BeginCancelPlan(c)
  <2>1. ASSUME NEW i \in Changeable("plan"), Open(i)
        PROVE  Informed([op |-> "cancel_plan"] & Change("plan", i))
    <3>1. IsChange(Change("plan", i), "plan", i) /\ Change("plan", i).held = db["plan"][i].held
      BY DEF IsChange, Change, Creation
    <3> QED BY <2>1, <3>1, PlanInformed
  <2> QED BY <1>3, <2>1, ReadsBegin DEF BeginCancelPlan
<1>4. CASE BeginFulfilPlan(c)
  <2>1. ASSUME NEW e, NEW i \in Changeable("plan"), Open(i)
        PROVE  Informed([op |-> "fulfil_plan"] & ([entry |-> e] & Change("plan", i)))
    <3> DEFINE r == [entry |-> e] & Change("plan", i)
    <3>1. Beside([entry |-> e])
      BY DEF Beside
    <3>2. IsChange(r, "plan", i) /\ r.held = db["plan"][i].held
      BY <3>1, BesideChange
    <3> HIDE DEF r
    <3>3. Informed([op |-> "fulfil_plan"] & r)
      BY <2>1, <3>2, PlanInformed
    <3> QED BY <3>3 DEF r
  <2>2. PICK i \in {q \in Changeable("plan") : Open(q) /\ Free("actual") # {}}, a \in Amounts :
          Opens(c, "fulfil_plan",
                [entry |-> WithAmount(db.plan[i].entry, a)] & Change("plan", i))
    BY <1>4 DEF BeginFulfilPlan, Reads
  <2>3. db' = db
    BY <1>4, ReadsOnly DEF BeginFulfilPlan
  <2> QED BY <2>1, <2>2, <2>3, OpensBegin
<1>5. CASE BeginDeletePlan(c)
  <2>1. ASSUME NEW i \in Changeable("plan"), db.plan[i].status # "fulfilled", NEW drops
        PROVE  Informed([op |-> "delete_plan"] & [Change("plan", i) EXCEPT !.drops = drops])
    <3> DEFINE r == [Change("plan", i) EXCEPT !.drops = drops]
    <3>1. IsChange(r, "plan", i) /\ r.held = db["plan"][i].held
      BY DEF IsChange, Change, Creation
    <3> HIDE DEF r
    <3>2. Informed([op |-> "delete_plan"] & r)
      BY <2>1, <3>1, PlanInformed
    <3> QED BY <3>2 DEF r
  <2>2. PICK i \in {q \in Changeable("plan") : db.plan[q].status # "fulfilled"} :
          Opens(c, "delete_plan",
                [Change("plan", i) EXCEPT !.drops = LinksOf("commitment", <<"plan", i>>)])
    BY <1>5, Zenon DEF BeginDeletePlan, Reads
  <2>3. db' = db
    BY <1>5, ReadsOnly DEF BeginDeletePlan
  <2> QED BY <2>1, <2>2, <2>3, OpensBegin
<1> QED BY <1>1, <1>2, <1>3, <1>4, <1>5

LEMMA RuleBegins ==
  ASSUME Tabled, NEW c \in Clients,
         \/ BeginCreateRule(c) \/ BeginUpdateRule(c) \/ BeginSetRuleStatus(c)
         \/ BeginDeleteRule(c)
  PROVE  \E r : Begins(c, r)
<1>1. ASSUME NEW op \in {"update_rule", "set_rule_status", "delete_rule"},
             NEW i \in Changeable("rule"), NEW r, IsChange(r, "rule", i)
      PROVE  Informed([op |-> op] & r)
  BY <1>1, PlainInformed, TablesAssumption DEF Plain, Changes, TableOf
<1>2. CASE BeginCreateRule(c)
  <2>1. ASSUME NEW body \in RuleBodies
        PROVE  Informed([op |-> "create_rule"] & (Dictated(body) & Creation("rule")))
    <3>1. Beside(Dictated(body))
      BY DEF RuleBodies, Dictated, Beside
    <3>2. IsCreation(Dictated(body) & Creation("rule"), "rule")
      BY <3>1, BesideCreation
    <3> QED BY <3>2, CreationInformed DEF IsCreation, Creates, TableOf
  <2> QED BY <1>2, <2>1, ReadsBegin DEF BeginCreateRule
<1>3. CASE BeginUpdateRule(c)
  <2>1. PICK i \in {j \in Changeable("rule") : db.rule[j].status # "ended"} :
          \E patch \in RulePatches(db.rule[i]) :
            Opens(c, "update_rule", patch & Change("rule", i))
    BY <1>3 DEF BeginUpdateRule, Reads
  <2>2. PICK patch \in RulePatches(db.rule[i]) :
          Opens(c, "update_rule", patch & Change("rule", i))
    BY <2>1
  <2>3. Beside(patch)
    BY DEF RulePatches, Beside
  <2>4. Informed([op |-> "update_rule"] & (patch & Change("rule", i)))
    BY <1>1, <2>3, BesideChange
  <2>5. db' = db
    BY <1>3, ReadsOnly DEF BeginUpdateRule
  <2> QED BY <2>2, <2>4, <2>5, OpensBegin
<1>4. CASE BeginSetRuleStatus(c)
  <2>1. PICK i \in {j \in Changeable("rule") : db.rule[j].status # "ended"},
             status \in RuleStatus :
          Opens(c, "set_rule_status", [status |-> status] & Change("rule", i))
    BY <1>4 DEF BeginSetRuleStatus, Reads
  <2>2. Beside([status |-> status])
    BY DEF Beside
  <2>3. Informed([op |-> "set_rule_status"] & ([status |-> status] & Change("rule", i)))
    BY <1>1, <2>2, BesideChange
  <2>4. db' = db
    BY <1>4, ReadsOnly DEF BeginSetRuleStatus
  <2> QED BY <2>1, <2>3, <2>4, OpensBegin
<1>5. CASE BeginDeleteRule(c)
  <2>1. \A i : IsChange(Change("rule", i), "rule", i)
    BY DEF IsChange, Change, Creation
  <2>2. \A i \in Changeable("rule") : Informed([op |-> "delete_rule"] & Change("rule", i))
    BY <1>1, <2>1
  <2> QED BY <1>5, <2>2, ReadsBegin DEF BeginDeleteRule
<1> QED BY <1>2, <1>3, <1>4, <1>5

LEMMA GenerateBegins ==
  ASSUME Tabled, NEW c \in Clients, BeginGenerate(c)
  PROVE  \E r : Begins(c, r)
<1>1. PICK i \in {j \in Live("rule") : Generates(j)} :
        \E window \in {w \in Windows : Cardinality(Source(db.rule[i]).schedule \cap w) <= Limit} :
          Opens(c, "generate",
                [plans |-> NewPlans(i, window)] & Claiming("plan", Keys(NewPlans(i, window))))
  BY DEF BeginGenerate, Reads
<1>2. PICK window \in Windows :
        Opens(c, "generate",
              [plans |-> NewPlans(i, window)] & Claiming("plan", Keys(NewPlans(i, window))))
  BY <1>1
<1> DEFINE plans == NewPlans(i, window)
           r == [plans |-> plans] & Claiming("plan", Keys(plans))
           new == [op |-> "generate"] & r
<1>3. /\ new.op = "generate" /\ new.table = "plan" /\ new.id = None
      /\ new.plans = plans /\ new.held = Keys(plans)
  BY DEF &, Claiming, Creation
<1>4. i # None
  BY <1>1, RecordsAssumption, TablesAssumption DEF Live
<1>5. ASSUME NEW p \in plans
      PROVE  \E due \in window :
               /\ p.rule = i /\ p.born = due /\ p.status = "planned"
               /\ p.held = {Occurrence(i, due)}
               /\ DOMAIN p = {"entry", "due", "born", "rule", "sub", "status", "actual", "held"}
               /\ p = PlanRow(Source(db.rule[i]).entry, due, i, db.rule[i].sub)
                        & [held |-> {Occurrence(i, due)}]
  <2>1. PICK due \in window :
          p = PlanRow(Source(db.rule[i]).entry, due, i, db.rule[i].sub)
                & [held |-> {Occurrence(i, due)}]
    BY DEF NewPlans
  <2>2. \A entry, sub, held :
          LET q == PlanRow(entry, due, i, sub) & [held |-> held]
          IN /\ q.rule = i /\ q.born = due /\ q.status = "planned" /\ q.held = held
             /\ DOMAIN q = {"entry", "due", "born", "rule", "sub", "status", "actual", "held"}
    BY DEF PlanRow, &
  <2> QED BY <2>1, <2>2
<1>6. \A p, q \in plans : p.born = q.born => p = q
  <2> HIDE DEF plans
  <2>1. \A p \in plans :
          p = PlanRow(Source(db.rule[i]).entry, p.born, i, db.rule[i].sub)
                & [held |-> {Occurrence(i, p.born)}]
    BY <1>5
  <2>2. ASSUME NEW p \in plans, NEW q \in plans, p.born = q.born
        PROVE  p = q
    BY <2>1, <2>2, Zenon
  <2> QED BY <2>2
<1>7. IsFiniteSet(plans)
  <2> DEFINE f == [p \in plans |-> p.born]
  <2>1. f \in [plans -> window]
    BY <1>5
  <2>2. f \in Injection(plans, window)
    BY <1>6, <2>1 DEF Injection, IsInjective
  <2>3. IsFiniteSet(window)
    BY RecurringAssumption
  <2> HIDE DEF f, plans
  <2> QED BY <2>2, <2>3, FS_Injection
<1>8. \A p \in plans : p.held \subseteq Keys(plans)
  BY DEF Keys
<1> HIDE DEF plans, r
<1>9. Generated(new)
  <2> HIDE DEF new
  <2>1. ASSUME NEW p \in plans
        PROVE  /\ p.rule # None /\ p.status = "planned"
               /\ {"rule", "born", "status", "actual", "held"} \subseteq DOMAIN p
               /\ DOMAIN p \cap {"rev", "live"} = {}
               /\ p.held = {Occurrence(p.rule, p.born)} /\ p.held \subseteq new.held
    BY <1>3, <1>4, <1>5, <1>8
  <2> QED BY <1>3, <1>6, <1>7, <2>1 DEF Generated
<1>10. Informed(new)
  <2> HIDE DEF new
  <2>1. new.op \notin Creates /\ new.op \notin Changes
    BY <1>3 DEF Creates, Changes
  <2> QED BY <1>3, <1>9, <2>1 DEF Informed
<1>11. db' = db
  BY ReadsOnly DEF BeginGenerate
<1> QED BY <1>2, <1>10, <1>11, OpensBegin DEF r, plans

LEMMA SubscriptionBegins ==
  ASSUME Tabled, ChainsInv, NEW c \in Clients,
         \/ BeginCreateSubscription(c) \/ BeginUpdateSubscription(c)
         \/ BeginDeleteSubscription(c)
  PROVE  \E r : Begins(c, r)
<1>1. CASE BeginCreateSubscription(c)
  <2>1. PICK a \in {b \in Live("account") : Free("sub") # {}},
             k \in {l \in Field(Live("category")) : l # None => Kind[l] = "expense"},
             price \in Prices, schedule \in Schedules :
          Opens(c, "create_sub",
                [account |-> a, category |-> k, amount |-> price, schedule |-> schedule]
                  & Creation("sub"))
    BY <1>1 DEF BeginCreateSubscription, Reads
  <2> DEFINE r == [account |-> a, category |-> k, amount |-> price, schedule |-> schedule]
                    & Creation("sub")
             new == [op |-> "create_sub"] & r
  <2>2. /\ new.op = "create_sub" /\ new.table = "sub" /\ new.id = None
        /\ new.amount \in Prices
    BY DEF &, Creation
  <2>3. Informed(new)
    <3> HIDE DEF new
    <3>1. new.op \notin Changes /\ TableOf[new.op] = "sub"
      BY <2>2 DEF Changes, TableOf
    <3> QED BY <2>2, <3>1 DEF Informed
  <2>4. db' = db
    BY <1>1, ReadsOnly DEF BeginCreateSubscription
  <2> QED BY <2>1, <2>3, <2>4, OpensBegin
<1>2. CASE BeginUpdateSubscription(c)
  <2>1. PICK i \in Changeable("sub") :
          \E sub \in {t \in SubscriptionPatches(db.sub[i]) :
                       ValidSubscriptionRow(t.account, t.category)} :
            Opens(c, "update_sub",
                  [settings |-> Settings(sub), old |-> db.sub[i].amount] & Change("sub", i))
    BY <1>2 DEF BeginUpdateSubscription, Reads
  <2>2. PICK sub \in SubscriptionPatches(db.sub[i]) :
          Opens(c, "update_sub",
                [settings |-> Settings(sub), old |-> db.sub[i].amount] & Change("sub", i))
    BY <2>1
  <2> DEFINE values == [settings |-> Settings(sub), old |-> db.sub[i].amount]
             r == values & Change("sub", i)
             new == [op |-> "update_sub"] & r
  <2>3. Chained(db.sub[i]) /\ i \in Ids["sub"]
    BY TablesAssumption DEF ChainsInv, Kept, Changeable, Live, Tabled, IsRow
  <2>4. sub.amount \in Prices
    BY <2>3 DEF SubscriptionPatches, Chained
  <2>5. Beside(values)
    BY DEF Beside
  <2>6. IsChange(r, "sub", i)
    BY <2>5, BesideChange
  <2>7. new.settings = Settings(sub) /\ new.old = db.sub[i].amount
    BY <2>5, BesideKeeps
  <2> HIDE DEF r, values
  <2>8. "update_sub" \in Changes /\ TableOf["update_sub"] = "sub"
    BY DEF Changes, TableOf
  <2>9. /\ new.op = "update_sub" /\ new.table = "sub" /\ new.id = i
        /\ new.rev = db["sub"][i].rev /\ new.rev \in Nat \ {0}
        /\ new.op \notin Creates
    BY <2>6, <2>8, ChangeInformed, TablesAssumption
  <2> HIDE DEF new
  <2>10. Learnt(new, db.sub[i])
    BY <2>7, <2>9 DEF Learnt
  <2>11. /\ new.settings.amount \in Prices /\ new.old \in Prices
         /\ DOMAIN new.settings = {"category", "amount", "schedule", "status"}
    BY <2>3, <2>4, <2>7 DEF Settings, Chained
  <2>12. Informed(new)
    BY <2>3, <2>8, <2>9, <2>10, <2>11 DEF Informed
  <2>13. db' = db
    BY <1>2, ReadsOnly DEF BeginUpdateSubscription
  <2> QED BY <2>2, <2>12, <2>13, OpensBegin DEF new, r, values
<1>3. CASE BeginDeleteSubscription(c)
  <2>1. \A i : IsChange(Change("sub", i), "sub", i)
    BY DEF IsChange, Change, Creation
  <2>2. \A i \in Changeable("sub") : Informed([op |-> "delete_sub"] & Change("sub", i))
    BY <2>1, PlainInformed, TablesAssumption DEF Plain, Changes, TableOf
  <2> QED BY <1>3, <2>2, ReadsBegin DEF BeginDeleteSubscription
<1> QED BY <1>1, <1>2, <1>3

LEMMA SavingBegins ==
  ASSUME Tabled, SavingsInv, NEW c \in Clients,
         \/ BeginCreateSaving(c) \/ BeginUpdateSaving(c) \/ BeginContribute(c)
         \/ BeginDeleteSaving(c)
  PROVE  \E r : Begins(c, r)
<1>1. \A i \in Changeable("saving") : AddsUp(db.saving[i]) /\ i \in Ids["saving"]
  BY TablesAssumption DEF SavingsInv, Kept, Changeable, Live, Tabled, IsRow
<1>2. CASE BeginCreateSaving(c)
  <2>1. PICK a \in {b \in Field(Ids["account"]) : Free("saving") # {} /\ ValidSavingsAccount(b)},
             target \in Targets :
          Opens(c, "create_saving", [account |-> a, target |-> target] & Creation("saving"))
    BY <1>2, SMTT(90) DEF BeginCreateSaving, Reads
  <2>2. IsCreation([account |-> a, target |-> target] & Creation("saving"), "saving")
    BY BesideCreation DEF Beside
  <2>3. Informed([op |-> "create_saving"] &
                   ([account |-> a, target |-> target] & Creation("saving")))
    BY <2>2, CreationInformed DEF IsCreation, Creates, TableOf
  <2>4. db' = db
    BY <1>2, ReadsOnly DEF BeginCreateSaving
  <2> QED BY <2>1, <2>3, <2>4, OpensBegin
<1>3. CASE BeginUpdateSaving(c)
  <2>1. PICK i \in Changeable("saving") :
          \E goal \in {p \in SavingPatches(db.saving[i]) : ValidSavingsAccount(p.account)} :
            Opens(c, "update_saving", [goal |-> goal] & Change("saving", i))
    BY <1>3 DEF BeginUpdateSaving, Reads
  <2>2. PICK goal \in SavingPatches(db.saving[i]) :
          Opens(c, "update_saving", [goal |-> goal] & Change("saving", i))
    BY <2>1
  <2> DEFINE r == [goal |-> goal] & Change("saving", i)
             new == [op |-> "update_saving"] & r
  <2>3. AddsUp(goal)
    <3> DEFINE row == db.saving[i]
    <3>1. AddsUp(row)
      BY <1>1
    <3>2. \/ \E a : goal = [row EXCEPT !.account = a]
          \/ \E target : goal = [row EXCEPT !.target = target]
          \/ \E n \in Contributions : goal = [row EXCEPT !.current = n, !.set = n, !.given = 0]
          \/ \E status : goal = [row EXCEPT !.status = status]
      BY <2>2, Zenon DEF SavingPatches
    <3> HIDE DEF row
    <3>3. ASSUME NEW a, goal = [row EXCEPT !.account = a]
          PROVE  AddsUp(goal)
      BY <3>1, <3>3 DEF AddsUp
    <3>4. ASSUME NEW target, goal = [row EXCEPT !.target = target]
          PROVE  AddsUp(goal)
      BY <3>1, <3>4 DEF AddsUp
    <3>5. ASSUME NEW n \in Contributions,
                 goal = [row EXCEPT !.current = n, !.set = n, !.given = 0]
          PROVE  AddsUp(goal)
      <4>1. /\ DOMAIN goal = DOMAIN row
            /\ goal.current = n /\ goal.set = n /\ goal.given = 0
        BY <3>1, <3>5 DEF AddsUp
      <4>2. n \in Nat
        BY GoalsAssumption
      <4> QED BY <3>1, <4>1, <4>2 DEF AddsUp
    <3>6. ASSUME NEW status, goal = [row EXCEPT !.status = status]
          PROVE  AddsUp(goal)
      BY <3>1, <3>6 DEF AddsUp
    <3> QED BY <3>2, <3>3, <3>4, <3>5, <3>6, Zenon
  <2>4. Beside([goal |-> goal])
    BY DEF Beside
  <2>5. IsChange(r, "saving", i)
    BY <2>4, BesideChange
  <2>6. new.goal = goal
    BY <2>4, BesideKeeps
  <2> HIDE DEF r
  <2>7. "update_saving" \in Changes /\ TableOf["update_saving"] = "saving"
    BY DEF Changes, TableOf
  <2>8. /\ new.op = "update_saving" /\ new.table = "saving" /\ new.id = i
        /\ new.rev = db["saving"][i].rev /\ new.rev \in Nat \ {0}
        /\ new.op \notin Creates
    BY <2>5, <2>7, ChangeInformed, TablesAssumption
  <2> HIDE DEF new
  <2>9. Learnt(new, db.saving[i])
    BY <2>8 DEF Learnt
  <2>10. Informed(new)
    BY <1>1, <2>3, <2>6, <2>7, <2>8, <2>9 DEF Informed
  <2>11. db' = db
    BY <1>3, ReadsOnly DEF BeginUpdateSaving
  <2> QED BY <2>2, <2>10, <2>11, OpensBegin DEF new, r
<1>4. CASE BeginContribute(c)
  <2>1. PICK i \in Changeable("saving") :
          \E n \in {m \in Contributions : db.saving[i].current + m <= MaxSaved} :
            Opens(c, "contribute",
                  [goal |-> Contributed(db.saving[i], n), amount |-> n] & Change("saving", i))
    BY <1>4 DEF BeginContribute, Reads
  <2>2. PICK n \in Contributions :
          Opens(c, "contribute",
                [goal |-> Contributed(db.saving[i], n), amount |-> n] & Change("saving", i))
    BY <2>1
  <2> DEFINE values == [goal |-> Contributed(db.saving[i], n), amount |-> n]
             r == values & Change("saving", i)
             new == [op |-> "contribute"] & r
  <2>3. n \in Nat /\ Contributed(db.saving[i], n).current = db.saving[i].current + n
    BY <1>1, GoalsAssumption DEF Contributed, AddsUp
  <2>4. Beside(values)
    BY DEF Beside
  <2>5. IsChange(r, "saving", i)
    BY <2>4, BesideChange
  <2>6. new.goal = Contributed(db.saving[i], n) /\ new.amount = n
    BY <2>4, BesideKeeps
  <2> HIDE DEF r, values
  <2>7. "contribute" \in Changes /\ TableOf["contribute"] = "saving"
    BY DEF Changes, TableOf
  <2>8. /\ new.op = "contribute" /\ new.table = "saving" /\ new.id = i
        /\ new.rev = db["saving"][i].rev /\ new.rev \in Nat \ {0}
        /\ new.op \notin Creates
    BY <2>5, <2>7, ChangeInformed, TablesAssumption
  <2> HIDE DEF new
  <2>9. Learnt(new, db.saving[i])
    BY <2>3, <2>6, <2>8 DEF Learnt
  <2>10. Informed(new)
    BY <1>1, <2>7, <2>8, <2>9 DEF Informed
  <2>11. db' = db
    BY <1>4, ReadsOnly DEF BeginContribute
  <2> QED BY <2>2, <2>10, <2>11, OpensBegin DEF new, r, values
<1>5. CASE BeginDeleteSaving(c)
  <2>1. ASSUME NEW i \in Changeable("saving"), NEW drops
        PROVE  Informed([op |-> "delete_saving"] & [Change("saving", i) EXCEPT !.drops = drops])
    <3>1. IsChange([Change("saving", i) EXCEPT !.drops = drops], "saving", i)
      BY DEF IsChange, Change, Creation
    <3> QED BY <3>1, PlainInformed, TablesAssumption DEF Plain, Changes, TableOf
  <2>2. PICK i \in Changeable("saving") :
          Opens(c, "delete_saving",
                [Change("saving", i) EXCEPT !.drops = LinksOf("commitment", <<"saving", i>>)])
    BY <1>5, Zenon DEF BeginDeleteSaving, Reads
  <2>3. db' = db
    BY <1>5, ReadsOnly DEF BeginDeleteSaving
  <2> QED BY <2>1, <2>2, <2>3, OpensBegin
<1> QED BY <1>2, <1>3, <1>4, <1>5

LEMMA GoalBegins ==
  ASSUME Tabled, NEW c \in Clients,
         BeginCreateGoal(c) \/ BeginUpdateGoal(c) \/ BeginDeleteGoal(c)
  PROVE  \E r : Begins(c, r)
<1>1. ASSUME NEW op \in {"update_goal", "delete_goal"}, NEW i \in Changeable("goal"),
             NEW r, IsChange(r, "goal", i)
      PROVE  Informed([op |-> op] & r)
  BY <1>1, PlainInformed, TablesAssumption DEF Plain, Changes, TableOf
<1>2. CASE BeginCreateGoal(c)
  <2>1. PICK p \in {q \in Progress : Free("goal") # {}}, status \in GoalStatus :
          Opens(c, "create_goal", [progress |-> p, status |-> status] & Creation("goal"))
    BY <1>2, SMTT(30) DEF BeginCreateGoal, Reads
  <2>2. IsCreation([progress |-> p, status |-> status] & Creation("goal"), "goal")
    BY BesideCreation DEF Beside
  <2>3. Informed([op |-> "create_goal"] &
                   ([progress |-> p, status |-> status] & Creation("goal")))
    BY <2>2, CreationInformed DEF IsCreation, Creates, TableOf
  <2>4. db' = db
    BY <1>2, ReadsOnly DEF BeginCreateGoal
  <2> QED BY <2>1, <2>3, <2>4, OpensBegin
<1>3. CASE BeginUpdateGoal(c)
  <2>1. PICK i \in Changeable("goal") :
          \E patch \in GoalPatches(db.goal[i]) :
            Opens(c, "update_goal", [goal |-> patch] & Change("goal", i))
    BY <1>3 DEF BeginUpdateGoal, Reads
  <2>2. PICK patch \in GoalPatches(db.goal[i]) :
          Opens(c, "update_goal", [goal |-> patch] & Change("goal", i))
    BY <2>1
  <2>3. Beside([goal |-> patch])
    BY DEF Beside
  <2>4. Informed([op |-> "update_goal"] & ([goal |-> patch] & Change("goal", i)))
    BY <1>1, <2>3, BesideChange
  <2>5. db' = db
    BY <1>3, ReadsOnly DEF BeginUpdateGoal
  <2> QED BY <2>2, <2>4, <2>5, OpensBegin
<1>4. CASE BeginDeleteGoal(c)
  <2>1. PICK i \in Changeable("goal") :
          Opens(c, "delete_goal",
                [Change("goal", i) EXCEPT !.drops = LinksOf("commitment", <<"goal", i>>)])
    BY <1>4, Zenon DEF BeginDeleteGoal, Reads
  <2>2. IsChange([Change("goal", i) EXCEPT !.drops = LinksOf("commitment", <<"goal", i>>)],
                 "goal", i)
    BY DEF IsChange, Change, Creation
  <2>3. db' = db
    BY <1>4, ReadsOnly DEF BeginDeleteGoal
  <2> QED BY <1>1, <2>1, <2>2, <2>3, OpensBegin
<1> QED BY <1>2, <1>3, <1>4

LEMMA BudgetBegins ==
  ASSUME Tabled, NEW c \in Clients,
         BeginCreateBudget(c) \/ BeginUpdateBudget(c) \/ BeginDeleteBudget(c)
  PROVE  \E r : Begins(c, r)
<1>1. ASSUME NEW op \in {"update_budget", "delete_budget"}, NEW i \in Changeable("budget"),
             NEW r, IsChange(r, "budget", i)
      PROVE  Informed([op |-> op] & r)
  BY <1>1, PlainInformed, TablesAssumption DEF Plain, Changes, TableOf
<1>2. CASE BeginCreateBudget(c)
  <2>1. \A limits : Informed([op |-> "create_budget"] & ([limits |-> limits] & Creation("budget")))
    <3> TAKE limits
    <3>1. IsCreation([limits |-> limits] & Creation("budget"), "budget")
      BY BesideCreation DEF Beside
    <3> QED BY <3>1, CreationInformed DEF IsCreation, Creates, TableOf
  <2>2. \E limits : Opens(c, "create_budget", [limits |-> limits] & Creation("budget"))
    BY <1>2, Zenon DEF BeginCreateBudget, Reads
  <2>3. db' = db
    BY <1>2, ReadsOnly DEF BeginCreateBudget
  <2> QED BY <2>1, <2>2, <2>3, OpensBegin
<1>3. CASE BeginUpdateBudget(c)
  <2>1. PICK i \in Changeable("budget") :
          \E patch \in BudgetPatches(i) : Opens(c, "update_budget", patch)
    BY <1>3 DEF BeginUpdateBudget, Reads
  <2>2. PICK patch \in BudgetPatches(i) : Opens(c, "update_budget", patch)
    BY <2>1
  <2>3. \/ patch = [replaces |-> FALSE] & Change("budget", i)
        \/ \E adds : patch = [replaces |-> TRUE] & [Change("budget", i) EXCEPT !.adds = adds]
    BY <2>2, Zenon DEF BudgetPatches
  <2>4. IsChange(patch, "budget", i)
    BY <2>3 DEF IsChange, Change, Creation, &
  <2>5. db' = db
    BY <1>3, ReadsOnly DEF BeginUpdateBudget
  <2> QED BY <1>1, <2>2, <2>4, <2>5, OpensBegin
<1>4. CASE BeginDeleteBudget(c)
  <2>1. PICK i \in Changeable("budget") :
          Opens(c, "delete_budget",
                [Change("budget", i) EXCEPT !.drops = LinksOf("commitment", <<"budget", i>>)])
    BY <1>4, Zenon DEF BeginDeleteBudget, Reads
  <2>2. IsChange([Change("budget", i) EXCEPT !.drops = LinksOf("commitment", <<"budget", i>>)],
                 "budget", i)
    BY DEF IsChange, Change, Creation
  <2>3. db' = db
    BY <1>4, ReadsOnly DEF BeginDeleteBudget
  <2> QED BY <1>1, <2>1, <2>2, <2>3, OpensBegin
<1> QED BY <1>2, <1>3, <1>4

\* Requests that write link rows only, and a request that has ended.
LEMMA LinkInformed ==
  /\ Informed(Idle)
  /\ \A op \in {"add_note_link", "remove_note_link", "add_commitment_link",
                 "remove_commitment_link"} : \A r : Informed([op |-> op] & r)
<1>1. Idle.op \notin Creates \cup Changes \cup {"generate"}
  BY DEF Idle, Creates, Changes
<1>2. Informed(Idle)
  BY <1>1 DEF Informed, Creates, Changes
<1>3. ASSUME NEW op \in {"add_note_link", "remove_note_link", "add_commitment_link",
                         "remove_commitment_link"}, NEW r
      PROVE  Informed([op |-> op] & r)
  <2> DEFINE new == [op |-> op] & r
  <2>1. new.op = op
    BY Opened
  <2> SUFFICES Informed(new)
    OBVIOUS
  <2> HIDE DEF new
  <2>2. new.op \notin Creates \cup Changes \cup {"generate"}
    BY <2>1 DEF Creates, Changes
  <2> QED BY <2>2 DEF Informed, Creates, Changes
<1> QED BY <1>2, <1>3

LEMMA NoteBegins ==
  ASSUME Tabled, NEW c \in Clients,
         \/ BeginCreateNote(c) \/ BeginUpdateNote(c) \/ BeginDeleteNote(c)
         \/ BeginAddNoteLink(c) \/ BeginRemoveNoteLink(c)
         \/ BeginCreateTag(c) \/ BeginDeleteTag(c)
  PROVE  \E r : Begins(c, r)
<1>1. ASSUME NEW op \in {"update_note", "delete_note"}, NEW i \in Changeable("note"),
             NEW r, IsChange(r, "note", i)
      PROVE  Informed([op |-> op] & r)
  BY <1>1, PlainInformed, TablesAssumption DEF Plain, Changes, TableOf
<1>2. CASE BeginCreateNote(c)
  <2>1. PICK body \in NoteLinksBodies,
             date \in {d \in Field(Dates) : Free("note") # {} /\ DateFree(d, None)} :
          Opens(c, "create_note", NoteCreation(body, date))
    BY <1>2, SMTT(30) DEF BeginCreateNote, Reads
  <2>2. IsCreation(NoteCreation(body, date), "note")
    BY DEF IsCreation, NoteCreation, Creation, &
  <2>3. Informed([op |-> "create_note"] & NoteCreation(body, date))
    BY <2>2, CreationInformed DEF IsCreation, Creates, TableOf
  <2>4. db' = db
    BY <1>2, ReadsOnly DEF BeginCreateNote
  <2> QED BY <2>1, <2>3, <2>4, OpensBegin
<1>3. CASE BeginUpdateNote(c)
  <2>1. PICK n \in Changeable("note") :
          \E patch \in NotePatches(n) : Opens(c, "update_note", patch)
    BY <1>3 DEF BeginUpdateNote, Reads
  <2>2. PICK patch \in NotePatches(n) : Opens(c, "update_note", patch)
    BY <2>1
  <2>3. \/ \E values, held :
             Beside(values) /\ patch = values & [Change("note", n) EXCEPT !.held = held]
        \/ \E values, needs, adds :
             /\ Beside(values)
             /\ patch = values & [Change("note", n) EXCEPT !.needs = needs, !.adds = adds]
    <3>1. \A kinds, date : Beside([kinds |-> kinds, date |-> date])
      BY DEF Beside
    <3> QED BY <2>2, <3>1, Zenon DEF NotePatches
  <2>4. IsChange(patch, "note", n)
    BY <2>3 DEF IsChange, Change, Creation, &, Beside
  <2>5. db' = db
    BY <1>3, ReadsOnly DEF BeginUpdateNote
  <2> QED BY <1>1, <2>2, <2>4, <2>5, OpensBegin
<1>4. CASE BeginDeleteNote(c)
  <2>1. PICK n \in Changeable("note") :
          Opens(c, "delete_note",
                [Change("note", n) EXCEPT !.held = {}, !.drops = LinksWith(n)])
    BY <1>4, Zenon DEF BeginDeleteNote, Reads
  <2>2. IsChange([Change("note", n) EXCEPT !.held = {}, !.drops = LinksWith(n)], "note", n)
    BY DEF IsChange, Change, Creation
  <2>3. db' = db
    BY <1>4, ReadsOnly DEF BeginDeleteNote
  <2> QED BY <1>1, <2>1, <2>2, <2>3, OpensBegin
<1>5. CASE BeginAddNoteLink(c)
  BY <1>5, LinkInformed, ReadsBegin DEF BeginAddNoteLink
<1>6. CASE BeginRemoveNoteLink(c)
  BY <1>6, LinkInformed, ReadsBegin DEF BeginRemoveNoteLink
<1>7. CASE BeginCreateTag(c)
  <2>1. Informed([op |-> "create_tag"] & Creation("tag"))
    BY CreationInformed DEF Creation, Creates, TableOf
  <2> QED BY <1>7, <2>1, ReadsBegin DEF BeginCreateTag
<1>8. CASE BeginDeleteTag(c)
  <2>1. \A i : IsChange(Change("tag", i), "tag", i)
    BY DEF IsChange, Change, Creation
  <2>2. \A i \in Changeable("tag") : Informed([op |-> "delete_tag"] & Change("tag", i))
    BY <2>1, PlainInformed, TablesAssumption DEF Plain, Changes, TableOf
  <2> QED BY <1>8, <2>2, ReadsBegin DEF BeginDeleteTag
<1> QED BY <1>2, <1>3, <1>4, <1>5, <1>6, <1>7, <1>8

LEMMA CommitmentBegins ==
  ASSUME Tabled, NEW c \in Clients,
         \/ BeginCreateCommitment(c) \/ BeginUpdateCommitment(c)
         \/ BeginArchiveCommitment(c) \/ BeginDeleteCommitment(c)
         \/ BeginAddCommitmentLink(c) \/ BeginRemoveCommitmentLink(c)
  PROVE  \E r : Begins(c, r)
<1>1. CASE BeginCreateCommitment(c)
  <2>1. PICK terms \in {t \in Terms : Free("commitment") # {} /\ WellShaped(t)},
             status \in Statuses :
          Opens(c, "create_commitment",
                [terms |-> terms, status |-> status] & Creation("commitment"))
    BY <1>1, SMTT(30) DEF BeginCreateCommitment, Reads
  <2> DEFINE r == [terms |-> terms, status |-> status] & Creation("commitment")
             new == [op |-> "create_commitment"] & r
  <2>2. /\ new.op = "create_commitment" /\ new.table = "commitment" /\ new.id = None
        /\ new.terms = terms
    BY DEF &, Creation
  <2>3. Informed(new)
    <3> HIDE DEF new
    <3>1. new.op \notin Changes /\ TableOf[new.op] = "commitment"
      BY <2>2 DEF Changes, TableOf
    <3> QED BY <2>1, <2>2, <3>1 DEF Informed
  <2>4. db' = db
    BY <1>1, ReadsOnly DEF BeginCreateCommitment
  <2> QED BY <2>1, <2>3, <2>4, OpensBegin
<1>2. CASE BeginUpdateCommitment(c)
  <2>1. PICK k \in {j \in Changeable("commitment") : ~Archived(j)} :
          \E patch \in {p \in CommitmentPatches(k) :
                         WellShaped(p.values & db.commitment[k].terms)} :
            Opens(c, "update_commitment", patch & Change("commitment", k))
    BY <1>2 DEF BeginUpdateCommitment, Reads
  <2>2. PICK patch \in {p \in CommitmentPatches(k) :
                        WellShaped(p.values & db.commitment[k].terms)} :
          Opens(c, "update_commitment", patch & Change("commitment", k))
    BY <2>1
  <2> DEFINE r == patch & Change("commitment", k)
             new == [op |-> "update_commitment"] & r
  <2>3. DOMAIN patch = {"values", "status"}
    BY DEF CommitmentPatches
  <2>4. Beside(patch)
    BY <2>3 DEF Beside
  <2>5. IsChange(r, "commitment", k)
    BY <2>4, BesideChange
  <2>6. new.values = patch.values
    BY <2>3, <2>4, BesideKeeps
  <2> HIDE DEF r
  <2>7. "update_commitment" \in Changes /\ TableOf["update_commitment"] = "commitment"
    BY DEF Changes, TableOf
  <2>8. /\ new.op = "update_commitment" /\ new.table = "commitment" /\ new.id = k
        /\ new.rev = db["commitment"][k].rev /\ new.rev \in Nat \ {0}
        /\ k \in Ids["commitment"]
        /\ new.op \notin Creates
    BY <2>5, <2>7, ChangeInformed, TablesAssumption
  <2> HIDE DEF new
  <2>9. WellShaped(patch.values & db.commitment[k].terms)
    BY <2>2
  <2>10. Learnt(new, db.commitment[k])
    BY <2>1, <2>6, <2>8, <2>9 DEF Learnt, Archived
  <2>11. Informed(new)
    BY <2>7, <2>8, <2>10 DEF Informed
  <2>12. db' = db
    BY <1>2, ReadsOnly DEF BeginUpdateCommitment
  <2> QED BY <2>2, <2>11, <2>12, OpensBegin DEF new, r
<1>3. CASE BeginArchiveCommitment(c)
  <2>1. ASSUME NEW k \in Changeable("commitment"), ~Archived(k)
        PROVE  Informed([op |-> "archive_commitment"] & Change("commitment", k))
    <3> DEFINE r == Change("commitment", k)
               new == [op |-> "archive_commitment"] & r
    <3>1. IsChange(r, "commitment", k)
      BY DEF IsChange, Change, Creation
    <3> HIDE DEF r
    <3>2. "archive_commitment" \in Changes /\ TableOf["archive_commitment"] = "commitment"
      BY DEF Changes, TableOf
    <3>3. /\ new.op = "archive_commitment" /\ new.table = "commitment" /\ new.id = k
          /\ new.rev = db["commitment"][k].rev /\ new.rev \in Nat \ {0}
          /\ k \in Ids["commitment"]
          /\ new.op \notin Creates
      BY <3>1, <3>2, ChangeInformed, TablesAssumption
    <3> HIDE DEF new
    <3>4. Learnt(new, db.commitment[k])
      BY <2>1, <3>3 DEF Learnt, Archived
    <3>5. Informed(new)
      BY <3>2, <3>3, <3>4 DEF Informed
    <3> QED BY <3>5 DEF new, r
  <2> QED BY <1>3, <2>1, ReadsBegin DEF BeginArchiveCommitment
<1>4. CASE BeginDeleteCommitment(c)
  <2>1. ASSUME NEW k \in Changeable("commitment"), NEW drops
        PROVE  Informed([op |-> "delete_commitment"] &
                          [Change("commitment", k) EXCEPT !.drops = drops])
    <3>1. IsChange([Change("commitment", k) EXCEPT !.drops = drops], "commitment", k)
      BY DEF IsChange, Change, Creation
    <3> QED BY <3>1, PlainInformed, TablesAssumption DEF Plain, Changes, TableOf
  <2>2. \E k \in Changeable("commitment") : \E drops :
          Opens(c, "delete_commitment", [Change("commitment", k) EXCEPT !.drops = drops])
    BY <1>4, ZenonT(40) DEF BeginDeleteCommitment, Reads
  <2>3. db' = db
    BY <1>4, ReadsOnly DEF BeginDeleteCommitment
  <2> QED BY <2>1, <2>2, <2>3, OpensBegin
<1>5. CASE BeginAddCommitmentLink(c)
  BY <1>5, LinkInformed, ReadsBegin DEF BeginAddCommitmentLink
<1>6. CASE BeginRemoveCommitmentLink(c)
  BY <1>6, LinkInformed, ReadsBegin DEF BeginRemoveCommitmentLink
<1> QED BY <1>1, <1>2, <1>3, <1>4, <1>5, <1>6

(***************************************************************************)
(* What other requests have learnt, when one step is taken.                *)
(***************************************************************************)
\* A transaction that no plan needs is not needed after the step either.
StaysUnneeded == \A a \in Kept("actual") : Unneeded(a) => Unneeded(a)'

LEMMA StayInformed ==
  ASSUME Tabled, Moves, StaysUnneeded
  PROVE  \A r : Informed(r) => Informed(r)'
<1> SUFFICES ASSUME NEW r, Informed(r)
             PROVE  Informed(r)'
  OBVIOUS
<1>1. ASSUME r.op \in Changes
      PROVE  /\ r.table = TableOf[r.op] /\ r.id \in Ids[r.table]
             /\ r.rev \in Nat \ {0} /\ r.rev <= db'[r.table][r.id].rev
             /\ db[r.table][r.id].rev > 0
             /\ ~Stale(r)' => Learnt(r, db'[r.table][r.id])
  <2>1. /\ r.table = TableOf[r.op] /\ r.id \in Ids[r.table]
        /\ r.rev \in Nat \ {0} /\ r.rev <= db[r.table][r.id].rev
        /\ ~Stale(r) => Learnt(r, db[r.table][r.id])
    BY <1>1 DEF Informed
  <2>2. r.table \in DOMAIN Ids
    BY <1>1, <2>1, TablesAssumption DEF Changes, TableOf
  <2>3. /\ db[r.table][r.id].rev \in Nat /\ db'[r.table][r.id].rev \in Nat
        /\ db'[r.table][r.id] = db[r.table][r.id]
             \/ db'[r.table][r.id].rev > db[r.table][r.id].rev
    BY <2>1, <2>2 DEF Tabled, Moves, IsRow
  <2>4. r.rev <= db'[r.table][r.id].rev /\ db[r.table][r.id].rev > 0
    BY <2>1, <2>3
  <2>5. ASSUME ~Stale(r)' PROVE Learnt(r, db'[r.table][r.id])
    <3>1. r.id # None
      BY <2>1, <2>2, RecordsAssumption
    <3>2. db'[r.table][r.id].rev = r.rev /\ db'[r.table][r.id].live
      BY <2>5, <3>1 DEF Stale
    <3>3. db'[r.table][r.id] = db[r.table][r.id]
      BY <2>1, <2>3, <3>2
    <3>4. ~Stale(r)
      BY <3>2, <3>3 DEF Stale
    <3> QED BY <2>1, <3>3, <3>4
  <2> QED BY <2>1, <2>4, <2>5
<1>2. r.op = "delete_transaction" => Unneeded(r.id)'
  <2> SUFFICES ASSUME r.op = "delete_transaction" PROVE Unneeded(r.id)'
    OBVIOUS
  <2>1. r.op \in Changes /\ TableOf[r.op] = "actual"
    BY DEF Changes, TableOf
  <2>2. r.id \in Kept("actual")
    BY <1>1, <2>1 DEF Kept
  <2> QED BY <2>2 DEF StaysUnneeded, Informed
<1>3. /\ r.op \in Creates => r.table = TableOf[r.op] /\ r.id = None
      /\ r.op = "create_commitment" => WellShaped(r.terms)
      /\ r.op = "update_saving" => AddsUp(r.goal)
      /\ r.op = "create_sub" => r.amount \in Prices
      /\ r.op = "update_sub" =>
           /\ r.settings.amount \in Prices /\ r.old \in Prices
           /\ DOMAIN r.settings = {"category", "amount", "schedule", "status"}
      /\ r.op = "generate" => r.table = "plan" /\ r.id = None /\ Generated(r)
  BY DEF Informed
<1> QED BY <1>1, <1>2, <1>3 DEF Informed

LEMMA RequestsStay ==
  ASSUME Tabled, DOMAIN request = Clients, RequestsInv, Moves, StaysUnneeded,
         NEW c \in Clients, NEW r, Informed(r),
         request' = [request EXCEPT ![c] = r]
  PROVE  DOMAIN request' = Clients /\ RequestsInv'
<1>1. \A d \in Clients : Informed(request[d])
  BY DEF RequestsInv
<1>2. \A q : Informed(q) => Informed(q)'
  BY StayInformed
<1>3. \A d \in Clients : \E q : request'[d] = q /\ Informed(q)
  BY <1>1
<1>4. \A d \in Clients : \E q : request'[d] = q /\ Informed(q)'
  BY <1>2, <1>3
<1>5. DOMAIN request' = Clients
  OBVIOUS
<1>6. RequestsInv'
  BY <1>4 DEF RequestsInv
<1> QED BY <1>5, <1>6

\* A step that leaves the tables as they are.
LEMMA UntouchedKeeps ==
  ASSUME RecordsInv, NEW c \in Clients, NEW r, Begins(c, r)
  PROVE  RecordsInv'
<1>1. db' = db /\ request' = [request EXCEPT ![c] = r] /\ Informed(r)
  BY DEF Begins
<1>2. Moves
  BY <1>1 DEF RecordsInv, Tabled, Moves
<1>3. StaysUnneeded
  BY <1>1 DEF StaysUnneeded, Unneeded, Kept
<1>4. DOMAIN request' = Clients /\ RequestsInv'
  BY <1>1, <1>2, <1>3, RequestsStay DEF RecordsInv
<1>5. Tabled' /\ PlansInv' /\ FulfilledInv' /\ SavingsInv' /\ ChainsInv' /\ CommitmentsInv'
  BY <1>1 DEF RecordsInv, Tabled, PlansInv, FulfilledInv, SavingsInv, ChainsInv,
     CommitmentsInv, Kept, Live
<1> QED BY <1>4, <1>5 DEF RecordsInv

(***************************************************************************)
(* The transaction of a request.                                           *)
(***************************************************************************)
\* A request of client c has gone through and has only changed some tables.
Goes(c, tables) ==
  /\ request' = [request EXCEPT ![c] = Idle]
  /\ Moves
  /\ \A t \in DOMAIN Ids \ tables : db'[t] = db[t]

LEMMA CommitsRow ==
  ASSUME RecordsInv, NEW c \in Clients, NEW op, NEW drops, NEW adds,
         Commits(c, op, drops, adds)
  PROVE  LET r == request[c]
         IN /\ r.op = op /\ Informed(r) /\ ~Stale(r) /\ ~Collides(r)
            /\ request' = [request EXCEPT ![c] = Idle]
            /\ op \in Creates =>
                 r.table = TableOf[op] /\ r.table \in DOMAIN Ids /\ Free(r.table) # {}
            /\ op \in Changes =>
                 /\ r.table = TableOf[op] /\ r.table \in DOMAIN Ids /\ r.id \in Ids[r.table]
                 /\ db[r.table][r.id].live /\ db[r.table][r.id].rev > 0
                 /\ Learnt(r, db[r.table][r.id])
<1> DEFINE r == request[c]
<1>1. /\ r.op = op /\ Informed(r) /\ ~Stale(r) /\ ~Collides(r)
      /\ request' = [request EXCEPT ![c] = Idle]
      /\ r.id = None /\ r.table # None => Free(r.table) # {}
  BY DEF Commits, Refusable, RecordsInv, RequestsInv
<1> HIDE DEF r
<1>2. ASSUME op \in Creates
      PROVE  r.table = TableOf[op] /\ r.table \in DOMAIN Ids /\ Free(r.table) # {}
  <2>1. r.table = TableOf[op] /\ r.id = None
    BY <1>1, <1>2 DEF Informed
  <2>2. r.table \in DOMAIN Ids
    BY <1>2, <2>1, TablesAssumption DEF Creates, TableOf
  <2>3. r.table # None
    BY <2>2, RecordsAssumption
  <2> QED BY <1>1, <2>1, <2>2, <2>3
<1>3. ASSUME op \in Changes
      PROVE  /\ r.table = TableOf[op] /\ r.table \in DOMAIN Ids /\ r.id \in Ids[r.table]
             /\ db[r.table][r.id].live /\ db[r.table][r.id].rev > 0
             /\ Learnt(r, db[r.table][r.id])
  <2>1. /\ r.table = TableOf[op] /\ r.id \in Ids[r.table]
        /\ r.rev \in Nat \ {0} /\ Learnt(r, db[r.table][r.id])
    BY <1>1, <1>3 DEF Informed
  <2>2. r.table \in DOMAIN Ids
    BY <1>3, <2>1, TablesAssumption DEF Changes, TableOf
  <2>3. r.id # None
    BY <2>1, <2>2, RecordsAssumption
  <2>4. db[r.table][r.id].live /\ db[r.table][r.id].rev > 0
    BY <1>1, <2>1, <2>3 DEF Stale
  <2> QED BY <2>1, <2>2, <2>4
<1> QED BY <1>1, <1>2, <1>3 DEF r

\* A row of a table is written, the others are what they were.
Written(t, i, new) == \A j \in Ids[t] : db'[t][j] = IF j = i THEN new ELSE db[t][j]

LEMMA PutGoes ==
  ASSUME Tabled, NEW c, request' = [request EXCEPT ![c] = Idle],
         NEW t, NEW i, NEW row, Puts(t, i, row)
  PROVE  Goes(c, {t}) /\ Written(t, i, row)
BY PutMoves DEF Goes, Written

LEMMA InsertCommits ==
  ASSUME RecordsInv, NEW c \in Clients, NEW op \in Creates, NEW t, t = TableOf[op],
         NEW drops, NEW adds, Commits(c, op, drops, adds),
         NEW row, DOMAIN row \cap {"rev", "live"} = {},
         db' = Added(t, row)
  PROVE  /\ Goes(c, {t})
         /\ \E new : IsAdded(t, row, new) /\ Written(t, NewId(t), new)
<1>1. /\ request' = [request EXCEPT ![c] = Idle]
      /\ t \in DOMAIN Ids /\ Free(t) # {}
  BY CommitsRow
<1>2. Tabled
  BY DEF RecordsInv
<1>3. PICK new : IsAdded(t, row, new)
  BY <1>1, <1>2, Inserts
<1>4. Puts(t, NewId(t), new)
  BY <1>1, <1>3 DEF Puts, Free, IsAdded
<1>5. Goes(c, {t}) /\ Written(t, NewId(t), new)
  BY <1>1, <1>2, <1>4, PutGoes
<1> QED BY <1>3, <1>5

\* The row of a request that goes through, at the moment it does.
IsCurrent(r, t) ==
  /\ r.table = t /\ t \in DOMAIN Ids /\ r.id \in Ids[t]
  /\ db[t][r.id].rev > 0 /\ db[t][r.id].live /\ IsRow(db[t][r.id])
  /\ Learnt(r, db[t][r.id])

LEMMA UpdateCommits ==
  ASSUME RecordsInv, NEW c \in Clients, NEW op \in Changes, NEW t, t = TableOf[op],
         NEW drops, NEW adds, Commits(c, op, drops, adds),
         NEW values, db' = Updated(request[c], values)
  PROVE  LET r == request[c]
         IN /\ r.op = op /\ Goes(c, {t}) /\ IsCurrent(r, t)
            /\ \E new : IsUpdated(r, values, new) /\ Written(t, r.id, new)
<1> DEFINE r == request[c]
<1>1. /\ r.op = op /\ request' = [request EXCEPT ![c] = Idle] /\ ~Stale(r)
      /\ r.table = t /\ t \in DOMAIN Ids /\ r.id \in Ids[t]
      /\ db[t][r.id].live /\ db[t][r.id].rev > 0 /\ Learnt(r, db[t][r.id])
  BY CommitsRow
<1>2. db' = Updated(r, values)
  OBVIOUS
<1> HIDE DEF r
<1>3. Tabled
  BY DEF RecordsInv
<1>4. IsRow(db[t][r.id])
  BY <1>1, <1>3 DEF Tabled
<1>5. PICK new : IsUpdated(r, values, new)
  BY <1>1, <1>3, Revises
<1>6. Puts(t, r.id, new)
  BY <1>1, <1>2, <1>4, <1>5, SMTT(30) DEF Puts, IsUpdated, IsRow
<1>7. Goes(c, {t}) /\ Written(t, r.id, new)
  BY <1>1, <1>3, <1>6, PutGoes
<1>8. IsCurrent(r, t)
  BY <1>1, <1>4 DEF IsCurrent
<1> QED BY <1>1, <1>5, <1>7, <1>8 DEF r

LEMMA DeleteCommits ==
  ASSUME RecordsInv, NEW c \in Clients, NEW op \in Changes, NEW t, t = TableOf[op],
         NEW drops, NEW adds, Commits(c, op, drops, adds), db' = SoftDeleted(request[c])
  PROVE  LET r == request[c]
         IN /\ r.op = op /\ Goes(c, {t}) /\ IsCurrent(r, t)
            /\ \E new : IsDeleted(r, new) /\ Written(t, r.id, new)
<1> DEFINE r == request[c]
<1>1. /\ r.op = op /\ request' = [request EXCEPT ![c] = Idle] /\ ~Stale(r)
      /\ r.table = t /\ t \in DOMAIN Ids /\ r.id \in Ids[t]
      /\ db[t][r.id].live /\ db[t][r.id].rev > 0 /\ Learnt(r, db[t][r.id])
  BY CommitsRow
<1>2. db' = SoftDeleted(r)
  OBVIOUS
<1> HIDE DEF r
<1>3. Tabled
  BY DEF RecordsInv
<1>4. IsRow(db[t][r.id])
  BY <1>1, <1>3 DEF Tabled
<1>5. PICK new : IsDeleted(r, new)
  BY <1>1, <1>3, Deletes
<1>6. Puts(t, r.id, new)
  BY <1>1, <1>2, <1>4, <1>5 DEF Puts, IsDeleted, IsRow
<1>7. Goes(c, {t}) /\ Written(t, r.id, new)
  BY <1>1, <1>3, <1>6, PutGoes
<1>8. IsCurrent(r, t)
  BY <1>1, <1>4 DEF IsCurrent
<1> QED BY <1>1, <1>5, <1>7, <1>8 DEF r

\* Only the parts about the tables that a transaction has changed are left
\* to be shown.
LEMMA GoesKeeps ==
  ASSUME RecordsInv, NEW c \in Clients, NEW tables, Goes(c, tables),
         "plan" \in tables => PlansInv' /\ StaysUnneeded,
         "plan" \in tables \/ "actual" \in tables => FulfilledInv',
         "saving" \in tables => SavingsInv',
         "sub" \in tables => ChainsInv',
         "commitment" \in tables => CommitmentsInv',
         "plan" \in tables => PlansStayClosed,
         "commitment" \in tables => ArchivedImmutable
  PROVE  RecordsInv' /\ PlansStayClosed /\ ArchivedImmutable
<1>1. \A t \in {"plan", "actual", "saving", "sub", "commitment"} \ tables : db'[t] = db[t]
  BY TablesAssumption DEF Goes
<1>2. Moves
  BY DEF Goes
<1>3. PlansInv'
  BY <1>1 DEF RecordsInv, PlansInv, Kept
<1>4. StaysUnneeded
  BY <1>1 DEF StaysUnneeded, Unneeded, Kept
<1>5. FulfilledInv'
  BY <1>1 DEF RecordsInv, FulfilledInv, Kept, Live
<1>6. SavingsInv'
  BY <1>1 DEF RecordsInv, SavingsInv, Kept
<1>7. ChainsInv'
  BY <1>1 DEF RecordsInv, ChainsInv, Kept
<1>8. CommitmentsInv'
  BY <1>1 DEF RecordsInv, CommitmentsInv, Kept
<1>9. DOMAIN request' = Clients /\ RequestsInv'
  BY <1>2, <1>4, RequestsStay, LinkInformed DEF Goes, RecordsInv
<1>10. Tabled'
  BY <1>2 DEF Moves, Tabled
<1>11. PlansStayClosed /\ ArchivedImmutable
  BY <1>1 DEF PlansStayClosed, ArchivedImmutable, Archived, Open
<1> QED BY <1>3, <1>5, <1>6, <1>7, <1>8, <1>9, <1>10, <1>11 DEF RecordsInv

(***************************************************************************)
(* What each request does.                                                 *)
(***************************************************************************)
LEMMA AccountCommits ==
  ASSUME RecordsInv, NEW c \in Clients,
         \/ CreateAccount(c) \/ UpdateAccount(c) \/ DeleteAccount(c)
         \/ CreateCategory(c) \/ UpdateCategory(c) \/ DeleteCategory(c)
  PROVE  RecordsInv' /\ PlansStayClosed /\ ArchivedImmutable
<1>1. ASSUME \/ CreateAccount(c) \/ UpdateAccount(c) \/ DeleteAccount(c)
      PROVE  Goes(c, {"account"})
  <2>1. CASE CreateAccount(c)
    <3>1. "create_account" \in Creates /\ TableOf["create_account"] = "account"
      BY DEF Creates, TableOf
    <3> QED BY <2>1, <3>1, InsertCommits DEF CreateAccount, Writes
  <2>2. CASE UpdateAccount(c)
    <3>1. "update_account" \in Changes /\ TableOf["update_account"] = "account"
      BY DEF Changes, TableOf
    <3> QED BY <2>2, <3>1, UpdateCommits DEF UpdateAccount, Writes
  <2>3. CASE DeleteAccount(c)
    <3>1. "delete_account" \in Changes /\ TableOf["delete_account"] = "account"
      BY DEF Changes, TableOf
    <3> QED BY <2>3, <3>1, DeleteCommits DEF DeleteAccount, Writes
  <2> QED BY <1>1, <2>1, <2>2, <2>3
<1>2. ASSUME \/ CreateCategory(c) \/ UpdateCategory(c) \/ DeleteCategory(c)
      PROVE  Goes(c, {"category"})
  <2>1. CASE CreateCategory(c)
    <3>1. "create_category" \in Creates /\ TableOf["create_category"] = "category"
      BY DEF Creates, TableOf
    <3> QED BY <2>1, <3>1, InsertCommits DEF CreateCategory, Writes
  <2>2. CASE UpdateCategory(c)
    <3>1. "update_category" \in Changes /\ TableOf["update_category"] = "category"
      BY DEF Changes, TableOf
    <3> QED BY <2>2, <3>1, UpdateCommits DEF UpdateCategory, Writes
  <2>3. CASE DeleteCategory(c)
    <3>1. "delete_category" \in Changes /\ TableOf["delete_category"] = "category"
      BY DEF Changes, TableOf
    <3> QED BY <2>3, <3>1, DeleteCommits DEF DeleteCategory, Writes
  <2> QED BY <1>2, <2>1, <2>2, <2>3
<1> QED BY <1>1, <1>2, GoesKeeps

\* What the row of a plan may become, other than fulfilled.
MayBecome(i, new) ==
  /\ i \in Ids["plan"]
  /\ {"rule", "born", "status", "actual"} \subseteq DOMAIN new
  /\ new.held \subseteq db.plan[i].held
  /\ new.rule # None => Occurrence(new.rule, new.born) \in new.held
  /\ new.status # "fulfilled"
  /\ db.plan[i].rev > 0 => db.plan[i].status # "fulfilled"
  /\ db.plan[i].rev > 0 /\ ~Open(i) =>
       [new EXCEPT !.rev = 0, !.live = TRUE] = [db.plan[i] EXCEPT !.rev = 0, !.live = TRUE]

LEMMA PlanWritten ==
  ASSUME RecordsInv, NEW c \in Clients, Goes(c, {"plan"}),
         NEW i, NEW new, Written("plan", i, new), MayBecome(i, new)
  PROVE  RecordsInv' /\ PlansStayClosed /\ ArchivedImmutable
<1>1. \A j \in Ids["plan"] : db'.plan[j] = IF j = i THEN new ELSE db.plan[j]
  BY DEF Written
<1> USE DEF MayBecome
<1>2. db'.actual = db.actual
  BY TablesAssumption DEF Goes
<1>3. PlansInv'
  <2>1. \A p \in Kept("plan")' : {"rule", "born", "status", "actual"} \subseteq DOMAIN db'.plan[p]
    BY <1>1 DEF RecordsInv, PlansInv, Kept
  <2>2. \A p \in Kept("plan")' :
          db'.plan[p].rule # None =>
            Occurrence(db'.plan[p].rule, db'.plan[p].born) \in db'.plan[p].held
    BY <1>1 DEF RecordsInv, PlansInv, Kept
  <2>3. \A p, q \in Ids["plan"] : p # q => db'.plan[p].held \cap db'.plan[q].held = {}
    <3>1. \A p \in Ids["plan"] : db'.plan[p].held \subseteq db.plan[p].held
      BY <1>1
    <3> QED BY <3>1 DEF RecordsInv, PlansInv
  <2> QED BY <2>1, <2>2, <2>3 DEF PlansInv
<1>4. \A p \in Ids["plan"] :
        \/ db'.plan[p] = db.plan[p]
        \/ /\ db'.plan[p].status # "fulfilled"
           /\ db.plan[p].rev > 0 => db.plan[p].status # "fulfilled"
  BY <1>1
<1>5. StaysUnneeded
  BY <1>4 DEF StaysUnneeded, Unneeded, Kept
<1>6. FulfilledInv'
  BY <1>2, <1>4 DEF RecordsInv, FulfilledInv, Kept, Live
<1>7. PlansStayClosed
  BY <1>1 DEF PlansStayClosed, Open
<1> QED BY <1>3, <1>5, <1>6, <1>7, GoesKeeps

LEMMA PlanCommits ==
  ASSUME RecordsInv, NEW c \in Clients,
         CreatePlan(c) \/ UpdatePlan(c) \/ CancelPlan(c) \/ DeletePlan(c)
  PROVE  RecordsInv' /\ PlansStayClosed /\ ArchivedImmutable
<1> DEFINE r == request[c]
<1>1. CASE CreatePlan(c)
  <2> DEFINE row == PlanRow(r.entry, r.due, None, r.sub)
  <2>1. "create_plan" \in Creates /\ TableOf["create_plan"] = "plan"
    BY DEF Creates, TableOf
  <2>2. /\ DOMAIN row = {"entry", "due", "born", "rule", "sub", "status", "actual"}
        /\ row.rule = None /\ row.status = "planned"
    BY DEF PlanRow
  <2>3. Writes(c, "create_plan") /\ db' = Added("plan", row)
    BY <1>1 DEF CreatePlan
  <2> HIDE DEF row
  <2>4. PICK new : IsAdded("plan", row, new) /\ Written("plan", NewId("plan"), new)
    BY <2>1, <2>2, <2>3, InsertCommits DEF Writes
  <2>5. Goes(c, {"plan"})
    BY <2>1, <2>2, <2>3, InsertCommits DEF Writes
  <2>6. /\ NewId("plan") \in Ids["plan"] /\ db.plan[NewId("plan")].rev = 0
        /\ new.held = {} /\ new.rule = None /\ new.status = "planned"
        /\ {"rule", "born", "status", "actual"} \subseteq DOMAIN new
    BY <2>2, <2>4 DEF IsAdded, Free
  <2>7. MayBecome(NewId("plan"), new)
    BY <2>6 DEF MayBecome
  <2> QED BY <2>4, <2>5, <2>7, PlanWritten
<1>2. ASSUME NEW op \in {"update_plan", "cancel_plan"}, Writes(c, op),
             NEW values, db' = Updated(r, values),
             DOMAIN values \cap {"rule", "born", "actual", "rev", "live", "held"} = {},
             "status" \in DOMAIN values => values.status = "cancelled"
      PROVE  RecordsInv' /\ PlansStayClosed /\ ArchivedImmutable
  <2>1. op \in Changes /\ TableOf[op] = "plan"
    BY DEF Changes, TableOf
  <2>2. r.op = op /\ Goes(c, {"plan"}) /\ IsCurrent(r, "plan")
    BY <1>2, <2>1, UpdateCommits DEF Writes
  <2>3. PICK new : IsUpdated(r, values, new) /\ Written("plan", r.id, new)
    BY <1>2, <2>1, UpdateCommits, ZenonT(40) DEF Writes
  <2> HIDE DEF r
  <2>4. /\ r.id \in Ids["plan"] /\ db.plan[r.id].rev > 0 /\ db.plan[r.id].status = "planned"
        /\ r.held = db.plan[r.id].held /\ r.table = "plan"
    BY <2>2 DEF IsCurrent, Learnt
  <2>5. /\ {"rule", "born", "status", "actual"} \subseteq DOMAIN db.plan[r.id]
        /\ db.plan[r.id].rule # None =>
             Occurrence(db.plan[r.id].rule, db.plan[r.id].born) \in db.plan[r.id].held
    BY <2>4 DEF RecordsInv, PlansInv, Kept
  <2>6. /\ DOMAIN new = DOMAIN values \cup DOMAIN db.plan[r.id]
        /\ new.held = db.plan[r.id].held
        /\ \A f \in {"rule", "born", "actual"} : new[f] = db.plan[r.id][f]
        /\ new.status \in {"planned", "cancelled"}
    BY <1>2, <2>3, <2>4, <2>5 DEF IsUpdated, Columns
  <2>7. MayBecome(r.id, new)
    BY <2>4, <2>5, <2>6 DEF MayBecome, Open
  <2> QED BY <2>2, <2>3, <2>7, PlanWritten
<1>3. CASE UpdatePlan(c)
  <2>1. Writes(c, "update_plan") /\ db' = Updated(r, [entry |-> r.entry, due |-> r.due])
    BY <1>3 DEF UpdatePlan
  <2> QED BY <1>2, <2>1
<1>4. CASE CancelPlan(c)
  <2>1. Writes(c, "cancel_plan") /\ db' = Updated(r, [status |-> "cancelled"])
    BY <1>4 DEF CancelPlan
  <2> QED BY <1>2, <2>1
<1>5. CASE DeletePlan(c)
  <2>1. "delete_plan" \in Changes /\ TableOf["delete_plan"] = "plan"
    BY DEF Changes, TableOf
  <2>2. Writes(c, "delete_plan") /\ db' = SoftDeleted(r)
    BY <1>5 DEF DeletePlan
  <2>3. r.op = "delete_plan" /\ Goes(c, {"plan"}) /\ IsCurrent(r, "plan")
    BY <2>1, <2>2, DeleteCommits DEF Writes
  <2>4. PICK new : IsDeleted(r, new) /\ Written("plan", r.id, new)
    BY <2>1, <2>2, DeleteCommits DEF Writes
  <2> HIDE DEF r
  <2>5. /\ r.id \in Ids["plan"] /\ db.plan[r.id].rev > 0 /\ db.plan[r.id].status # "fulfilled"
        /\ r.held = db.plan[r.id].held /\ r.table = "plan"
    BY <2>3 DEF IsCurrent, Learnt
  <2>6. /\ {"rule", "born", "status", "actual"} \subseteq DOMAIN db.plan[r.id]
        /\ db.plan[r.id].rule # None =>
             Occurrence(db.plan[r.id].rule, db.plan[r.id].born) \in db.plan[r.id].held
    BY <2>5 DEF RecordsInv, PlansInv, Kept
  <2>7. /\ DOMAIN new = DOMAIN db.plan[r.id]
        /\ new.held = db.plan[r.id].held
        /\ \A f \in DOMAIN db.plan[r.id] \ {"rev", "live"} : new[f] = db.plan[r.id][f]
    BY <2>4, <2>5 DEF IsDeleted, Columns
  <2>8. [new EXCEPT !.rev = 0, !.live = TRUE] = [db.plan[r.id] EXCEPT !.rev = 0, !.live = TRUE]
    BY <2>7
  <2>9. \A f \in {"rule", "born", "status", "actual"} : new[f] = db.plan[r.id][f]
    BY <2>6, <2>7
  <2>10. MayBecome(r.id, new)
    <3> HIDE <2>7
    <3>1. DOMAIN new = DOMAIN db.plan[r.id] /\ new.held = db.plan[r.id].held
      BY <2>7
    <3> QED BY <2>5, <2>6, <2>8, <2>9, <3>1 DEF MayBecome
  <2> QED BY <2>3, <2>4, <2>10, PlanWritten
<1> QED BY <1>1, <1>3, <1>4, <1>5

\* What the row of a transaction may become, other than made for a plan.
MayPost(a, new) ==
  /\ a \in Ids["actual"]
  /\ "plan" \in DOMAIN new
  /\ db.actual[a].rev = 0 => new.plan = None
  /\ db.actual[a].rev > 0 => new.plan = db.actual[a].plan /\ (new.live \/ Unneeded(a))

LEMMA ActualWritten ==
  ASSUME RecordsInv, NEW c \in Clients, Goes(c, {"actual"}),
         NEW i, NEW new, Written("actual", i, new), MayPost(i, new)
  PROVE  RecordsInv' /\ PlansStayClosed /\ ArchivedImmutable
<1>1. \A a \in Ids["actual"] : db'.actual[a] = IF a = i THEN new ELSE db.actual[a]
  BY DEF Written
<1>2. db'.plan = db.plan
  BY TablesAssumption DEF Goes
<1>3. \A a \in Ids["actual"] :
        /\ db.actual[a].rev \in Nat
        /\ db.actual[a].live => db.actual[a].rev > 0
  BY TablesAssumption DEF RecordsInv, Tabled, IsRow
<1>4. None \notin Ids["plan"]
  BY TablesAssumption, RecordsAssumption
<1>5. FulfilledInv'
  <2>1. ASSUME NEW p \in Kept("plan"), db.plan[p].status = "fulfilled"
        PROVE  /\ db.plan[p].live
               /\ db.plan[p].actual \in Live("actual")'
               /\ db'.actual[db.plan[p].actual].plan = p
    <3>1. /\ db.plan[p].live
          /\ db.plan[p].actual \in Ids["actual"] /\ db.actual[db.plan[p].actual].live
          /\ db.actual[db.plan[p].actual].plan = p
      BY <2>1 DEF RecordsInv, FulfilledInv, Live
    <3>2. CASE db.plan[p].actual = i
      <4>1. ~Unneeded(i)
        BY <2>1, <3>2 DEF Unneeded
      <4>2. new.plan = p /\ new.live
        BY <1>3, <3>1, <3>2, <4>1 DEF MayPost
      <4> QED BY <1>1, <3>1, <3>2, <4>2 DEF Live
    <3>3. CASE db.plan[p].actual # i
      BY <1>1, <3>1, <3>3 DEF Live
    <3> QED BY <3>2, <3>3
  <2>2. \A a \in Kept("actual")' : "plan" \in DOMAIN db'.actual[a]
    BY <1>1 DEF RecordsInv, FulfilledInv, Kept, MayPost
  <2>3. ASSUME NEW a \in Kept("actual")', NEW p \in Ids["plan"], db'.actual[a].plan = p
        PROVE  p \in Kept("plan") /\ db.plan[p].status = "fulfilled" /\ db.plan[p].actual = a
    <3>1. a \in Ids["actual"]
      BY DEF Kept
    <3>2. db.actual[a].rev > 0 /\ db.actual[a].plan = p
      BY <1>1, <1>3, <1>4, <2>3, <3>1 DEF MayPost, Kept
    <3> QED BY <3>1, <3>2 DEF RecordsInv, FulfilledInv, Kept
  <2> QED BY <1>2, <2>1, <2>2, <2>3 DEF FulfilledInv, Kept
<1> QED BY <1>5, GoesKeeps

LEMMA TransactionCommits ==
  ASSUME RecordsInv, NEW c \in Clients,
         CreateTransaction(c) \/ UpdateTransaction(c) \/ DeleteTransaction(c)
  PROVE  RecordsInv' /\ PlansStayClosed /\ ArchivedImmutable
<1> DEFINE r == request[c]
<1>1. CASE CreateTransaction(c)
  <2> DEFINE row == [entry |-> r.entry, plan |-> None, held |-> r.held]
  <2>1. "create_transaction" \in Creates /\ TableOf["create_transaction"] = "actual"
    BY DEF Creates, TableOf
  <2>2. DOMAIN row = {"entry", "plan", "held"} /\ row.plan = None
    OBVIOUS
  <2>3. Writes(c, "create_transaction") /\ db' = Added("actual", row)
    BY <1>1 DEF CreateTransaction
  <2> HIDE DEF row
  <2>4. PICK new : IsAdded("actual", row, new) /\ Written("actual", NewId("actual"), new)
    BY <2>1, <2>2, <2>3, InsertCommits DEF Writes
  <2>5. Goes(c, {"actual"})
    BY <2>1, <2>2, <2>3, InsertCommits DEF Writes
  <2>6. MayPost(NewId("actual"), new)
    BY <2>2, <2>4 DEF IsAdded, Free, MayPost
  <2> QED BY <2>4, <2>5, <2>6, ActualWritten
<1>2. CASE UpdateTransaction(c)
  <2> DEFINE values == [entry |-> r.entry]
  <2>1. "update_transaction" \in Changes /\ TableOf["update_transaction"] = "actual"
    BY DEF Changes, TableOf
  <2>2. DOMAIN values = {"entry"}
    OBVIOUS
  <2>3. Writes(c, "update_transaction") /\ db' = Updated(r, values)
    BY <1>2 DEF UpdateTransaction
  <2> HIDE DEF values
  <2>4. Goes(c, {"actual"}) /\ IsCurrent(r, "actual")
    BY <2>1, <2>3, UpdateCommits DEF Writes
  <2>5. PICK new : IsUpdated(r, values, new) /\ Written("actual", r.id, new)
    BY <2>1, <2>3, UpdateCommits DEF Writes
  <2> HIDE DEF r
  <2>6. /\ r.table = "actual" /\ r.id \in Ids["actual"] /\ db.actual[r.id].rev > 0
        /\ "plan" \in DOMAIN db.actual[r.id]
    BY <2>4 DEF IsCurrent, RecordsInv, FulfilledInv, Kept
  <2>7. MayPost(r.id, new)
    BY <2>2, <2>5, <2>6 DEF IsUpdated, Columns, MayPost
  <2> QED BY <2>4, <2>5, <2>7, ActualWritten
<1>3. CASE DeleteTransaction(c)
  <2>1. "delete_transaction" \in Changes /\ TableOf["delete_transaction"] = "actual"
    BY DEF Changes, TableOf
  <2>2. Writes(c, "delete_transaction") /\ db' = SoftDeleted(r)
    BY <1>3 DEF DeleteTransaction
  <2>3. r.op = "delete_transaction" /\ Goes(c, {"actual"}) /\ IsCurrent(r, "actual")
    BY <2>1, <2>2, DeleteCommits DEF Writes
  <2>4. PICK new : IsDeleted(r, new) /\ Written("actual", r.id, new)
    BY <2>1, <2>2, DeleteCommits DEF Writes
  <2>5. Unneeded(r.id)
    BY <2>3 DEF RecordsInv, RequestsInv, Informed
  <2> HIDE DEF r
  <2>6. /\ r.table = "actual" /\ r.id \in Ids["actual"] /\ db.actual[r.id].rev > 0
        /\ "plan" \in DOMAIN db.actual[r.id]
    BY <2>3 DEF IsCurrent, RecordsInv, FulfilledInv, Kept
  <2>7. MayPost(r.id, new)
    BY <2>4, <2>5, <2>6 DEF IsDeleted, Columns, MayPost
  <2> QED BY <2>3, <2>4, <2>7, ActualWritten
<1> QED BY <1>1, <1>2, <1>3

(***************************************************************************)
(* The plan and its transaction are written together.                      *)
(***************************************************************************)
LEMMA FulfilCommits ==
  ASSUME RecordsInv, NEW c \in Clients, FulfilPlan(c)
  PROVE  RecordsInv' /\ PlansStayClosed /\ ArchivedImmutable
<1> DEFINE r == request[c]
           a == NewId("actual")
           values == [status |-> "fulfilled", actual |-> a]
           entry == [entry |-> r.entry, plan |-> r.id]
<1>1. /\ Commits(c, "fulfil_plan", r.drops, r.adds)
      /\ Free("actual") # {}
      /\ db' = [Updated(r, values) EXCEPT !.actual = Added("actual", entry).actual]
  BY DEF FulfilPlan, Writes
<1>2. "fulfil_plan" \in Changes /\ TableOf["fulfil_plan"] = "plan"
  BY DEF Changes, TableOf
<1>3. /\ r.op = "fulfil_plan" /\ ~Stale(r)
      /\ request' = [request EXCEPT ![c] = Idle]
      /\ r.table = "plan" /\ r.id \in Ids["plan"]
      /\ db.plan[r.id].live /\ db.plan[r.id].rev > 0 /\ Learnt(r, db.plan[r.id])
  BY <1>1, <1>2, CommitsRow
<1>4. /\ DOMAIN values = {"status", "actual"} /\ values.status = "fulfilled"
      /\ values.actual = a
      /\ DOMAIN entry = {"entry", "plan"} /\ entry.plan = r.id
  OBVIOUS
<1>5. Tabled /\ "plan" \in DOMAIN Ids /\ "actual" \in DOMAIN Ids
  BY TablesAssumption DEF RecordsInv
<1> HIDE DEF r, values, entry
<1>6. PICK plan : IsUpdated(r, values, plan)
  BY <1>3, <1>5, Revises
<1>7. PICK actual : IsAdded("actual", entry, actual)
  BY <1>1, <1>4, <1>5, Inserts
<1>8. /\ DOMAIN db = DOMAIN Ids
      /\ \A t \in DOMAIN Ids : DOMAIN db[t] = Ids[t]
  BY <1>5 DEF Tabled
<1>9. a \in Ids["actual"] /\ db.actual[a].rev = 0
  BY <1>7 DEF IsAdded, Free
<1> HIDE DEF a
<1>10. /\ DOMAIN db' = DOMAIN Ids
       /\ \A t \in DOMAIN Ids \ {"plan", "actual"} : db'[t] = db[t]
       /\ db'.plan = [db.plan EXCEPT ![r.id] = plan]
       /\ db'.actual = [db.actual EXCEPT ![a] = actual]
  <2>1. Updated(r, values) = [db EXCEPT !["plan"][r.id] = plan]
    BY <1>3, <1>6 DEF IsUpdated
  <2>2. Added("actual", entry) = [db EXCEPT !["actual"][a] = actual]
    BY <1>7 DEF IsAdded, a
  <2>3. Added("actual", entry).actual = [db.actual EXCEPT ![a] = actual]
    BY <1>5, <1>8, <2>2
  <2> QED BY <1>1, <1>5, <1>8, <2>1, <2>3
<1>11. /\ IsRow(plan) /\ plan.rev > db.plan[r.id].rev /\ plan.live = TRUE
       /\ plan.held = db.plan[r.id].held
       /\ plan.status = "fulfilled" /\ plan.actual = a
       /\ {"rule", "born", "status", "actual"} \subseteq DOMAIN plan
       /\ plan.rule = db.plan[r.id].rule /\ plan.born = db.plan[r.id].born
  <2>1. IsRow(db.plan[r.id]) /\ r.held = db.plan[r.id].held
    BY <1>3, <1>5 DEF Tabled, Learnt
  <2>2. {"rule", "born", "status", "actual"} \subseteq DOMAIN db.plan[r.id]
    BY <1>3 DEF RecordsInv, PlansInv, Kept
  <2>3. /\ IsRow(plan) /\ plan.rev = db.plan[r.id].rev + 1 /\ plan.live = TRUE
        /\ plan.held = r.held
        /\ DOMAIN plan = DOMAIN values \cup DOMAIN db.plan[r.id]
        /\ \A f \in DOMAIN values \ Columns : plan[f] = values[f]
        /\ \A f \in DOMAIN db.plan[r.id] \ (DOMAIN values \cup Columns) :
             plan[f] = db.plan[r.id][f]
    BY <1>3, <1>6 DEF IsUpdated
  <2>4. plan.rev > db.plan[r.id].rev
    BY <2>1, <2>3 DEF IsRow
  <2> QED BY <1>4, <2>1, <2>2, <2>3, <2>4 DEF Columns
<1>12. /\ IsRow(actual) /\ actual.rev = 1 /\ actual.live = TRUE
       /\ "plan" \in DOMAIN actual /\ actual.plan = r.id
  BY <1>4, <1>7 DEF IsAdded
<1>13. /\ \A p \in Ids["plan"] : db'.plan[p] = IF p = r.id THEN plan ELSE db.plan[p]
       /\ \A b \in Ids["actual"] : db'.actual[b] = IF b = a THEN actual ELSE db.actual[b]
       /\ DOMAIN db'.plan = Ids["plan"] /\ DOMAIN db'.actual = Ids["actual"]
  BY <1>5, <1>8, <1>10
<1>14. Goes(c, {"plan", "actual"})
  <2>1. ASSUME NEW t \in DOMAIN Ids, NEW i \in Ids[t]
        PROVE  /\ DOMAIN db'[t] = Ids[t]
               /\ IsRow(db'[t][i])
               /\ db'[t][i] = db[t][i] \/ db'[t][i].rev > db[t][i].rev
    <3>1. IsRow(db[t][i]) /\ DOMAIN db[t] = Ids[t]
      BY <1>5 DEF Tabled
    <3>2. CASE t = "plan"
      BY <1>11, <1>13, <3>1, <3>2
    <3>3. CASE t = "actual"
      <4>1. actual.rev > db.actual[a].rev
        BY <1>9, <1>12
      <4> QED BY <1>12, <1>13, <3>1, <3>3, <4>1
    <3>4. CASE t \notin {"plan", "actual"}
      BY <1>10, <3>1, <3>4
    <3> QED BY <3>2, <3>3, <3>4
  <2>2. \A t \in DOMAIN Ids : DOMAIN db'[t] = Ids[t]
    BY <1>8, <1>10, <1>13
  <2> QED BY <1>3, <1>10, <2>1, <2>2 DEF Goes, Moves
<1>15. db.plan[r.id].status = "planned"
  BY <1>3 DEF Learnt
<1>16. PlansInv'
  <2>1. \A p \in Kept("plan")' : {"rule", "born", "status", "actual"} \subseteq DOMAIN db'.plan[p]
    BY <1>11, <1>13 DEF RecordsInv, PlansInv, Kept
  <2>2. \A p \in Kept("plan")' :
          db'.plan[p].rule # None =>
            Occurrence(db'.plan[p].rule, db'.plan[p].born) \in db'.plan[p].held
    BY <1>3, <1>11, <1>13 DEF RecordsInv, PlansInv, Kept
  <2>3. \A p, q \in Ids["plan"] : p # q => db'.plan[p].held \cap db'.plan[q].held = {}
    <3>1. \A p \in Ids["plan"] : db'.plan[p].held = db.plan[p].held
      BY <1>11, <1>13
    <3> QED BY <3>1 DEF RecordsInv, PlansInv
  <2> QED BY <2>1, <2>2, <2>3 DEF PlansInv
<1>17. FulfilledInv'
  <2>1. ASSUME NEW p \in Kept("plan")', db'.plan[p].status = "fulfilled"
        PROVE  /\ db'.plan[p].live
               /\ db'.plan[p].actual \in Live("actual")'
               /\ db'.actual[db'.plan[p].actual].plan = p
    <3>1. CASE p = r.id
      BY <1>3, <1>9, <1>11, <1>12, <1>13, <3>1 DEF Live
    <3>2. CASE p # r.id
      <4>1. /\ p \in Kept("plan") /\ db'.plan[p] = db.plan[p]
        BY <1>13, <3>2 DEF Kept
      <4>2. /\ db.plan[p].live /\ db.plan[p].actual \in Ids["actual"]
            /\ db.actual[db.plan[p].actual].live
            /\ db.actual[db.plan[p].actual].plan = p
        BY <2>1, <4>1 DEF RecordsInv, FulfilledInv, Live
      <4>3. db.plan[p].actual # a
        BY <1>5, <1>9, <4>2 DEF Tabled, IsRow
      <4> QED BY <1>13, <4>1, <4>2, <4>3 DEF Live
    <3> QED BY <3>1, <3>2
  <2>2. \A b \in Kept("actual")' : "plan" \in DOMAIN db'.actual[b]
    BY <1>12, <1>13 DEF RecordsInv, FulfilledInv, Kept
  <2>3. ASSUME NEW b \in Kept("actual")', NEW p \in Ids["plan"], db'.actual[b].plan = p
        PROVE  /\ p \in Kept("plan")' /\ db'.plan[p].status = "fulfilled"
               /\ db'.plan[p].actual = b
    <3>1. CASE b = a
      <4>1. p = r.id
        BY <1>9, <1>12, <1>13, <2>3, <3>1
      <4>2. plan.rev > 0
        BY <1>3, <1>11 DEF IsRow
      <4> QED BY <1>11, <1>13, <3>1, <4>1, <4>2 DEF Kept
    <3>2. CASE b # a
      <4>1. b \in Kept("actual") /\ db.actual[b].plan = p
        BY <1>13, <2>3, <3>2 DEF Kept
      <4>2. p \in Kept("plan") /\ db.plan[p].status = "fulfilled" /\ db.plan[p].actual = b
        BY <4>1 DEF RecordsInv, FulfilledInv
      <4>3. p # r.id
        BY <1>15, <4>2
      <4> QED BY <1>13, <4>2, <4>3 DEF Kept
    <3> QED BY <3>1, <3>2
  <2> QED BY <2>1, <2>2, <2>3 DEF FulfilledInv
<1>18. StaysUnneeded
  <2> SUFFICES ASSUME NEW b \in Kept("actual"), Unneeded(b),
                      NEW p \in Kept("plan")', db'.plan[p].status = "fulfilled"
               PROVE  db'.plan[p].actual # b
    BY DEF StaysUnneeded, Unneeded
  <2>1. CASE p = r.id
    BY <1>3, <1>9, <1>11, <1>13, <2>1 DEF Kept
  <2>2. CASE p # r.id
    BY <1>13, <2>2 DEF Kept, Unneeded
  <2> QED BY <2>1, <2>2
<1>19. PlansStayClosed
  BY <1>13, <1>15 DEF PlansStayClosed, Open
<1> QED BY <1>14, <1>16, <1>17, <1>18, <1>19, GoesKeeps

LEMMA RuleCommits ==
  ASSUME RecordsInv, NEW c \in Clients,
         \/ CreateRule(c) \/ UpdateRule(c) \/ SetRuleStatus(c) \/ DeleteRule(c)
  PROVE  RecordsInv' /\ PlansStayClosed /\ ArchivedImmutable
<1>1. CASE CreateRule(c)
  <2>1. "create_rule" \in Creates /\ TableOf["create_rule"] = "rule"
    BY DEF Creates, TableOf
  <2> DEFINE row == [entry |-> request[c].entry, sub |-> request[c].sub,
                   schedule |-> request[c].schedule, status |-> "active"]
  <2>2. \E drops, adds : Commits(c, "create_rule", drops, adds) /\ db' = Added("rule", row)
    BY <1>1 DEF CreateRule, Writes
  <2>3. DOMAIN row \cap {"rev", "live"} = {}
    OBVIOUS
  <2> HIDE DEF row
  <2>4. Goes(c, {"rule"})
    BY <2>1, <2>2, <2>3, InsertCommits
  <2> QED BY <2>4, GoesKeeps
<1>2. CASE UpdateRule(c)
  <2>1. "update_rule" \in Changes /\ TableOf["update_rule"] = "rule"
    BY DEF Changes, TableOf
  <2>2. \E drops, adds, values :
          Commits(c, "update_rule", drops, adds) /\ db' = Updated(request[c], values)
    BY <1>2 DEF UpdateRule, Writes
  <2>4. Goes(c, {"rule"})
    BY <2>1, <2>2, UpdateCommits
  <2> QED BY <2>4, GoesKeeps
<1>3. CASE SetRuleStatus(c)
  <2>1. "set_rule_status" \in Changes /\ TableOf["set_rule_status"] = "rule"
    BY DEF Changes, TableOf
  <2>2. \E drops, adds, values :
          Commits(c, "set_rule_status", drops, adds) /\ db' = Updated(request[c], values)
    BY <1>3 DEF SetRuleStatus, Writes
  <2>4. Goes(c, {"rule"})
    BY <2>1, <2>2, UpdateCommits
  <2> QED BY <2>4, GoesKeeps
<1>4. CASE DeleteRule(c)
  <2>1. "delete_rule" \in Changes /\ TableOf["delete_rule"] = "rule"
    BY DEF Changes, TableOf
  <2>2. \E drops, adds : Commits(c, "delete_rule", drops, adds) /\ db' = SoftDeleted(request[c])
    BY <1>4 DEF DeleteRule, Writes
  <2>4. Goes(c, {"rule"})
    BY <2>1, <2>2, DeleteCommits
  <2> QED BY <2>4, GoesKeeps
<1> QED BY <1>1, <1>2, <1>3, <1>4

LEMMA GoalCommits ==
  ASSUME RecordsInv, NEW c \in Clients,
         \/ CreateGoal(c) \/ UpdateGoal(c) \/ DeleteGoal(c)
  PROVE  RecordsInv' /\ PlansStayClosed /\ ArchivedImmutable
<1>1. CASE CreateGoal(c)
  <2>1. "create_goal" \in Creates /\ TableOf["create_goal"] = "goal"
    BY DEF Creates, TableOf
  <2> DEFINE row == [progress |-> request[c].progress, status |-> request[c].status]
  <2>2. \E drops, adds : Commits(c, "create_goal", drops, adds) /\ db' = Added("goal", row)
    BY <1>1 DEF CreateGoal, Writes
  <2>3. DOMAIN row \cap {"rev", "live"} = {}
    OBVIOUS
  <2> HIDE DEF row
  <2>4. Goes(c, {"goal"})
    BY <2>1, <2>2, <2>3, InsertCommits
  <2> QED BY <2>4, GoesKeeps
<1>2. CASE UpdateGoal(c)
  <2>1. "update_goal" \in Changes /\ TableOf["update_goal"] = "goal"
    BY DEF Changes, TableOf
  <2>2. \E drops, adds, values :
          Commits(c, "update_goal", drops, adds) /\ db' = Updated(request[c], values)
    BY <1>2 DEF UpdateGoal, Writes
  <2>4. Goes(c, {"goal"})
    BY <2>1, <2>2, UpdateCommits
  <2> QED BY <2>4, GoesKeeps
<1>3. CASE DeleteGoal(c)
  <2>1. "delete_goal" \in Changes /\ TableOf["delete_goal"] = "goal"
    BY DEF Changes, TableOf
  <2>2. \E drops, adds : Commits(c, "delete_goal", drops, adds) /\ db' = SoftDeleted(request[c])
    BY <1>3 DEF DeleteGoal, Writes
  <2>4. Goes(c, {"goal"})
    BY <2>1, <2>2, DeleteCommits
  <2> QED BY <2>4, GoesKeeps
<1> QED BY <1>1, <1>2, <1>3

LEMMA BudgetCommits ==
  ASSUME RecordsInv, NEW c \in Clients,
         \/ CreateBudget(c) \/ UpdateBudget(c) \/ DeleteBudget(c)
  PROVE  RecordsInv' /\ PlansStayClosed /\ ArchivedImmutable
<1>1. CASE CreateBudget(c)
  <2>1. "create_budget" \in Creates /\ TableOf["create_budget"] = "budget"
    BY DEF Creates, TableOf
  <2> DEFINE row == [named |-> TRUE]
  <2>2. \E drops, adds : Commits(c, "create_budget", drops, adds) /\ db' = Added("budget", row)
    BY <1>1 DEF CreateBudget
  <2>3. DOMAIN row \cap {"rev", "live"} = {}
    OBVIOUS
  <2> HIDE DEF row
  <2>4. Goes(c, {"budget"})
    BY <2>1, <2>2, <2>3, InsertCommits
  <2> QED BY <2>4, GoesKeeps
<1>2. CASE UpdateBudget(c)
  <2>1. "update_budget" \in Changes /\ TableOf["update_budget"] = "budget"
    BY DEF Changes, TableOf
  <2>2. \E drops, adds, values :
          Commits(c, "update_budget", drops, adds) /\ db' = Updated(request[c], values)
    BY <1>2 DEF UpdateBudget
  <2>4. Goes(c, {"budget"})
    BY <2>1, <2>2, UpdateCommits
  <2> QED BY <2>4, GoesKeeps
<1>3. CASE DeleteBudget(c)
  <2>1. "delete_budget" \in Changes /\ TableOf["delete_budget"] = "budget"
    BY DEF Changes, TableOf
  <2>2. \E drops, adds : Commits(c, "delete_budget", drops, adds) /\ db' = SoftDeleted(request[c])
    BY <1>3 DEF DeleteBudget, Writes
  <2>4. Goes(c, {"budget"})
    BY <2>1, <2>2, DeleteCommits
  <2> QED BY <2>4, GoesKeeps
<1> QED BY <1>1, <1>2, <1>3

LEMMA NoteCommits ==
  ASSUME RecordsInv, NEW c \in Clients,
         \/ CreateNote(c) \/ UpdateNote(c) \/ DeleteNote(c)
  PROVE  RecordsInv' /\ PlansStayClosed /\ ArchivedImmutable
<1>1. CASE CreateNote(c)
  <2>1. "create_note" \in Creates /\ TableOf["create_note"] = "note"
    BY DEF Creates, TableOf
  <2> DEFINE row == [held |-> request[c].held, date |-> request[c].date]
  <2>2. \E drops, adds : Commits(c, "create_note", drops, adds) /\ db' = Added("note", row)
    BY <1>1 DEF CreateNote
  <2>3. DOMAIN row \cap {"rev", "live"} = {}
    OBVIOUS
  <2> HIDE DEF row
  <2>4. Goes(c, {"note"})
    BY <2>1, <2>2, <2>3, InsertCommits
  <2> QED BY <2>4, GoesKeeps
<1>2. CASE UpdateNote(c)
  <2>1. "update_note" \in Changes /\ TableOf["update_note"] = "note"
    BY DEF Changes, TableOf
  <2>2. \E drops, adds, values :
          Commits(c, "update_note", drops, adds) /\ db' = Updated(request[c], values)
    BY <1>2 DEF UpdateNote
  <2>4. Goes(c, {"note"})
    BY <2>1, <2>2, UpdateCommits
  <2> QED BY <2>4, GoesKeeps
<1>3. CASE DeleteNote(c)
  <2>1. "delete_note" \in Changes /\ TableOf["delete_note"] = "note"
    BY DEF Changes, TableOf
  <2>2. \E drops, adds : Commits(c, "delete_note", drops, adds) /\ db' = SoftDeleted(request[c])
    BY <1>3 DEF DeleteNote, Writes
  <2>4. Goes(c, {"note"})
    BY <2>1, <2>2, DeleteCommits
  <2> QED BY <2>4, GoesKeeps
<1> QED BY <1>1, <1>2, <1>3

LEMMA TagCommits ==
  ASSUME RecordsInv, NEW c \in Clients,
         \/ CreateTag(c) \/ DeleteTag(c)
  PROVE  RecordsInv' /\ PlansStayClosed /\ ArchivedImmutable
<1>1. CASE CreateTag(c)
  <2>1. "create_tag" \in Creates /\ TableOf["create_tag"] = "tag"
    BY DEF Creates, TableOf
  <2> DEFINE row == [named |-> TRUE]
  <2>2. \E drops, adds : Commits(c, "create_tag", drops, adds) /\ db' = Added("tag", row)
    BY <1>1 DEF CreateTag, Writes
  <2>3. DOMAIN row \cap {"rev", "live"} = {}
    OBVIOUS
  <2> HIDE DEF row
  <2>4. Goes(c, {"tag"})
    BY <2>1, <2>2, <2>3, InsertCommits
  <2> QED BY <2>4, GoesKeeps
<1>2. CASE DeleteTag(c)
  <2>1. "delete_tag" \in Changes /\ TableOf["delete_tag"] = "tag"
    BY DEF Changes, TableOf
  <2>2. \E drops, adds : Commits(c, "delete_tag", drops, adds) /\ db' = SoftDeleted(request[c])
    BY <1>2 DEF DeleteTag, Writes
  <2>4. Goes(c, {"tag"})
    BY <2>1, <2>2, DeleteCommits
  <2> QED BY <2>4, GoesKeeps
<1> QED BY <1>1, <1>2

\* A step of a client that leaves the tables as they are: its reads, a link
\* that it writes, its refusal.
LEMMA UntouchedCloses ==
  ASSUME RecordsInv, NEW c \in Clients, \E r : Begins(c, r)
  PROVE  RecordsInv' /\ PlansStayClosed /\ ArchivedImmutable
<1>1. RecordsInv'
  BY UntouchedKeeps
<1>2. db' = db
  BY DEF Begins
<1>3. PlansStayClosed /\ ArchivedImmutable
  BY <1>2 DEF PlansStayClosed, ArchivedImmutable, Archived
<1> QED BY <1>1, <1>3

LEMMA LinkCommits ==
  ASSUME RecordsInv, NEW c \in Clients,
         \/ AddNoteLink(c) \/ RemoveNoteLink(c)
         \/ AddCommitmentLink(c) \/ RemoveCommitmentLink(c) \/ Refused(c)
  PROVE  RecordsInv' /\ PlansStayClosed /\ ArchivedImmutable
<1>1. request' = [request EXCEPT ![c] = Idle] /\ db' = db
  BY DEF AddNoteLink, RemoveNoteLink, AddCommitmentLink, RemoveCommitmentLink, Refused,
     Writes, Commits
<1>2. Begins(c, Idle)
  BY <1>1, LinkInformed DEF Begins
<1> QED BY <1>2, UntouchedCloses

LEMMA SavingWritten ==
  ASSUME RecordsInv, NEW c \in Clients, Goes(c, {"saving"}),
         NEW i, NEW new, Written("saving", i, new), AddsUp(new)
  PROVE  RecordsInv' /\ PlansStayClosed /\ ArchivedImmutable
<1>1. SavingsInv'
  BY DEF Written, RecordsInv, SavingsInv, Kept
<1> QED BY <1>1, GoesKeeps

LEMMA SavingCommits ==
  ASSUME RecordsInv, NEW c \in Clients,
         CreateSaving(c) \/ UpdateSaving(c) \/ Contribute(c) \/ DeleteSaving(c)
  PROVE  RecordsInv' /\ PlansStayClosed /\ ArchivedImmutable
<1> DEFINE r == request[c]
<1>1. CASE CreateSaving(c)
  <2> DEFINE row == [account |-> r.account, target |-> r.target, current |-> 0,
                     status |-> "active", set |-> 0, given |-> 0]
  <2>1. "create_saving" \in Creates /\ TableOf["create_saving"] = "saving"
    BY DEF Creates, TableOf
  <2>2. /\ DOMAIN row \cap {"rev", "live"} = {} /\ {"current", "set", "given"} \subseteq DOMAIN row
        /\ row.current = 0 /\ row.set = 0 /\ row.given = 0
    OBVIOUS
  <2>3. Writes(c, "create_saving") /\ db' = Added("saving", row)
    BY <1>1 DEF CreateSaving
  <2> HIDE DEF row
  <2>4. PICK new : IsAdded("saving", row, new) /\ Written("saving", NewId("saving"), new)
    BY <2>1, <2>2, <2>3, InsertCommits DEF Writes
  <2>5. Goes(c, {"saving"})
    BY <2>1, <2>2, <2>3, InsertCommits DEF Writes
  <2>6. AddsUp(new)
    BY <2>2, <2>4 DEF IsAdded, AddsUp
  <2> QED BY <2>4, <2>5, <2>6, SavingWritten
<1>2. CASE UpdateSaving(c)
  <2>1. "update_saving" \in Changes /\ TableOf["update_saving"] = "saving"
    BY DEF Changes, TableOf
  <2> DEFINE values == r.goal
  <2>2. Writes(c, "update_saving") /\ db' = Updated(r, values)
    BY <1>2 DEF UpdateSaving
  <2> HIDE DEF values
  <2>3. r.op = "update_saving" /\ Goes(c, {"saving"})
    BY <2>1, <2>2, UpdateCommits DEF Writes
  <2>4. PICK new : IsUpdated(r, values, new) /\ Written("saving", r.id, new)
    BY <2>1, <2>2, UpdateCommits DEF Writes
  <2>5. AddsUp(values)
    BY <2>3 DEF RecordsInv, RequestsInv, Informed, values
  <2> HIDE DEF r
  <2>6. AddsUp(new)
    <3>1. /\ DOMAIN values \subseteq DOMAIN new
          /\ \A f \in DOMAIN values \ Columns : new[f] = values[f]
      BY <2>4 DEF IsUpdated
    <3> QED BY <2>5, <3>1 DEF AddsUp, Columns
  <2> QED BY <2>3, <2>4, <2>6, SavingWritten
<1>3. CASE Contribute(c)
  <2> DEFINE values == [current |-> r.goal.current, status |-> r.goal.status,
                        given |-> db.saving[r.id].given + r.amount]
  <2>1. "contribute" \in Changes /\ TableOf["contribute"] = "saving"
    BY DEF Changes, TableOf
  <2>2. /\ DOMAIN values = {"current", "status", "given"}
        /\ values.current = r.goal.current
        /\ values.given = db.saving[r.id].given + r.amount
    OBVIOUS
  <2>3. Writes(c, "contribute") /\ db' = Updated(r, values)
    BY <1>3 DEF Contribute
  <2> HIDE DEF values
  <2>4. r.op = "contribute" /\ Goes(c, {"saving"}) /\ IsCurrent(r, "saving")
    BY <2>1, <2>3, UpdateCommits DEF Writes
  <2>5. PICK new : IsUpdated(r, values, new) /\ Written("saving", r.id, new)
    BY <2>1, <2>3, UpdateCommits, ZenonT(40) DEF Writes
  <2> HIDE DEF r
  <2>6. /\ AddsUp(db.saving[r.id]) /\ r.table = "saving"
        /\ r.amount \in Nat /\ r.goal.current = db.saving[r.id].current + r.amount
    BY <2>4 DEF IsCurrent, Learnt, RecordsInv, SavingsInv, Kept
  <2>7. AddsUp(new)
    <3>1. /\ DOMAIN new = DOMAIN values \cup DOMAIN db.saving[r.id]
          /\ new.current = values.current /\ new.given = values.given
      BY <2>2, <2>5, <2>6 DEF IsUpdated, Columns
    <3>2. {"current", "set", "given"} \subseteq DOMAIN db.saving[r.id]
      BY <2>6 DEF AddsUp
    <3>3. new.set = db.saving[r.id].set
      BY <2>2, <2>5, <2>6, <3>2 DEF IsUpdated, Columns
    <3> QED BY <2>2, <2>6, <3>1, <3>2, <3>3 DEF AddsUp
  <2> QED BY <2>4, <2>5, <2>7, SavingWritten
<1>4. CASE DeleteSaving(c)
  <2>1. "delete_saving" \in Changes /\ TableOf["delete_saving"] = "saving"
    BY DEF Changes, TableOf
  <2>2. Writes(c, "delete_saving") /\ db' = SoftDeleted(r)
    BY <1>4 DEF DeleteSaving
  <2>3. Goes(c, {"saving"}) /\ IsCurrent(r, "saving")
    BY <2>1, <2>2, DeleteCommits DEF Writes
  <2>4. PICK new : IsDeleted(r, new) /\ Written("saving", r.id, new)
    BY <2>1, <2>2, DeleteCommits DEF Writes
  <2> HIDE DEF r
  <2>5. AddsUp(db.saving[r.id]) /\ r.table = "saving"
    BY <2>3 DEF IsCurrent, RecordsInv, SavingsInv, Kept
  <2>6. AddsUp(new)
    BY <2>4, <2>5 DEF IsDeleted, AddsUp, Columns
  <2> QED BY <2>3, <2>4, <2>6, SavingWritten
<1> QED BY <1>1, <1>2, <1>3, <1>4

LEMMA CommitmentWritten ==
  ASSUME RecordsInv, NEW c \in Clients, Goes(c, {"commitment"}),
         NEW i, NEW new, Written("commitment", i, new),
         {"terms", "status"} \subseteq DOMAIN new, WellShaped(new.terms),
         i \in Live("commitment") /\ Archived(i) =>
           new.terms = db.commitment[i].terms /\ new.status = "archived"
  PROVE  RecordsInv' /\ PlansStayClosed /\ ArchivedImmutable
<1>1. CommitmentsInv'
  BY DEF Written, RecordsInv, CommitmentsInv, Kept
<1>2. ArchivedImmutable
  BY DEF Written, ArchivedImmutable, Archived, Live
<1> QED BY <1>1, <1>2, GoesKeeps

LEMMA CommitmentCommits ==
  ASSUME RecordsInv, NEW c \in Clients,
         \/ CreateCommitment(c) \/ UpdateCommitment(c)
         \/ ArchiveCommitment(c) \/ DeleteCommitment(c)
  PROVE  RecordsInv' /\ PlansStayClosed /\ ArchivedImmutable
<1> DEFINE r == request[c]
<1>1. CASE CreateCommitment(c)
  <2> DEFINE row == [terms |-> r.terms, status |-> r.status]
  <2>1. "create_commitment" \in Creates /\ TableOf["create_commitment"] = "commitment"
    BY DEF Creates, TableOf
  <2>2. DOMAIN row = {"terms", "status"} /\ row.terms = r.terms
    OBVIOUS
  <2>3. Writes(c, "create_commitment") /\ db' = Added("commitment", row)
    BY <1>1 DEF CreateCommitment
  <2>4. WellShaped(r.terms)
    BY <2>3, CommitsRow DEF Writes, Informed
  <2> HIDE DEF row
  <2>5. PICK new :
          IsAdded("commitment", row, new) /\ Written("commitment", NewId("commitment"), new)
    BY <2>1, <2>2, <2>3, InsertCommits DEF Writes
  <2>6. Goes(c, {"commitment"})
    BY <2>1, <2>2, <2>3, InsertCommits DEF Writes
  <2>7. /\ {"terms", "status"} \subseteq DOMAIN new /\ new.terms = r.terms
        /\ NewId("commitment") \notin Live("commitment")
    BY <2>2, <2>5, TablesAssumption DEF IsAdded, Free, Live, RecordsInv, Tabled, IsRow
  <2> QED BY <2>4, <2>5, <2>6, <2>7, CommitmentWritten
<1>2. ASSUME NEW op \in {"update_commitment", "archive_commitment"}, Writes(c, op),
             NEW values, db' = Updated(r, values),
             "status" \in DOMAIN values, DOMAIN values \subseteq {"terms", "status"},
             "terms" \in DOMAIN values =>
               /\ op = "update_commitment"
               /\ values.terms = r.values & db.commitment[r.id].terms
      PROVE  RecordsInv' /\ PlansStayClosed /\ ArchivedImmutable
  <2>1. op \in Changes /\ TableOf[op] = "commitment"
    BY DEF Changes, TableOf
  <2>2. r.op = op /\ Goes(c, {"commitment"}) /\ IsCurrent(r, "commitment")
    BY <1>2, <2>1, UpdateCommits DEF Writes
  <2>3. PICK new : IsUpdated(r, values, new) /\ Written("commitment", r.id, new)
    BY <1>2, <2>1, UpdateCommits, ZenonT(40) DEF Writes
  <2> HIDE DEF r
  <2>4. /\ r.id \in Kept("commitment") /\ r.table = "commitment"
        /\ Learnt(r, db.commitment[r.id])
    BY <2>2 DEF IsCurrent, Kept
  <2>5. /\ db.commitment[r.id].status # "archived"
        /\ op = "update_commitment" => WellShaped(r.values & db.commitment[r.id].terms)
    BY <2>2, <2>4 DEF Learnt
  <2>6. /\ {"terms", "status"} \subseteq DOMAIN db.commitment[r.id]
        /\ WellShaped(db.commitment[r.id].terms)
    BY <2>4 DEF RecordsInv, CommitmentsInv
  <2>7. /\ {"terms", "status"} \subseteq DOMAIN new
        /\ new.terms = IF "terms" \in DOMAIN values
                       THEN values.terms ELSE db.commitment[r.id].terms
    BY <1>2, <2>3, <2>4, <2>6 DEF IsUpdated, Columns
  <2>8. WellShaped(new.terms)
    BY <1>2, <2>5, <2>6, <2>7
  <2> QED BY <2>2, <2>3, <2>5, <2>7, <2>8, CommitmentWritten DEF Archived
<1>3. CASE UpdateCommitment(c)
  <2> DEFINE values == [terms |-> r.values & db.commitment[r.id].terms, status |-> r.status]
  <2>1. Writes(c, "update_commitment") /\ db' = Updated(r, values)
    BY <1>3 DEF UpdateCommitment
  <2> QED BY <1>2, <2>1
<1>4. CASE ArchiveCommitment(c)
  <2> DEFINE values == [status |-> "archived"]
  <2>1. Writes(c, "archive_commitment") /\ db' = Updated(r, values)
    BY <1>4 DEF ArchiveCommitment
  <2> QED BY <1>2, <2>1
<1>5. CASE DeleteCommitment(c)
  <2>1. "delete_commitment" \in Changes /\ TableOf["delete_commitment"] = "commitment"
    BY DEF Changes, TableOf
  <2>2. Writes(c, "delete_commitment") /\ db' = SoftDeleted(r)
    BY <1>5 DEF DeleteCommitment
  <2>3. Goes(c, {"commitment"}) /\ IsCurrent(r, "commitment")
    BY <2>1, <2>2, DeleteCommits DEF Writes
  <2>4. PICK new : IsDeleted(r, new) /\ Written("commitment", r.id, new)
    BY <2>1, <2>2, DeleteCommits DEF Writes
  <2> HIDE DEF r
  <2>5. /\ r.table = "commitment" /\ {"terms", "status"} \subseteq DOMAIN db.commitment[r.id]
        /\ WellShaped(db.commitment[r.id].terms)
    BY <2>3 DEF IsCurrent, RecordsInv, CommitmentsInv, Kept
  <2>6. /\ {"terms", "status"} \subseteq DOMAIN new
        /\ new.terms = db.commitment[r.id].terms /\ new.status = db.commitment[r.id].status
    BY <2>4, <2>5 DEF IsDeleted, Columns
  <2> QED BY <2>3, <2>4, <2>5, <2>6, CommitmentWritten DEF Archived
<1> QED BY <1>1, <1>3, <1>4, <1>5

(***************************************************************************)
(* Generation: each plan gets an identifier of its own.                    *)
(***************************************************************************)
LEMMA EnoughElements ==
  ASSUME NEW S, NEW T, IsFiniteSet(S), IsFiniteSet(T), Cardinality(S) <= Cardinality(T)
  PROVE  \E f \in [S -> T] : \A p, q \in S : p # q => f[p] # f[q]
<1>1. /\ Cardinality(S) \in Nat /\ Bijection(1 .. Cardinality(S), S) # {}
      /\ Cardinality(T) \in Nat /\ Bijection(1 .. Cardinality(T), T) # {}
  BY FS_CardinalityType DEF ExistsBijection
<1>2. PICK g \in [1 .. Cardinality(S) -> S] : \A s \in S : \E k \in 1 .. Cardinality(S) : g[k] = s
  BY <1>1 DEF Bijection, Injection, Surjection
<1>3. PICK h \in [1 .. Cardinality(T) -> T] :
        \A j, k \in 1 .. Cardinality(T) : h[j] = h[k] => j = k
  BY <1>1 DEF Bijection, Injection, IsInjective
<1> DEFINE index(s) == CHOOSE k \in 1 .. Cardinality(S) : g[k] = s
           f == [s \in S |-> h[index(s)]]
<1>4. \A s \in S : index(s) \in 1 .. Cardinality(S) /\ g[index(s)] = s
  BY <1>2
<1> HIDE DEF index
<1>5. \A s \in S : index(s) \in 1 .. Cardinality(T)
  BY <1>1, <1>4
<1>6. f \in [S -> T]
  BY <1>5
<1>7. \A p, q \in S : p # q => f[p] # f[q]
  BY <1>3, <1>4, <1>5
<1> HIDE DEF f
<1> QED BY <1>6, <1>7

LEMMA NumberedApart ==
  ASSUME Tabled, NEW plans, IsFiniteSet(plans),
         Cardinality(plans) <= Cardinality(Free("plan"))
  PROVE  /\ Numbered(plans) \in [plans -> Free("plan")]
         /\ \A p, q \in plans : p # q => Numbered(plans)[p] # Numbered(plans)[q]
<1>1. IsFiniteSet(Free("plan"))
  <2>1. IsFiniteSet(Ids["plan"]) /\ Free("plan") \subseteq Ids["plan"]
    BY RecordsAssumption, TablesAssumption DEF Free
  <2> QED BY <2>1, FS_Subset
<1>2. \E f \in [plans -> Free("plan")] : \A p, q \in plans : p # q => f[p] # f[q]
  BY <1>1, EnoughElements
<1> QED BY <1>2 DEF Numbered

\* The row of a generated plan.
Planned(p) == p & [rev |-> 1, live |-> TRUE]

LEMMA GenerateWrites ==
  ASSUME RecordsInv, NEW c \in Clients, Generate(c)
  PROVE  LET r == request[c]
             id == Numbered(r.plans)
         IN /\ request' = [request EXCEPT ![c] = Idle]
            /\ Generated(r) /\ ~Collides(r) /\ r.table = "plan" /\ r.id = None
            /\ id \in [r.plans -> Free("plan")]
            /\ \A p, q \in r.plans : p # q => id[p] # id[q]
            /\ DOMAIN db' = DOMAIN Ids
            /\ \A t \in DOMAIN Ids \ {"plan"} : db'[t] = db[t]
            /\ DOMAIN db'.plan = Ids["plan"]
            /\ \A p \in r.plans : db'.plan[id[p]] = Planned(p)
            /\ \A i \in Ids["plan"] : i \notin {id[p] : p \in r.plans} => db'.plan[i] = db.plan[i]
<1> DEFINE r == request[c]
           plans == r.plans
           id == Numbered(plans)
           range == {id[p] : p \in plans}
           written == [i \in range |-> (CHOOSE p \in plans : id[p] = i) & [rev |-> 1, live |-> TRUE]]
<1>1. /\ Commits(c, "generate", r.drops, r.adds)
      /\ Cardinality(plans) <= Cardinality(Free("plan"))
      /\ db' = [db EXCEPT !.plan = written & @]
  BY DEF Generate, Writes
<1>2. /\ r.op = "generate" /\ Informed(r) /\ ~Collides(r)
      /\ request' = [request EXCEPT ![c] = Idle]
  BY <1>1, CommitsRow
<1> HIDE DEF r
<1>3. r.table = "plan" /\ r.id = None /\ Generated(r)
  BY <1>2 DEF Informed
<1>4. IsFiniteSet(plans)
  BY <1>3 DEF Generated
<1>5. Tabled /\ "plan" \in DOMAIN Ids
  BY TablesAssumption DEF RecordsInv
<1>6. id \in [plans -> Free("plan")] /\ \A p, q \in plans : p # q => id[p] # id[q]
  BY <1>1, <1>4, <1>5, NumberedApart
<1> HIDE DEF plans, id
<1>7. \A p \in plans : (CHOOSE q \in plans : id[q] = id[p]) = p
  BY <1>6
<1>8. \A p \in plans : id[p] \in range /\ written[id[p]] = Planned(p)
  BY <1>7 DEF Planned
<1>9. DOMAIN written = range /\ range \subseteq Ids["plan"]
  BY <1>6 DEF Free
<1> HIDE DEF written, range
<1>10. /\ DOMAIN db = DOMAIN Ids /\ DOMAIN db.plan = Ids["plan"]
  BY <1>5 DEF Tabled
<1>11. /\ DOMAIN db' = DOMAIN Ids
       /\ \A t \in DOMAIN Ids \ {"plan"} : db'[t] = db[t]
       /\ db'.plan = written & db.plan
  BY <1>1, <1>5, <1>10
<1>12. /\ DOMAIN db'.plan = Ids["plan"]
       /\ \A i \in Ids["plan"] :
            db'.plan[i] = IF i \in range THEN written[i] ELSE db.plan[i]
  BY <1>9, <1>10, <1>11 DEF &
<1>13. \A p \in plans : db'.plan[id[p]] = Planned(p)
  BY <1>8, <1>9, <1>12
<1> QED BY <1>2, <1>3, <1>6, <1>11, <1>12, <1>13 DEF r, plans, id, range

LEMMA GenerateCommits ==
  ASSUME RecordsInv, NEW c \in Clients, Generate(c)
  PROVE  RecordsInv' /\ PlansStayClosed /\ ArchivedImmutable
<1> DEFINE r == request[c]
           id == Numbered(r.plans)
           range == {id[p] : p \in r.plans}
<1>1. /\ request' = [request EXCEPT ![c] = Idle]
      /\ Generated(r) /\ ~Collides(r) /\ r.table = "plan" /\ r.id = None
      /\ id \in [r.plans -> Free("plan")]
      /\ \A p, q \in r.plans : p # q => id[p] # id[q]
      /\ DOMAIN db' = DOMAIN Ids
      /\ \A t \in DOMAIN Ids \ {"plan"} : db'[t] = db[t]
      /\ DOMAIN db'.plan = Ids["plan"]
      /\ \A p \in r.plans : db'.plan[id[p]] = Planned(p)
      /\ \A i \in Ids["plan"] : i \notin range => db'.plan[i] = db.plan[i]
  BY GenerateWrites
<1> HIDE DEF r, id
<1>2. \A i \in range : \E p \in r.plans : i = id[p]
  OBVIOUS
<1> HIDE DEF range
<1>3. Tabled /\ "plan" \in DOMAIN Ids /\ None \notin Ids["plan"]
  BY TablesAssumption, RecordsAssumption DEF RecordsInv
<1>4. ASSUME NEW p \in r.plans
      PROVE  /\ Planned(p).rev = 1 /\ Planned(p).live = TRUE
             /\ Planned(p).rule = p.rule /\ Planned(p).born = p.born
             /\ Planned(p).status = "planned" /\ Planned(p).rule # None
             /\ Planned(p).held = {Occurrence(p.rule, p.born)}
             /\ Planned(p).held \subseteq r.held
             /\ {"rule", "born", "status", "actual"} \subseteq DOMAIN Planned(p)
             /\ IsRow(Planned(p))
  <2>1. /\ p.rule # None /\ p.status = "planned"
        /\ {"rule", "born", "status", "actual", "held"} \subseteq DOMAIN p
        /\ DOMAIN p \cap {"rev", "live"} = {}
        /\ p.held = {Occurrence(p.rule, p.born)} /\ p.held \subseteq r.held
    BY <1>1 DEF Generated
  <2> DEFINE new == Planned(p)
  <2>2. /\ DOMAIN new = DOMAIN p \cup {"rev", "live"}
        /\ \A f \in DOMAIN p : new[f] = p[f]
        /\ new.rev = 1 /\ new.live = TRUE
    BY <2>1 DEF Planned, &
  <2> HIDE DEF new
  <2>3. new.rev \in Nat /\ new.rev > 0 /\ Columns \subseteq DOMAIN new
    BY <2>1, <2>2 DEF Columns
  <2>4. IsRow(new)
    BY <2>2, <2>3, Zenon DEF IsRow
  <2> QED BY <2>1, <2>2, <2>4 DEF new
<1>5. \A i \in range : i \in Ids["plan"] /\ db.plan[i].rev = 0
  BY <1>1, <1>2 DEF Free
<1>6. Goes(c, {"plan"})
  <2>1. ASSUME NEW t \in DOMAIN Ids, NEW i \in Ids[t]
        PROVE  IsRow(db'[t][i]) /\ (db'[t][i] = db[t][i] \/ db'[t][i].rev > db[t][i].rev)
    <3>1. IsRow(db[t][i])
      BY <1>3 DEF Tabled
    <3>2. CASE t # "plan" \/ i \notin range
      BY <1>1, <3>1, <3>2
    <3>3. CASE t = "plan" /\ i \in range
      <4>1. PICK p \in r.plans : i = id[p]
        BY <1>2, <3>3
      <4>2. db'.plan[i] = Planned(p)
        BY <1>1, <4>1
      <4>3. IsRow(Planned(p))
        BY <1>4
      <4>4. Planned(p).rev > db.plan[i].rev
        <5>1. Planned(p).rev = 1
          BY <1>4
        <5>2. db.plan[i].rev = 0
          BY <1>5, <3>3
        <5> QED BY <5>1, <5>2
      <4>5. db'[t][i] = Planned(p) /\ db[t][i] = db.plan[i]
        BY <3>3, <4>2
      <4> QED BY <4>3, <4>4, <4>5
    <3> QED BY <3>2, <3>3
  <2>2. \A t \in DOMAIN Ids : DOMAIN db'[t] = Ids[t]
    BY <1>1, <1>3 DEF Tabled
  <2> QED BY <1>1, <2>1, <2>2 DEF Goes, Moves
<1>7. PlansInv'
  <2>1. ASSUME NEW i \in Kept("plan")'
        PROVE  /\ {"rule", "born", "status", "actual"} \subseteq DOMAIN db'.plan[i]
               /\ db'.plan[i].rule # None =>
                    Occurrence(db'.plan[i].rule, db'.plan[i].born) \in db'.plan[i].held
    <3>1. CASE i \in range
      <4>1. PICK p \in r.plans : i = id[p]
        BY <1>2, <3>1
      <4>2. db'.plan[i] = Planned(p)
        BY <1>1, <4>1
      <4> QED BY <1>4, <4>2
    <3>2. CASE i \notin range
      BY <1>1, <3>2 DEF Kept, RecordsInv, PlansInv
    <3> QED BY <3>1, <3>2
  <2>2. ASSUME NEW i \in Ids["plan"], NEW j \in Ids["plan"], i # j
        PROVE  db'.plan[i].held \cap db'.plan[j].held = {}
    <3>1. \A k \in Ids["plan"] : db.plan[k].held \cap r.held = {}
      <4>1. \A t \in DOMAIN Ids : \A k \in Ids[t] :
              <<t, k>> # <<"plan", None>> => db[t][k].held \cap r.held = {}
        BY <1>1 DEF Collides
      <4> QED BY <1>3, <4>1
    <3>2. CASE i \in range /\ j \in range
      <4>1. PICK p \in r.plans, q \in r.plans : i = id[p] /\ j = id[q]
        BY <1>2, <3>2
      <4>2. p # q
        BY <2>2, <4>1
      <4>3. p.born # q.born
        BY <1>1, <4>2 DEF Generated
      <4>4. /\ db'.plan[i].held = {Occurrence(p.rule, p.born)}
            /\ db'.plan[j].held = {Occurrence(q.rule, q.born)}
        BY <1>1, <1>4, <4>1
      <4> QED BY <4>3, <4>4 DEF Occurrence
    <3>3. CASE i \in range /\ j \notin range
      <4>1. PICK p \in r.plans : i = id[p]
        BY <1>2, <3>3
      <4>2. db'.plan[i].held \subseteq r.held /\ db'.plan[j] = db.plan[j]
        BY <1>1, <1>4, <3>3, <4>1
      <4> QED BY <3>1, <4>2
    <3>4. CASE i \notin range /\ j \in range
      <4>1. PICK p \in r.plans : j = id[p]
        BY <1>2, <3>4
      <4>2. db'.plan[j].held \subseteq r.held /\ db'.plan[i] = db.plan[i]
        BY <1>1, <1>4, <3>4, <4>1
      <4> QED BY <3>1, <4>2
    <3>5. CASE i \notin range /\ j \notin range
      BY <1>1, <2>2, <3>5 DEF RecordsInv, PlansInv
    <3> QED BY <3>2, <3>3, <3>4, <3>5
  <2> QED BY <2>1, <2>2 DEF PlansInv
<1>8. \A i \in Ids["plan"] :
        \/ db'.plan[i] = db.plan[i]
        \/ db'.plan[i].status # "fulfilled" /\ db.plan[i].rev = 0
  <2> TAKE i \in Ids["plan"]
  <2>1. CASE i \in range
    <3>1. PICK p \in r.plans : i = id[p]
      BY <1>2, <2>1
    <3>2. db'.plan[i] = Planned(p)
      BY <1>1, <3>1
    <3> QED BY <1>4, <1>5, <2>1, <3>2
  <2>2. CASE i \notin range
    BY <1>1, <2>2
  <2> QED BY <2>1, <2>2
<1>9. StaysUnneeded
  BY <1>8 DEF StaysUnneeded, Unneeded, Kept
<1>10. FulfilledInv'
  <2>1. db'.actual = db.actual
    BY <1>1, TablesAssumption
  <2>2. \A i \in Kept("plan") : db'.plan[i] = db.plan[i]
    BY <1>8 DEF Kept
  <2>3. \A i \in Kept("plan")' : db'.plan[i].status = "fulfilled" =>
          i \in Kept("plan") /\ db'.plan[i] = db.plan[i]
    BY <1>8 DEF Kept
  <2>4. Kept("plan") \subseteq Kept("plan")'
    BY <2>2 DEF Kept
  <2>5. Kept("actual")' = Kept("actual") /\ Live("actual")' = Live("actual")
    BY <2>1 DEF Kept, Live
  <2> QED BY <2>1, <2>2, <2>3, <2>4, <2>5 DEF RecordsInv, FulfilledInv
<1>11. PlansStayClosed
  <2>1. \A i \in Ids["plan"] : db.plan[i].rev > 0 => db'.plan[i] = db.plan[i]
    BY <1>8
  <2> QED BY <2>1 DEF PlansStayClosed
<1> QED BY <1>6, <1>7, <1>9, <1>10, <1>11, GoesKeeps

(***************************************************************************)
(* Subscriptions.                                                          *)
(***************************************************************************)
LEMMA SubscriptionWritten ==
  ASSUME RecordsInv, NEW c \in Clients, Goes(c, {"sub"}) \/ Goes(c, {"sub", "rule"}),
         NEW i, NEW new, Written("sub", i, new), Chained(new)
  PROVE  RecordsInv' /\ PlansStayClosed /\ ArchivedImmutable
<1>1. ChainsInv'
  BY DEF Written, RecordsInv, ChainsInv, Kept
<1> QED BY <1>1, GoesKeeps

\* A change of price is added to the chain when it starts from its end.
LEMMA ChainExtends ==
  ASSUME NEW row, Chained(row), NEW r, r.old = row.amount, r.settings.amount \in Prices,
         NEW new, {"amount", "prices"} \subseteq DOMAIN new,
         new.amount = r.settings.amount, new.prices = row.prices \o PriceChange(r)
  PROVE  Chained(new)
<1>1. /\ row.amount \in Prices /\ row.prices \in Seq(Prices \X Prices)
      /\ \A n \in 1 .. Len(row.prices) :
           /\ row.prices[n][1] # row.prices[n][2]
           /\ n > 1 => row.prices[n][1] = row.prices[n - 1][2]
      /\ row.prices # <<>> => row.prices[Len(row.prices)][2] = row.amount
  BY DEF Chained
<1> DEFINE old == row.prices
           change == <<r.old, r.settings.amount>>
<1>2. CASE r.settings.amount = r.old
  <2>1. new.prices = old /\ new.amount = row.amount
    BY <1>1, <1>2 DEF PriceChange
  <2> QED BY <1>1, <2>1 DEF Chained
<1>3. CASE r.settings.amount # r.old
  <2>1. new.prices = old \o <<change>>
    BY <1>3 DEF PriceChange
  <2>2. change \in Prices \X Prices
    BY <1>1
  <2>3. change[1] = row.amount /\ change[2] = new.amount /\ change[1] # change[2]
    BY <1>3
  <2> HIDE DEF change
  <2>4. /\ new.prices \in Seq(Prices \X Prices)
        /\ Len(old) \in Nat /\ Len(new.prices) = Len(old) + 1
        /\ \A n \in 1 .. Len(old) : new.prices[n] = old[n]
        /\ new.prices[Len(old) + 1] = change
    BY <1>1, <2>1, <2>2
  <2>5. old # <<>> => Len(old) > 0
    BY <1>1
  <2>6. Len(old) > 0 => old # <<>>
    BY <1>1
  <2> HIDE DEF old
  <2>7. ASSUME NEW n \in 1 .. Len(new.prices)
        PROVE  /\ new.prices[n][1] # new.prices[n][2]
               /\ n > 1 => new.prices[n][1] = new.prices[n - 1][2]
    <3>1. CASE n \in 1 .. Len(old)
      <4>1. n > 1 => n - 1 \in 1 .. Len(old)
        BY <2>4, <3>1
      <4>2. /\ new.prices[n] = old[n]
            /\ n > 1 => new.prices[n - 1] = old[n - 1]
        BY <2>4, <3>1, <4>1
      <4>3. /\ old[n][1] # old[n][2]
            /\ n > 1 => old[n][1] = old[n - 1][2]
        BY <1>1, <3>1 DEF old
      <4> QED BY <4>2, <4>3
    <3>2. CASE n = Len(old) + 1
      <4>1. new.prices[n] = change
        BY <2>4, <3>2
      <4>2. ASSUME n > 1
            PROVE  new.prices[n - 1] = old[Len(old)] /\ old[Len(old)][2] = row.amount
        <5>1. Len(old) \in 1 .. Len(old) /\ n - 1 = Len(old)
          BY <2>4, <3>2, <4>2
        <5>2. old # <<>>
          BY <2>4, <2>6, <5>1
        <5> QED BY <1>1, <2>4, <5>1, <5>2 DEF old
      <4> QED BY <2>3, <4>1, <4>2
    <3>3. n \in 1 .. Len(old) \/ n = Len(old) + 1
      BY <2>4
    <3> QED BY <3>1, <3>2, <3>3
  <2>8. new.prices[Len(new.prices)][2] = new.amount
    BY <2>3, <2>4
  <2> QED BY <2>4, <2>7, <2>8 DEF Chained
<1> QED BY <1>2, <1>3

LEMMA SubscriptionCommits ==
  ASSUME RecordsInv, NEW c \in Clients,
         CreateSubscription(c) \/ DeleteSubscription(c)
  PROVE  RecordsInv' /\ PlansStayClosed /\ ArchivedImmutable
<1> DEFINE r == request[c]
<1>1. CASE CreateSubscription(c)
  <2> DEFINE row == [account |-> r.account, category |-> r.category, amount |-> r.amount,
                     schedule |-> r.schedule, status |-> "active", prices |-> <<>>]
  <2>1. "create_sub" \in Creates /\ TableOf["create_sub"] = "sub"
    BY DEF Creates, TableOf
  <2>2. /\ DOMAIN row \cap {"rev", "live"} = {} /\ {"amount", "prices"} \subseteq DOMAIN row
        /\ row.amount = r.amount /\ row.prices = <<>>
    OBVIOUS
  <2>3. Writes(c, "create_sub") /\ db' = Added("sub", row)
    BY <1>1 DEF CreateSubscription
  <2>4. r.amount \in Prices
    BY <2>3, CommitsRow DEF Writes, Informed
  <2> HIDE DEF row
  <2>5. PICK new : IsAdded("sub", row, new) /\ Written("sub", NewId("sub"), new)
    BY <2>1, <2>2, <2>3, InsertCommits DEF Writes
  <2>6. Goes(c, {"sub"})
    BY <2>1, <2>2, <2>3, InsertCommits DEF Writes
  <2>7. {"amount", "prices"} \subseteq DOMAIN new /\ new.amount = r.amount /\ new.prices = <<>>
    BY <2>2, <2>5 DEF IsAdded
  <2>8. Chained(new)
    BY <2>4, <2>7 DEF Chained
  <2> QED BY <2>5, <2>6, <2>8, SubscriptionWritten
<1>2. CASE DeleteSubscription(c)
  <2>1. "delete_sub" \in Changes /\ TableOf["delete_sub"] = "sub"
    BY DEF Changes, TableOf
  <2>2. Writes(c, "delete_sub") /\ db' = SoftDeleted(r)
    BY <1>2 DEF DeleteSubscription
  <2>3. Goes(c, {"sub"}) /\ IsCurrent(r, "sub")
    BY <2>1, <2>2, DeleteCommits DEF Writes
  <2>4. PICK new : IsDeleted(r, new) /\ Written("sub", r.id, new)
    BY <2>1, <2>2, DeleteCommits DEF Writes
  <2> HIDE DEF r
  <2>5. Chained(db.sub[r.id]) /\ r.table = "sub"
    BY <2>3 DEF IsCurrent, RecordsInv, ChainsInv, Kept
  <2>6. /\ {"amount", "prices"} \subseteq DOMAIN new
        /\ new.amount = db.sub[r.id].amount /\ new.prices = db.sub[r.id].prices
    BY <2>4, <2>5 DEF IsDeleted, Chained, Columns
  <2>7. Chained(new)
    BY <2>5, <2>6 DEF Chained
  <2> QED BY <2>3, <2>4, <2>7, SubscriptionWritten
<1> QED BY <1>1, <1>2

LEMMA SynchronizedRules ==
  ASSUME Tabled, NEW s, NEW sub, NEW i \in Ids["rule"]
  PROVE  LET row == Synchronized(s, sub)[i]
         IN IsRow(row) /\ (row = db.rule[i] \/ row.rev > db.rule[i].rev)
<1> DEFINE row == db.rule[i]
           new == [row EXCEPT !.entry = SubscriptionEntry(sub), !.schedule = sub.schedule,
                              !.rev = @ + 1]
<1>1. IsRow(row)
  BY TablesAssumption DEF Tabled
<1>2. Synchronized(s, sub)[i] = row \/ Synchronized(s, sub)[i] = new
  BY DEF Synchronized
<1> HIDE DEF row
<1>3. /\ new.rev = row.rev + 1 /\ DOMAIN new = DOMAIN row
      /\ new.live = row.live
  BY <1>1 DEF IsRow, Columns
<1> HIDE DEF new
<1>4. new.rev \in Nat /\ new.rev > 0 /\ new.rev > row.rev
  BY <1>1, <1>3 DEF IsRow
<1>5. IsRow(new)
  BY <1>1, <1>3, <1>4, Zenon DEF IsRow
<1>6. CASE Synchronized(s, sub)[i] = row
  BY <1>1, <1>6 DEF row
<1>7. CASE Synchronized(s, sub)[i] = new
  BY <1>4, <1>5, <1>7 DEF row
<1> QED BY <1>2, <1>6, <1>7

\* The subscription and the rules linked to it are written together.
LEMMA UpdateSubscriptionCommits ==
  ASSUME RecordsInv, NEW c \in Clients, UpdateSubscription(c)
  PROVE  RecordsInv' /\ PlansStayClosed /\ ArchivedImmutable
<1> DEFINE r == request[c]
           row == db.sub[r.id]
           sub == r.settings & row
           values == r.settings & [prices |-> sub.prices \o PriceChange(r)]
           rules == Synchronized(r.id, sub)
<1>1. /\ Commits(c, "update_sub", r.drops, r.adds)
      /\ db' = [Updated(r, values) EXCEPT !.rule = rules]
  BY DEF UpdateSubscription, Writes
<1>2. "update_sub" \in Changes /\ TableOf["update_sub"] = "sub"
  BY SMTT(30) DEF Changes, TableOf
<1>3. /\ r.op = "update_sub" /\ ~Stale(r) /\ Informed(r)
      /\ request' = [request EXCEPT ![c] = Idle]
      /\ r.table = "sub" /\ r.id \in Ids["sub"]
      /\ row.live /\ row.rev > 0 /\ Learnt(r, row)
  BY <1>1, <1>2, CommitsRow
<1>4. Tabled /\ "sub" \in DOMAIN Ids /\ "rule" \in DOMAIN Ids
  BY TablesAssumption DEF RecordsInv
<1> HIDE DEF r
<1>5. /\ r.settings.amount \in Prices /\ r.old = row.amount
      /\ DOMAIN r.settings = {"category", "amount", "schedule", "status"}
      /\ Chained(row)
  BY <1>3 DEF Informed, Learnt, RecordsInv, ChainsInv, Kept
<1>6. {"amount", "prices"} \subseteq DOMAIN row
  BY <1>5 DEF Chained
<1>7. /\ DOMAIN values = {"category", "amount", "schedule", "status", "prices"}
      /\ values.amount = r.settings.amount
      /\ values.prices = row.prices \o PriceChange(r)
  <2>1. sub.prices = row.prices
    BY <1>5, <1>6 DEF &
  <2> HIDE DEF sub, row
  <2> QED BY <1>5, <2>1 DEF &
<1> DEFINE vals == values
<1> HIDE DEF values, rules
<1>8. PICK new : IsUpdated(r, values, new)
  BY <1>3, <1>4, Revises
<1>9. /\ Updated(r, values) = [db EXCEPT !["sub"][r.id] = new]
      /\ IsRow(new) /\ new.rev = row.rev + 1
      /\ DOMAIN new = DOMAIN values \cup DOMAIN row
      /\ new.amount = values.amount /\ new.prices = values.prices
  BY <1>3, <1>7, <1>8 DEF IsUpdated, Columns
<1>10. Chained(new)
  BY <1>5, <1>7, <1>9, ChainExtends, ZenonT(40)
<1>11. /\ DOMAIN db = DOMAIN Ids
       /\ \A t \in DOMAIN Ids : DOMAIN db[t] = Ids[t]
       /\ \A t \in DOMAIN Ids : \A i \in Ids[t] : IsRow(db[t][i])
  BY <1>4 DEF Tabled
<1> HIDE DEF row
<1>12. /\ DOMAIN db' = DOMAIN Ids
       /\ \A t \in DOMAIN Ids \ {"sub", "rule"} : db'[t] = db[t]
       /\ db'.sub = [db.sub EXCEPT ![r.id] = new]
       /\ db'.rule = rules
  BY <1>1, <1>4, <1>9, <1>11
<1>13. /\ DOMAIN db'.sub = Ids["sub"]
       /\ \A i \in Ids["sub"] : db'.sub[i] = IF i = r.id THEN new ELSE db.sub[i]
  BY <1>4, <1>11, <1>12
<1>14. /\ DOMAIN db'.rule = Ids["rule"]
       /\ \A i \in Ids["rule"] :
            IsRow(db'.rule[i]) /\ (db'.rule[i] = db.rule[i] \/ db'.rule[i].rev > db.rule[i].rev)
  <2>1. DOMAIN rules = Ids["rule"]
    BY DEF rules, Synchronized
  <2>2. \A i \in Ids["rule"] :
          IsRow(rules[i]) /\ (rules[i] = db.rule[i] \/ rules[i].rev > db.rule[i].rev)
    BY <1>4, SynchronizedRules DEF rules
  <2> QED BY <1>12, <2>1, <2>2
<1>15. new.rev > db.sub[r.id].rev
  BY <1>3, <1>4, <1>9, <1>11 DEF IsRow, row
<1>16. Goes(c, {"sub", "rule"})
  <2>1. ASSUME NEW t \in DOMAIN Ids, NEW i \in Ids[t]
        PROVE  IsRow(db'[t][i]) /\ (db'[t][i] = db[t][i] \/ db'[t][i].rev > db[t][i].rev)
    <3>1. CASE t = "sub"
      <4>1. CASE i = r.id
        BY <1>9, <1>13, <1>15, <3>1, <4>1, Zenon
      <4>2. CASE i # r.id
        BY <1>11, <1>13, <3>1, <4>2, Zenon
      <4> QED BY <4>1, <4>2
    <3>2. CASE t = "rule"
      BY <1>14, <3>2
    <3>3. CASE t \notin {"sub", "rule"}
      BY <1>11, <1>12, <3>3
    <3> QED BY <3>1, <3>2, <3>3
  <2>2. \A t \in DOMAIN Ids : DOMAIN db'[t] = Ids[t]
    BY <1>11, <1>12, <1>13, <1>14
  <2> QED BY <1>3, <1>12, <2>1, <2>2 DEF Goes, Moves
<1>17. Written("sub", r.id, new)
  BY <1>13 DEF Written
<1> QED BY <1>10, <1>16, <1>17, SubscriptionWritten, SMTT(30)

(***************************************************************************)
(* Every step.                                                             *)
(***************************************************************************)
LEMMA RecordsInitial ==
  ASSUME RecordsInit
  PROVE  RecordsInv
<1>1. DOMAIN Absent = Columns /\ Absent.rev = 0 /\ Absent.live = FALSE
  BY DEF Absent, Columns
<1>2. IsRow(Absent)
  <2>1. Absent.rev \in Nat /\ Columns \subseteq DOMAIN Absent
    BY <1>1
  <2> QED BY <1>1, <2>1, Zenon DEF IsRow
<1>3. Tabled
  BY <1>2 DEF RecordsInit, Tabled
<1>4. \A t \in DOMAIN Ids : Kept(t) = {} /\ Live(t) = {}
  BY <1>1 DEF RecordsInit, Kept, Live
<1>5. PlansInv
  BY <1>4, TablesAssumption DEF RecordsInit, PlansInv, Absent
<1>6. FulfilledInv /\ SavingsInv /\ ChainsInv /\ CommitmentsInv
  BY <1>4, TablesAssumption DEF FulfilledInv, SavingsInv, ChainsInv, CommitmentsInv
<1>7. DOMAIN request = Clients /\ RequestsInv
  BY LinkInformed DEF RecordsInit, RequestsInv
<1> QED BY <1>3, <1>5, <1>6, <1>7 DEF RecordsInv

LEMMA RecordsStep ==
  ASSUME RecordsInv, [Next]_recordVars
  PROVE  RecordsInv' /\ PlansStayClosed /\ ArchivedImmutable
<1> DEFINE Goal == RecordsInv' /\ PlansStayClosed /\ ArchivedImmutable
<1>1. CASE UNCHANGED recordVars
  <2>1. db' = db /\ request' = request
    BY <1>1 DEF recordVars
  <2>2. RecordsInv'
    BY <2>1 DEF RecordsInv, Tabled, RequestsInv, Informed, Stale, Unneeded, PlansInv,
       FulfilledInv, SavingsInv, ChainsInv, CommitmentsInv, Kept, Live
  <2>3. PlansStayClosed /\ ArchivedImmutable
    BY <2>1 DEF PlansStayClosed, ArchivedImmutable, Archived
  <2> QED BY <2>2, <2>3
<1>2. ASSUME NEW c \in Clients, AccountRequest(c)
      PROVE  Goal
  <2>1. Tabled
    BY DEF RecordsInv
  <2> QED BY <1>2, <2>1, AccountBegins, AccountCommits, UntouchedCloses DEF AccountRequest
<1>3. ASSUME NEW c \in Clients, TransactionRequest(c)
      PROVE  Goal
  <2>1. Tabled /\ FulfilledInv
    BY DEF RecordsInv
  <2> QED BY <1>3, <2>1, TransactionBegins, TransactionCommits, PlanBegins, PlanCommits,
             FulfilCommits, UntouchedCloses DEF TransactionRequest
<1>4. ASSUME NEW c \in Clients, RuleRequest(c)
      PROVE  Goal
  <2>1. Tabled
    BY DEF RecordsInv
  <2> QED BY <1>4, <2>1, RuleBegins, RuleCommits, GenerateBegins, GenerateCommits,
             UntouchedCloses DEF RuleRequest
<1>5. ASSUME NEW c \in Clients, SubscriptionRequest(c)
      PROVE  Goal
  <2>1. Tabled /\ ChainsInv
    BY DEF RecordsInv
  <2> QED BY <1>5, <2>1, SubscriptionBegins, SubscriptionCommits, UpdateSubscriptionCommits,
             UntouchedCloses DEF SubscriptionRequest
<1>6. ASSUME NEW c \in Clients, GoalRequest(c) \/ BudgetRequest(c)
      PROVE  Goal
  <2>1. Tabled /\ SavingsInv
    BY DEF RecordsInv
  <2> QED BY <1>6, <2>1, GoalBegins, GoalCommits, BudgetBegins, BudgetCommits, SavingBegins,
             SavingCommits, UntouchedCloses DEF GoalRequest, BudgetRequest
<1>7. ASSUME NEW c \in Clients, NoteRequest(c) \/ TagRequest(c)
      PROVE  Goal
  <2>1. Tabled
    BY DEF RecordsInv
  <2> QED BY <1>7, <2>1, NoteBegins, NoteCommits, TagCommits, LinkCommits,
             UntouchedCloses DEF NoteRequest, TagRequest
<1>8. ASSUME NEW c \in Clients, CommitmentRequest(c) \/ Refused(c)
      PROVE  Goal
  <2>1. Tabled
    BY DEF RecordsInv
  <2> QED BY <1>8, <2>1, CommitmentBegins, CommitmentCommits, LinkCommits,
             UntouchedCloses DEF CommitmentRequest
<1> QED BY <1>1, <1>2, <1>3, <1>4, <1>5, <1>6, <1>7, <1>8 DEF Next

LEMMA RecordsInductive == Spec => []RecordsInv
<1>1. RecordsInit => RecordsInv
  BY RecordsInitial
<1>2. RecordsInv /\ [Next]_recordVars => RecordsInv'
  BY RecordsStep
<1> QED BY <1>1, <1>2, PTL DEF Spec

(***************************************************************************)
(* Theorems.                                                               *)
(***************************************************************************)
\* An occurrence of a rule is planned once, and a plan has its posted
\* transaction to itself, for any number of overlapping requests: the unique
\* indexes decide at the commit, and the revision that the UPDATE names says
\* that the plan is still open.
THEOREM PlansOnceTheorem == Spec => []PlansOnce
<1>1. RecordsInv => PlansOnce
  <2> SUFFICES ASSUME RecordsInv PROVE PlansOnce
    OBVIOUS
  <2>1. OccurrencePlannedOnce
    <3> SUFFICES ASSUME NEW p \in Kept("plan"), NEW q \in Kept("plan"),
                        db.plan[p].rule # None, db.plan[q].rule # None,
                        db.plan[p].rule = db.plan[q].rule, db.plan[p].born = db.plan[q].born,
                        p # q
                 PROVE  FALSE
      BY DEF OccurrencePlannedOnce, Kept
    <3> DEFINE key == Occurrence(db.plan[p].rule, db.plan[p].born)
    <3>1. key \in db.plan[p].held /\ key \in db.plan[q].held
      BY DEF RecordsInv, PlansInv
    <3>2. db.plan[p].held \cap db.plan[q].held = {}
      BY DEF RecordsInv, PlansInv, Kept
    <3> QED BY <3>1, <3>2
  <2>2. FulfilledOnce
    BY DEF FulfilledOnce, RecordsInv, FulfilledInv, Kept, Live
  <2> QED BY <2>1, <2>2 DEF PlansOnce
<1> QED BY <1>1, RecordsInductive, PTL

\* No contribution is lost, price changes chain up to the current price and
\* the terms of a commitment fit together, although every request computes or
\* validates what it writes from an earlier read: the row still has the
\* revision that was read.
THEOREM NothingLostTheorem == Spec => []NothingLost
<1>1. RecordsInv => NothingLost
  <2> SUFFICES ASSUME RecordsInv PROVE NothingLost
    OBVIOUS
  <2>1. NoContributionLost
    BY DEF NoContributionLost, RecordsInv, SavingsInv, AddsUp, Kept
  <2>2. PriceHistory
    BY DEF PriceHistory, RecordsInv, ChainsInv, Chained, Kept
  <2>3. CommitmentsWellShaped
    BY DEF CommitmentsWellShaped, RecordsInv, CommitmentsInv, Kept
  <2> QED BY <2>1, <2>2, <2>3 DEF NothingLost
<1> QED BY <1>1, RecordsInductive, PTL

\* A cancelled or fulfilled plan and an archived commitment stay what they
\* are, whatever an overlapping request has decided before they were closed.
THEOREM ClosedTheorem == Spec => ClosedStaysClosed
<1>1. RecordsInv /\ [Next]_recordVars => [PlansStayClosed /\ ArchivedImmutable]_recordVars
  BY RecordsStep
<1> QED BY <1>1, RecordsInductive, PTL DEF Spec, ClosedStaysClosed

(***************************************************************************)
(* The types of rows, links and requests.                                  *)
(***************************************************************************)
EntryOK(e) == e \in Entry /\ (e.to # None <=> e.type = "transfer")

PlanOK(row) ==
  /\ {"entry", "due", "born", "rule", "sub", "status", "actual"} \subseteq DOMAIN row
  /\ EntryOK(row.entry) /\ row.due \in Times /\ row.born \in Times
  /\ row.rule \in Field(Ids["rule"]) /\ row.sub \in Field(Ids["sub"])
  /\ row.status \in {"planned", "fulfilled", "cancelled"}
  /\ row.actual \in Field(Ids["actual"])
  /\ row.actual # None => row.status = "fulfilled"

RuleOK(row) ==
  /\ {"entry", "sub", "schedule", "status"} \subseteq DOMAIN row
  /\ EntryOK(row.entry) /\ row.sub \in Field(Ids["sub"])
  /\ row.schedule \in Schedules /\ row.status \in RuleStatus

SubOK(row) ==
  /\ {"account", "category", "amount", "schedule", "status"} \subseteq DOMAIN row
  /\ row.account \in Ids["account"] /\ row.category \in Field(Ids["category"])
  /\ row.amount \in Prices /\ row.schedule \in Schedules
  /\ row.status \in SubscriptionStatus

SavingOK(row) ==
  /\ {"account", "target", "current", "status"} \subseteq DOMAIN row
  /\ row.account \in Field(Ids["account"]) /\ row.target \in Targets
  /\ row.current \in 0 .. MaxSaved /\ row.status \in GoalStatus

GoalOK(row) ==
  /\ {"progress", "status"} \subseteq DOMAIN row
  /\ row.progress \in Progress /\ row.status \in GoalStatus

\* The columns of a row of a table, without those that every table has.
Shaped(t, row) ==
  /\ t = "actual" => "entry" \in DOMAIN row /\ EntryOK(row.entry)
  /\ t = "plan" => PlanOK(row)
  /\ t = "rule" => RuleOK(row)
  /\ t = "sub" => SubOK(row)
  /\ t = "saving" => SavingOK(row)
  /\ t = "goal" => GoalOK(row)
  /\ t = "note" => "date" \in DOMAIN row
  /\ t = "commitment" => "status" \in DOMAIN row /\ row.status \in CommitmentStatus

\* The values a row holds name its table, and a note that is not there, or
\* not any more, holds none.
RowOK(t, row) ==
  /\ \A v \in row.held : v[1] = t
  /\ row.rev = 0 => row.held = {}
  /\ t = "note" /\ ~row.live => row.held = {}
  /\ t = "note" /\ row.rev > 0 => row.held \subseteq Daily(row.date)
  /\ row.rev > 0 => Shaped(t, row)

LinkOK(l) ==
  /\ l = <<l[1], l[2], <<l[3][1], l[3][2]>>>>
  /\ l[1] \in {"limit", "note", "entity", "tag", "commitment"}
  /\ l[3][2] \in Ids[l[3][1]]
  /\ l[1] = "note" => l[3][1] = "note"
  /\ l[1] = "commitment" => l[3][1] \in TargetModels

\* The operations that send an entry.
EntryOps ==
  {"create_transaction", "update_transaction", "create_plan", "update_plan", "fulfil_plan",
   "create_rule", "update_rule"}

\* The links that a note is given lead from it or to it, from a commitment
\* that the transaction asks for again.
NoteAdds(r) ==
  \A l \in r.adds :
    /\ l[1] \in {"tag", "entity", "commitment"}
    /\ l[1] = "entity" => l[2] = r.id
    /\ l[1] = "commitment" => l[3] = <<"note", r.id>> /\ <<"commitment", l[2]>> \in r.needs

\* The operations whose requests insert link rows that they have read.
Linking == {"update_budget", "update_note", "add_note_link", "add_commitment_link"}

LinksBodyOK(body) ==
  /\ body.tags \subseteq Ids["tag"] /\ body.entities \subseteq RecordsOf(NoteLinkTypes)
  /\ body.commitments \subseteq Ids["commitment"]

RequestOK(r) ==
  /\ r.op \in EntryOps => EntryOK(r.entry)
  /\ r.op \in {"create_plan", "update_plan"} => r.due \in Times
  /\ r.op \in {"create_plan", "create_rule"} => r.sub \in Field(Ids["sub"])
  /\ r.op \in {"create_rule", "update_rule"} => r.schedule \in Schedules
  /\ r.op = "generate" => \A p \in r.plans : PlanOK(p)
  /\ r.op = "set_rule_status" => r.status \in RuleStatus
  /\ r.op = "create_sub" =>
       /\ r.account \in Ids["account"] /\ r.category \in Field(Ids["category"])
       /\ r.schedule \in Schedules
  /\ r.op = "update_sub" =>
       /\ r.settings.category \in Field(Ids["category"])
       /\ r.settings.schedule \in Schedules /\ r.settings.status \in SubscriptionStatus
  /\ r.op = "create_saving" => r.account \in Field(Ids["account"]) /\ r.target \in Targets
  /\ r.op = "update_saving" => SavingOK(r.goal)
  /\ r.op = "contribute" => r.goal.current \in 0 .. MaxSaved /\ r.goal.status \in GoalStatus
  /\ r.op = "create_goal" => r.progress \in Progress /\ r.status \in GoalStatus
  /\ r.op = "update_goal" => GoalOK(r.goal)
  /\ r.op = "create_budget" => r.limits \subseteq Ids["category"]
  /\ r.op = "update_budget" => \A l \in r.adds : l[1] = "limit"
  /\ r.op \in {"create_note", "update_note"} => r.held \subseteq Daily(r.date)
  /\ r.op = "create_note" => LinksBodyOK(r.body) /\ r.needs = Needed(r.body)
  /\ r.op = "update_note" => NoteAdds(r)
  /\ r.op = "delete_note" => r.held = {}
  /\ r.op \in {"create_commitment", "update_commitment"} => r.status \in CommitmentStatus
  /\ r.op # "idle" =>
       /\ \A v \in r.held : v[1] = r.table
       /\ \A l \in r.adds : LinkOK(l)
       /\ r.op \notin Linking => r.adds = {}

RowsInv ==
  /\ \A t \in DOMAIN Ids : \A i \in Ids[t] : RowOK(t, db[t][i])
  /\ \A t \in DOMAIN Ids : \A i, j \in Ids[t] :
       i # j => db[t][i].held \cap db[t][j].held = {}

Belongs(c) ==
  request[c] # Idle => c \in workload.clients /\ request[c].op \in workload.ops

TypesInv ==
  /\ RecordsInv
  /\ RowsInv
  /\ \A l \in links : LinkOK(l)
  /\ workload \in Workloads
  /\ \A c \in Clients : RequestOK(request[c]) /\ Belongs(c)

(***************************************************************************)
(* What holds while one client works alone.                                *)
(***************************************************************************)
EntryBacked(e) == e.account \in Live("account") /\ e.to \in Field(Live("account"))

\* The accounts of a row of a table are active.
Backed(t, row) ==
  /\ t \in {"actual", "plan", "rule"} => EntryBacked(row.entry)
  /\ t = "sub" => row.account \in Live("account")
  /\ t = "saving" => row.account \in Field(Live("account"))

BackedInv == \A t \in DOMAIN Ids : \A i \in Live(t) : Backed(t, db[t][i])

\* A rule that has not ended says what its subscription says.
Follows(rule) ==
  rule.sub # None =>
    /\ rule.sub \in Kept("sub")
    /\ rule.status # "ended" /\ rule.sub \in Live("sub") => Mirrors(rule, db.sub[rule.sub])

FollowInv == \A i \in Live("rule") : Follows(db.rule[i])

Leads(l) ==
  /\ l[1] = "note" => l[2] \in Live("note")
  /\ l[1] = "commitment" => l[2] \in Live("commitment")
  /\ l[1] \in {"note", "commitment"} => l[3][2] \in Live(l[3][1])
  /\ l[1] = "entity" => l[2] \in Live("note")

LeadInv == \A l \in links : Leads(l)

\* What a request has validated and is still so when it writes.
Valid(r) ==
  /\ ~Stale(r) /\ ~Collides(r)
  /\ r.op = "delete_account" => ~AccountInUse(r.id)
  /\ r.op \in EntryOps => EntryBacked(r.entry)
  /\ r.op = "generate" => \A p \in r.plans : EntryBacked(p.entry)
  /\ r.op = "create_rule" /\ r.sub # None =>
       /\ r.sub \in Live("sub")
       /\ Mirrors([entry |-> r.entry, schedule |-> r.schedule], db.sub[r.sub])
  /\ r.op = "update_rule" /\ db.rule[r.id].sub # None =>
       r.entry = db.rule[r.id].entry /\ r.schedule = db.rule[r.id].schedule
  /\ r.op = "set_rule_status" => db.rule[r.id].status # "ended"
  /\ r.op = "create_sub" => r.account \in Live("account")
  /\ r.op = "create_saving" => r.account \in Field(Live("account"))
  /\ r.op = "update_saving" => r.goal.account \in Field(Live("account"))
  /\ r.op \in {"delete_transaction", "delete_plan", "delete_saving", "delete_goal",
               "delete_budget"} =>
       LinksOf("commitment", <<r.table, r.id>>) \subseteq r.drops
  /\ r.op = "delete_note" => LinksWith(r.id) \subseteq r.drops
  /\ r.op = "delete_commitment" =>
       {l \in links : l[1] = "commitment" /\ l[2] = r.id} \subseteq r.drops
  /\ r.op \in {"add_note_link", "add_commitment_link"} => \A l \in r.adds : Leads(l)

AloneInv ==
  Alone => /\ BackedInv /\ FollowInv /\ LeadInv
           /\ \A c \in Clients : request[c] # Idle => Valid(request[c])

(***************************************************************************)
(* Facts about these predicates.                                           *)
(***************************************************************************)
LEMMA ShapedStays ==
  ASSUME NEW t, NEW row, NEW new, Shaped(t, row),
         \A f \in DOMAIN row \ Columns : f \in DOMAIN new /\ new[f] = row[f]
  PROVE  Shaped(t, new)
<1> USE DEF Shaped, Columns
<1>1. CASE t = "plan"
  BY <1>1 DEF PlanOK
<1>2. CASE t = "rule"
  BY <1>2 DEF RuleOK
<1>3. CASE t = "sub"
  BY <1>3 DEF SubOK
<1>4. CASE t = "saving"
  BY <1>4 DEF SavingOK
<1>5. CASE t = "goal"
  BY <1>5 DEF GoalOK
<1>6. CASE t \notin {"plan", "rule", "sub", "saving", "goal"}
  BY <1>6
<1> QED BY <1>1, <1>2, <1>3, <1>4, <1>5, <1>6

LEMMA OneClient ==
  ASSUME TypesInv, Alone, NEW c \in Clients, NEW d \in Clients,
         request[c] # Idle, request[d] # Idle
  PROVE  c = d
<1>1. c \in workload.clients /\ d \in workload.clients
  BY DEF TypesInv, Belongs
<1>2. IsFiniteSet(workload.clients)
  BY WorkloadsAssumption DEF TypesInv
<1>3. PICK x : workload.clients = {x}
  BY <1>2, FS_Singleton DEF Alone
<1> QED BY <1>1, <1>3

\* What is valid stays so while nothing is written.
LEMMA ValidStays ==
  ASSUME UNCHANGED <<db, links>>, NEW r
  PROVE  Valid(r)' <=> Valid(r)
BY DEF Valid, Stale, Collides, AccountInUse, Uses, Live, EntryBacked, Mirrors,
   SubscriptionEntry, LinksOf, LinksWith, Leads, Field

\* The amount or the category of an entry may be changed.
LEMMA PatchedOK ==
  ASSUME NEW e, EntryOK(e)
  PROVE  /\ \A f \in Patched(e) :
              EntryOK(f) /\ f.account = e.account /\ f.to = e.to
         /\ \A a \in Amounts :
              /\ EntryOK(WithAmount(e, a))
              /\ WithAmount(e, a).account = e.account /\ WithAmount(e, a).to = e.to
<1>1. e \in Entry
  BY DEF EntryOK
<1>2. ASSUME NEW k \in Field(Ids["category"]), NEW f, f = [e EXCEPT !.category = k]
      PROVE  EntryOK(f) /\ f.account = e.account /\ f.to = e.to
  BY <1>1, <1>2 DEF EntryOK, Entry
<1>3. ASSUME NEW a \in Amounts, NEW f, f = WithAmount(e, a)
      PROVE  EntryOK(f) /\ f.account = e.account /\ f.to = e.to
  BY <1>1, <1>3, FinanceAssumption DEF EntryOK, Entry, WithAmount
<1>4. \A f \in Patched(e) :
        \/ \E k \in Field(Ids["category"]) : f = [e EXCEPT !.category = k]
        \/ \E a \in Amounts : f = WithAmount(e, a)
  BY Zenon DEF Patched
<1> QED BY <1>2, <1>3, <1>4

LEMMA ValidEntryOK ==
  ASSUME NEW e \in Entries, NEW s, ValidEntry(e, s)
  PROVE  EntryOK(e) /\ EntryBacked(e)
<1>1. e \in Entry
  BY FinanceAssumption
<1>2. None \notin Live("account")
  BY TablesAssumption, RecordsAssumption DEF Live
<1> QED BY <1>1, <1>2 DEF ValidEntry, EntryOK, EntryBacked, Entry, Types, Field

\* What a subscription dictates is an entry.
LEMMA DictatedOK ==
  ASSUME NEW sub, SubOK(sub)
  PROVE  /\ EntryOK(SubscriptionEntry(sub))
         /\ sub.account \in Live("account") => EntryBacked(SubscriptionEntry(sub))
BY RecurringAssumption, TablesAssumption, RecordsAssumption
   DEF SubOK, EntryOK, Entry, SubscriptionEntry, Field, Types, EntryBacked

(***************************************************************************)
(* A request that begins.                                                  *)
(***************************************************************************)
Begun(c, r) ==
  /\ request' = [request EXCEPT ![c] = r]
  /\ UNCHANGED <<db, links, workload>>
  /\ RequestOK(r)
  /\ r # Idle => c \in workload.clients /\ r.op \in workload.ops
  /\ Alone /\ r # Idle => Valid(r)

LEMMA BegunKeeps ==
  ASSUME TypesInv, AloneInv, RecordsInv', NEW c \in Clients, NEW r, Begun(c, r)
  PROVE  TypesInv' /\ AloneInv'
<1>1. /\ request' = [request EXCEPT ![c] = r]
      /\ UNCHANGED <<db, links, workload>>
      /\ RequestOK(r)
      /\ r # Idle => c \in workload.clients /\ r.op \in workload.ops
      /\ Alone /\ r # Idle => Valid(r)
  BY DEF Begun
<1>2. \A d \in Clients : request'[d] = request[d] \/ (d = c /\ request'[d] = r)
  BY <1>1 DEF TypesInv, RecordsInv
<1>3. \A d \in Clients : RequestOK(request'[d])
  BY <1>1, <1>2 DEF TypesInv
<1>4. \A d \in Clients : Belongs(d)'
  BY <1>1, <1>2 DEF TypesInv, Belongs
<1>5. RowsInv'
  BY <1>1 DEF TypesInv, RowsInv
<1>6. TypesInv'
  BY <1>1, <1>3, <1>4, <1>5 DEF TypesInv
<1>7. ASSUME Alone'
      PROVE  /\ BackedInv' /\ FollowInv' /\ LeadInv'
             /\ \A d \in Clients : (request[d] # Idle => Valid(request[d]))'
  <2>1. Alone
    BY <1>1, <1>7 DEF Alone
  <2>2. BackedInv'
    BY <1>1, <2>1 DEF AloneInv, BackedInv, Backed, EntryBacked, Live
  <2>3. FollowInv'
    BY <1>1, <2>1 DEF AloneInv, FollowInv, Follows, Live, Kept
  <2>4. LeadInv'
    BY <1>1, <2>1 DEF AloneInv, LeadInv, Leads, Live
  <2>5. \A d \in Clients : \E q : request'[d] = q /\ (q # Idle => Valid(q))
    BY <1>1, <1>2, <2>1 DEF AloneInv
  <2>6. \A q : Valid(q) => Valid(q)'
    BY <1>1, ValidStays
  <2>7. \A d \in Clients : \E q : request'[d] = q /\ (q # Idle => Valid(q)')
    BY <2>5, <2>6
  <2>8. \A d \in Clients : (request[d] # Idle => Valid(request[d]))'
    BY <2>7
  <2> QED BY <2>2, <2>3, <2>4, <2>8
<1>8. AloneInv'
  BY <1>7 DEF AloneInv
<1> QED BY <1>6, <1>8

\* What a request has read holds of the rows as they are.
ReadOK(r) == RequestOK(r) /\ (Alone => Valid(r))

LEMMA OpensBegun ==
  ASSUME NEW c, NEW op, NEW found, Reads(c, op, found),
         NEW r, Opens(c, op, r), ReadOK([op |-> op] & r)
  PROVE  \E q : Begun(c, q)
<1>1. ([op |-> op] & r).op = op
  BY Opened
<1>2. Begun(c, [op |-> op] & r)
  BY <1>1 DEF Reads, Opens, Begun, ReadOK
<1> QED BY <1>2

LEMMA ReadsBegun ==
  ASSUME NEW c, NEW op, NEW found, Reads(c, op, found),
         \A r \in found : ReadOK([op |-> op] & r)
  PROVE  \E r : Begun(c, r)
<1>1. PICK r \in found : Opens(c, op, r)
  BY DEF Reads
<1> QED BY <1>1, OpensBegun

Sound(r) ==
  /\ ~Stale(r) /\ ~Collides(r)
  /\ \A v \in r.held : v[1] = r.table
  /\ \A l \in r.adds : LinkOK(l)

\* The request r goes on with row i of table t as it has read it.
Reading(r, op, t, i) ==
  /\ r.op = op /\ r.table = t /\ r.id = i /\ r.rev = db[t][i].rev
  /\ r.held = db[t][i].held /\ r.needs = {} /\ r.adds = {} /\ r.drops = {}

\* The request r goes on to insert a row.
Creating(r, op, t) ==
  /\ r.op = op /\ r.table = t /\ r.id = None
  /\ r.held = {} /\ r.needs = {} /\ r.adds = {}

\* The fields of a body are none of those of every request.
Aside(values) ==
  DOMAIN values \cap {"op", "table", "id", "rev", "held", "needs", "adds", "drops"} = {}

LEMMA BodyReads ==
  ASSUME NEW values, Aside(values), NEW op, NEW r
  PROVE  /\ \A t, i : r = [op |-> op] & (values & Change(t, i)) =>
              Reading(r, op, t, i) /\ \A f \in DOMAIN values : r[f] = values[f]
         /\ \A t : r = [op |-> op] & (values & Creation(t)) =>
              Creating(r, op, t) /\ \A f \in DOMAIN values : r[f] = values[f]
<1>1. ASSUME NEW t, NEW i, r = [op |-> op] & (values & Change(t, i))
      PROVE  Reading(r, op, t, i) /\ \A f \in DOMAIN values : r[f] = values[f]
  <2> DEFINE change == Change(t, i)
             read == values & change
  <2>1. /\ DOMAIN change = {"table", "id", "rev", "held", "needs", "adds", "drops"}
        /\ change.table = t /\ change.id = i /\ change.rev = db[t][i].rev
        /\ change.held = db[t][i].held
        /\ change.needs = {} /\ change.adds = {} /\ change.drops = {}
    BY DEF Change, Creation
  <2> HIDE DEF change
  <2>2. /\ DOMAIN read = DOMAIN values \cup DOMAIN change
        /\ \A f \in DOMAIN change : read[f] = change[f]
        /\ \A f \in DOMAIN values : read[f] = values[f]
    BY <2>1 DEF &, Aside
  <2>3. r = [op |-> op] & read
    BY <1>1 DEF change
  <2> HIDE DEF read
  <2>4. r.op = op /\ \A f \in DOMAIN read \ {"op"} : r[f] = read[f]
    BY <2>3, Opened
  <2> QED BY <2>1, <2>2, <2>4 DEF Reading, Aside
<1>2. ASSUME NEW t, r = [op |-> op] & (values & Creation(t))
      PROVE  Creating(r, op, t) /\ \A f \in DOMAIN values : r[f] = values[f]
  <2> DEFINE creation == Creation(t)
             read == values & creation
  <2>1. /\ DOMAIN creation = {"table", "id", "rev", "held", "needs", "adds", "drops"}
        /\ creation.table = t /\ creation.id = None
        /\ creation.held = {} /\ creation.needs = {} /\ creation.adds = {}
    BY DEF Creation
  <2> HIDE DEF creation
  <2>2. /\ DOMAIN read = DOMAIN values \cup DOMAIN creation
        /\ \A f \in DOMAIN creation : read[f] = creation[f]
        /\ \A f \in DOMAIN values : read[f] = values[f]
    BY <2>1 DEF &, Aside
  <2>3. r = [op |-> op] & read
    BY <1>2 DEF creation
  <2> HIDE DEF read
  <2>4. r.op = op /\ \A f \in DOMAIN read \ {"op"} : r[f] = read[f]
    BY <2>3, Opened
  <2> QED BY <2>1, <2>2, <2>4 DEF Creating, Aside
<1> QED BY <1>1, <1>2

LEMMA PlainReads ==
  ASSUME NEW op, NEW t, NEW i
  PROVE  /\ Reading([op |-> op] & Change(t, i), op, t, i)
         /\ Creating([op |-> op] & Creation(t), op, t)
BY DEF Reading, Creating, Change, Creation, &

\* A row that a request may change is in order.
LEMMA ChangeableOK ==
  ASSUME TypesInv, NEW t \in DOMAIN Ids, NEW i \in Changeable(t)
  PROVE  /\ i \in Ids[t] /\ i \in Live(t) /\ i \in Kept(t) /\ i # None
         /\ IsRow(db[t][i]) /\ RowOK(t, db[t][i]) /\ Shaped(t, db[t][i])
         /\ db[t][i].rev \in Nat \ {0}
<1>1. i \in Live(t) /\ i \in Ids[t] /\ i # None
  BY RecordsAssumption DEF Changeable, Live
<1>2. IsRow(db[t][i]) /\ RowOK(t, db[t][i])
  BY <1>1 DEF TypesInv, RowsInv, RecordsInv, Tabled
<1>3. db[t][i].rev \in Nat \ {0}
  BY <1>1, <1>2 DEF IsRow, Live
<1> QED BY <1>1, <1>2, <1>3 DEF RowOK, Kept

LEMMA LiveOK ==
  ASSUME TypesInv, NEW t \in DOMAIN Ids, NEW i \in Live(t)
  PROVE  i \in Ids[t] /\ i \in Kept(t) /\ Shaped(t, db[t][i])
<1>1. i \in Ids[t]
  BY DEF Live
<1>2. IsRow(db[t][i]) /\ RowOK(t, db[t][i])
  BY <1>1 DEF TypesInv, RowsInv, RecordsInv, Tabled
<1> QED BY <1>1, <1>2 DEF RowOK, IsRow, Live, Kept

\* What a row holds under the unique indexes, no other row holds.
LEMMA HeldApart ==
  ASSUME TypesInv, NEW t \in DOMAIN Ids, NEW i \in Ids[t],
         NEW u \in DOMAIN Ids, NEW j \in Ids[u], <<t, i>> # <<u, j>>
  PROVE  db[t][i].held \cap db[u][j].held = {}
<1>1. CASE t = u
  BY <1>1 DEF TypesInv, RowsInv
<1>2. CASE t # u
  BY <1>2 DEF TypesInv, RowsInv, RowOK
<1> QED BY <1>1, <1>2

LEMMA ReadingSound ==
  ASSUME TypesInv, NEW op, NEW t \in DOMAIN Ids, NEW i \in Changeable(t),
         NEW r, Reading(r, op, t, i)
  PROVE  Sound(r)
<1>1. i \in Ids[t] /\ i \in Live(t) /\ RowOK(t, db[t][i])
  BY ChangeableOK
<1>2. ~Stale(r)
  BY <1>1 DEF Reading, Stale, Live
<1>3. ~Collides(r)
  <2> SUFFICES ASSUME NEW u \in DOMAIN Ids, NEW j \in Ids[u], <<u, j>> # <<t, i>>
               PROVE  db[u][j].held \cap db[t][i].held = {}
    BY DEF Collides, Reading
  <2> QED BY <1>1, HeldApart
<1> QED BY <1>1, <1>2, <1>3 DEF Sound, Reading, RowOK

LEMMA CreatingSound ==
  ASSUME NEW op, NEW t, NEW r, Creating(r, op, t)
  PROVE  Sound(r)
BY DEF Creating, Sound, Stale, Collides

\* The operations that read no more than that.
PlainOps ==
  {"create_account", "update_account", "create_category", "update_category",
   "delete_category", "cancel_plan", "delete_rule", "delete_sub", "create_tag",
   "delete_tag", "archive_commitment", "remove_note_link",
   "remove_commitment_link"}

LEMMA PlainReadOK ==
  ASSUME NEW r, Sound(r), r.op \in PlainOps, r.adds = {}
  PROVE  ReadOK(r)
BY DEF Sound, ReadOK, RequestOK, Valid, PlainOps, EntryOps, Linking

LEMMA PlainBegun ==
  ASSUME TypesInv, NEW op \in PlainOps, NEW t \in DOMAIN Ids
  PROVE  /\ \A i \in Changeable(t) : ReadOK([op |-> op] & Change(t, i))
         /\ ReadOK([op |-> op] & Creation(t))
<1>1. ASSUME NEW i \in Changeable(t), NEW r, r = [op |-> op] & Change(t, i)
      PROVE  ReadOK(r)
  <2>1. Reading(r, op, t, i)
    BY <1>1, PlainReads
  <2>2. Sound(r)
    BY <2>1, ReadingSound
  <2> QED BY <2>1, <2>2, PlainReadOK DEF Reading
<1>2. ASSUME NEW r, r = [op |-> op] & Creation(t)
      PROVE  ReadOK(r)
  <2>1. Creating(r, op, t)
    BY <1>2, PlainReads
  <2> QED BY <2>1, CreatingSound, PlainReadOK DEF Creating
<1> QED BY <1>1, <1>2

LEMMA AccountBegun ==
  ASSUME TypesInv, NEW c \in Clients,
         \/ BeginCreateAccount(c) \/ BeginUpdateAccount(c) \/ BeginDeleteAccount(c)
         \/ BeginCreateCategory(c) \/ BeginUpdateCategory(c) \/ BeginDeleteCategory(c)
  PROVE  \E r : Begun(c, r)
<1> USE TablesAssumption DEF PlainOps
<1>1. CASE BeginCreateAccount(c)
  BY <1>1, PlainBegun, ReadsBegun DEF BeginCreateAccount
<1>2. CASE BeginUpdateAccount(c)
  BY <1>2, PlainBegun, ReadsBegun DEF BeginUpdateAccount
<1>3. CASE BeginDeleteAccount(c)
  <2>1. ASSUME NEW a \in Changeable("account"), ~AccountInUse(a),
               NEW r, r = [op |-> "delete_account"] & Change("account", a)
        PROVE  ReadOK(r)
    <3>1. Reading(r, "delete_account", "account", a)
      BY <2>1, PlainReads
    <3>2. Sound(r)
      BY <3>1, ReadingSound
    <3> QED BY <2>1, <3>1, <3>2 DEF Reading, Sound, ReadOK, RequestOK, Valid, EntryOps, Linking
  <2> QED BY <1>3, <2>1, ReadsBegun DEF BeginDeleteAccount
<1>4. CASE BeginCreateCategory(c)
  BY <1>4, PlainBegun, ReadsBegun DEF BeginCreateCategory
<1>5. CASE BeginUpdateCategory(c)
  BY <1>5, PlainBegun, ReadsBegun DEF BeginUpdateCategory
<1>6. CASE BeginDeleteCategory(c)
  BY <1>6, PlainBegun, ReadsBegun DEF BeginDeleteCategory
<1> QED BY <1>1, <1>2, <1>3, <1>4, <1>5, <1>6

\* A value that no row of its table has, no row has.
LEMMA ClaimSound ==
  ASSUME TypesInv, NEW t \in DOMAIN Ids, NEW r, r.table = t, ~Stale(r),
         \A v \in r.held : v[1] = t,
         \A i \in Ids[t] \ {r.id} : db[t][i].held \cap r.held = {},
         \A l \in r.adds : LinkOK(l)
  PROVE  Sound(r)
<1>1. ASSUME NEW u \in DOMAIN Ids, NEW i \in Ids[u], <<u, i>> # <<r.table, r.id>>
      PROVE  db[u][i].held \cap r.held = {}
  <2>1. CASE u = t
    BY <1>1, <2>1
  <2>2. CASE u # t
    <3>1. \A v \in db[u][i].held : v[1] = u
      BY DEF TypesInv, RowsInv, RowOK
    <3> QED BY <2>2, <3>1
  <2> QED BY <2>1, <2>2
<1>2. ~Collides(r)
  BY <1>1 DEF Collides
<1> QED BY <1>2 DEF Sound

LEMMA ChangeSound ==
  ASSUME TypesInv, NEW t \in DOMAIN Ids, NEW i \in Changeable(t),
         NEW r, r.table = t, r.id = i, r.rev = db[t][i].rev, r.held = db[t][i].held,
         \A l \in r.adds : LinkOK(l)
  PROVE  Sound(r)
<1>1. i \in Ids[t] /\ i \in Live(t) /\ RowOK(t, db[t][i])
  BY ChangeableOK
<1>2. \A j \in Ids[t] \ {i} : db[t][j].held \cap r.held = {}
  BY <1>1, HeldApart
<1> QED BY <1>1, <1>2, ClaimSound DEF Stale, Live, RowOK

\* The deletions of records that a commitment may be linked to.
Deletions ==
  {"delete_transaction", "delete_plan", "delete_saving", "delete_goal", "delete_budget"}

LEMMA DeletionReads ==
  ASSUME TypesInv, NEW op \in Deletions, NEW t \in DOMAIN Ids, NEW i \in Changeable(t),
         NEW r, r = [op |-> op] &
                      [Change(t, i) EXCEPT !.drops = LinksOf("commitment", <<t, i>>)]
  PROVE  ReadOK(r)
<1>1. /\ r.op = op /\ r.table = t /\ r.id = i /\ r.rev = db[t][i].rev
      /\ r.held = db[t][i].held /\ r.adds = {}
      /\ r.drops = LinksOf("commitment", <<t, i>>)
  BY DEF &, Change, Creation
<1>2. Sound(r)
  BY <1>1, ChangeSound
<1> QED BY <1>1, <1>2 DEF Sound, ReadOK, RequestOK, Valid, EntryOps, Linking, Deletions

LEMMA TransactionBegun ==
  ASSUME TypesInv, NEW c \in Clients,
         \/ BeginCreateTransaction(c) \/ BeginUpdateTransaction(c)
         \/ BeginDeleteTransaction(c)
  PROVE  \E r : Begun(c, r)
<1>1. CASE BeginCreateTransaction(c)
  <2>1. ASSUME NEW e \in Entries, ValidEntry(e, None),
               NEW p, FingerprintFree("actual", p, None),
               NEW r, r = [op |-> "create_transaction"] &
                            ([entry |-> e] & Claiming("actual", Fingerprint("actual", p)))
        PROVE  ReadOK(r)
    <3>1. /\ r.op = "create_transaction" /\ r.table = "actual" /\ r.id = None
          /\ r.held = Fingerprint("actual", p) /\ r.adds = {} /\ r.entry = e
      BY <2>1 DEF &, Claiming, Creation
    <3>2. \A i \in Ids["actual"] : db["actual"][i].held \cap r.held = {}
      BY <2>1, <3>1, RecordsAssumption, TablesAssumption DEF FingerprintFree
    <3>3. \A v \in r.held : v[1] = "actual"
      BY <3>1 DEF Fingerprint
    <3>4. Sound(r)
      BY <3>1, <3>2, <3>3, ClaimSound, TablesAssumption DEF Stale
    <3>5. EntryOK(r.entry) /\ EntryBacked(r.entry)
      BY <2>1, <3>1, ValidEntryOK
    <3> QED BY <3>1, <3>4, <3>5 DEF Sound, ReadOK, RequestOK, Valid, EntryOps, Linking
  <2>2. PICK e \in {f \in Entries : Free("actual") # {} /\ ValidEntry(f, None)},
             p \in {q \in Field(Fingerprints) : FingerprintFree("actual", q, None)} :
          Opens(c, "create_transaction",
                [entry |-> e] & Claiming("actual", Fingerprint("actual", p)))
    BY <1>1 DEF BeginCreateTransaction, Reads
  <2>3. ReadOK([op |-> "create_transaction"] &
                 ([entry |-> e] & Claiming("actual", Fingerprint("actual", p))))
    BY <2>1
  <2> QED BY <1>1, <2>2, <2>3, OpensBegun DEF BeginCreateTransaction
<1>2. CASE BeginUpdateTransaction(c)
  <2>1. ASSUME NEW i \in Changeable("actual"),
               NEW e \in Patched(db.actual[i].entry), ValidEntry(e, None),
               NEW r, r = [op |-> "update_transaction"] & ([entry |-> e] & Change("actual", i))
        PROVE  ReadOK(r)
    <3>1. Reading(r, "update_transaction", "actual", i) /\ r.entry = e
      BY <2>1, BodyReads DEF Aside
    <3>2. Sound(r)
      BY <3>1, ReadingSound, TablesAssumption
    <3>3. EntryOK(db.actual[i].entry)
      BY ChangeableOK, TablesAssumption DEF Shaped
    <3>4. EntryOK(r.entry) /\ EntryBacked(r.entry)
      <4>1. EntryOK(e)
        BY <3>3, PatchedOK
      <4>2. EntryBacked(e)
        BY <2>1, <4>1 DEF ValidEntry, EntryBacked, EntryOK, Field, Entry
      <4> QED BY <3>1, <4>1, <4>2
    <3> QED BY <3>1, <3>2, <3>4 DEF Reading, Sound, ReadOK, RequestOK, Valid, EntryOps, Linking
  <2>2. \A r \in UNION {{[entry |-> e] & Change("actual", i) :
                           e \in {f \in Patched(db.actual[i].entry) : ValidEntry(f, None)}} :
                        i \in Changeable("actual")} :
          ReadOK([op |-> "update_transaction"] & r)
    BY <2>1, Zenon
  <2> QED BY <1>2, <2>2, ReadsBegun DEF BeginUpdateTransaction
<1>3. CASE BeginDeleteTransaction(c)
  <2>1. ASSUME NEW i \in Changeable("actual"),
               NEW r, r = [op |-> "delete_transaction"] &
                 [Change("actual", i) EXCEPT !.drops = LinksOf("commitment", <<"actual", i>>)]
        PROVE  ReadOK(r)
    BY <2>1, DeletionReads, TablesAssumption DEF Deletions
  <2>2. \A r \in {[Change("actual", i) EXCEPT !.drops = LinksOf("commitment", <<"actual", i>>)] :
                    i \in {j \in Changeable("actual") : ~Fulfils(j)}} :
          ReadOK([op |-> "delete_transaction"] & r)
    BY <2>1, Zenon
  <2> QED BY <1>3, <2>2, ReadsBegun DEF BeginDeleteTransaction
<1> QED BY <1>1, <1>2, <1>3

LEMMA PlanBegun ==
  ASSUME TypesInv, AloneInv, NEW c \in Clients,
         \/ BeginCreatePlan(c) \/ BeginUpdatePlan(c) \/ BeginCancelPlan(c)
         \/ BeginFulfilPlan(c) \/ BeginDeletePlan(c)
  PROVE  \E r : Begun(c, r)
<1>1. CASE BeginCreatePlan(c)
  <2>1. ASSUME NEW body \in PlanBodies, ValidEntry(body.entry, body.sub),
               NEW r, r = [op |-> "create_plan"] & (body & Creation("plan"))
        PROVE  ReadOK(r)
    <3>1. /\ DOMAIN body = {"entry", "due", "sub"}
          /\ body.entry \in Entries /\ body.due \in Times /\ body.sub \in Field(Ids["sub"])
      BY DEF PlanBodies
    <3>2. /\ Creating(r, "create_plan", "plan")
          /\ r.entry = body.entry /\ r.due = body.due /\ r.sub = body.sub
      BY <2>1, <3>1, BodyReads DEF Aside
    <3>3. EntryOK(r.entry) /\ EntryBacked(r.entry)
      BY <2>1, <3>1, <3>2, ValidEntryOK
    <3>4. Sound(r)
      BY <3>2, CreatingSound
    <3> QED BY <3>1, <3>2, <3>3, <3>4
            DEF Creating, Sound, ReadOK, RequestOK, Valid, EntryOps, Linking
  <2> QED BY <1>1, <2>1, ReadsBegun DEF BeginCreatePlan
<1>2. CASE BeginUpdatePlan(c)
  <2>1. ASSUME NEW i \in Changeable("plan"), NEW due \in Times,
               NEW e \in Patched(db.plan[i].entry), ValidEntry(e, db.plan[i].sub),
               NEW r, r = [op |-> "update_plan"] &
                            ([entry |-> e, due |-> due] & Change("plan", i))
        PROVE  ReadOK(r)
    <3>1. Reading(r, "update_plan", "plan", i) /\ r.entry = e /\ r.due = due
      BY <2>1, BodyReads DEF Aside
    <3>2. Sound(r)
      BY <3>1, ReadingSound, TablesAssumption
    <3>3. EntryOK(db.plan[i].entry)
      BY ChangeableOK, TablesAssumption DEF Shaped, PlanOK
    <3>4. EntryOK(e)
      BY <3>3, PatchedOK
    <3>5. EntryBacked(e)
      BY <2>1, <3>4 DEF ValidEntry, EntryBacked, EntryOK, Field, Entry
    <3> QED BY <3>1, <3>2, <3>4, <3>5 DEF Reading, Sound, ReadOK, RequestOK, Valid, EntryOps, Linking
  <2>2. PICK i \in {q \in Changeable("plan") : Open(q)} :
          \E e \in {f \in Patched(db.plan[i].entry) : ValidEntry(f, db.plan[i].sub)},
             due \in Times :
            Opens(c, "update_plan", [entry |-> e, due |-> due] & Change("plan", i))
    BY <1>2, SMTT(30) DEF BeginUpdatePlan, Reads
  <2> QED BY <1>2, <2>1, <2>2, OpensBegun DEF BeginUpdatePlan
<1>3. CASE BeginCancelPlan(c)
  <2>1. "cancel_plan" \in PlainOps /\ "plan" \in DOMAIN Ids
    BY TablesAssumption DEF PlainOps
  <2>2. \A i \in Changeable("plan") : ReadOK([op |-> "cancel_plan"] & Change("plan", i))
    BY <2>1, PlainBegun
  <2> QED BY <1>3, <2>2, ReadsBegun DEF BeginCancelPlan
<1>4. CASE BeginFulfilPlan(c)
  <2>1. ASSUME NEW i \in Changeable("plan"), NEW a \in Amounts,
               NEW r, r = [op |-> "fulfil_plan"] &
                            ([entry |-> WithAmount(db.plan[i].entry, a)] & Change("plan", i))
        PROVE  ReadOK(r)
    <3>1. /\ Reading(r, "fulfil_plan", "plan", i)
          /\ r.entry = WithAmount(db.plan[i].entry, a)
      BY <2>1, BodyReads DEF Aside
    <3>2. Sound(r)
      BY <3>1, ReadingSound, TablesAssumption
    <3>3. EntryOK(db.plan[i].entry)
      BY ChangeableOK, TablesAssumption DEF Shaped, PlanOK
    <3>4. /\ EntryOK(r.entry)
          /\ r.entry.account = db.plan[i].entry.account /\ r.entry.to = db.plan[i].entry.to
      BY <3>1, <3>3, PatchedOK
    <3>5. Alone => EntryBacked(db.plan[i].entry)
      BY ChangeableOK, TablesAssumption DEF AloneInv, BackedInv, Backed
    <3>6. Alone => EntryBacked(r.entry)
      BY <3>4, <3>5 DEF EntryBacked
    <3> QED BY <3>1, <3>2, <3>4, <3>6 DEF Reading, Sound, ReadOK, RequestOK, Valid, EntryOps, Linking
  <2>2. PICK i \in {q \in Changeable("plan") : Open(q) /\ Free("actual") # {}}, a \in Amounts :
          Opens(c, "fulfil_plan",
                [entry |-> WithAmount(db.plan[i].entry, a)] & Change("plan", i))
    BY <1>4 DEF BeginFulfilPlan, Reads
  <2> QED BY <1>4, <2>1, <2>2, OpensBegun DEF BeginFulfilPlan
<1>5. CASE BeginDeletePlan(c)
  <2>1. \A i \in Changeable("plan") :
          ReadOK([op |-> "delete_plan"] &
                   [Change("plan", i) EXCEPT !.drops = LinksOf("commitment", <<"plan", i>>)])
    BY DeletionReads, TablesAssumption DEF Deletions
  <2>2. PICK i \in {q \in Changeable("plan") : db.plan[q].status # "fulfilled"} :
          Opens(c, "delete_plan",
                [Change("plan", i) EXCEPT !.drops = LinksOf("commitment", <<"plan", i>>)])
    BY <1>5, Zenon DEF BeginDeletePlan, Reads
  <2> QED BY <1>5, <2>1, <2>2, OpensBegun DEF BeginDeletePlan
<1> QED BY <1>1, <1>2, <1>3, <1>4, <1>5

LEMMA RuleBegun ==
  ASSUME TypesInv, AloneInv, NEW c \in Clients,
         \/ BeginCreateRule(c) \/ BeginUpdateRule(c) \/ BeginSetRuleStatus(c)
         \/ BeginDeleteRule(c)
  PROVE  \E r : Begun(c, r)
<1>1. CASE BeginCreateRule(c)
  <2>1. ASSUME NEW body \in RuleBodies, ValidEntry(body.entry, body.sub),
               NEW r, r = [op |-> "create_rule"] & (Dictated(body) & Creation("rule"))
        PROVE  ReadOK(r)
    <3>1. /\ DOMAIN body = {"entry", "sub", "schedule"}
          /\ body.entry \in Entries /\ body.sub \in Field(Ids["sub"])
          /\ body.schedule \in Schedules
      BY DEF RuleBodies
    <3> DEFINE rule == Dictated(body)
    <3>2. /\ DOMAIN rule = {"entry", "sub", "schedule"}
          /\ rule.sub = body.sub
          /\ body.sub = None => rule = body
          /\ body.sub # None =>
               /\ rule.entry = SubscriptionEntry(db.sub[body.sub])
               /\ rule.schedule = db.sub[body.sub].schedule
      BY <3>1 DEF Dictated
    <3>3. body.sub # None =>
            /\ body.sub \in Live("sub")
            /\ SubOK(db.sub[body.sub])
            /\ Alone => db.sub[body.sub].account \in Live("account")
      <4> SUFFICES ASSUME body.sub # None
                   PROVE  /\ body.sub \in Live("sub")
                          /\ SubOK(db.sub[body.sub])
                          /\ Alone => db.sub[body.sub].account \in Live("account")
        OBVIOUS
      <4>1. body.sub \in Live("sub")
        BY <2>1 DEF ValidEntry, ValidSubscription
      <4>2. SubOK(db.sub[body.sub])
        BY <4>1, LiveOK, TablesAssumption DEF Shaped
      <4>3. Alone => db.sub[body.sub].account \in Live("account")
        BY <4>1, TablesAssumption DEF AloneInv, BackedInv, Backed
      <4> QED BY <4>1, <4>2, <4>3
    <3>4. /\ EntryOK(rule.entry) /\ rule.schedule \in Schedules
          /\ Alone => EntryBacked(rule.entry)
      <4>1. CASE body.sub = None
        BY <2>1, <3>1, <3>2, <4>1, ValidEntryOK
      <4>2. CASE body.sub # None
        BY <3>2, <3>3, <4>2, DictatedOK DEF SubOK
      <4> QED BY <4>1, <4>2
    <3> HIDE DEF rule
    <3>5. /\ Creating(r, "create_rule", "rule")
          /\ r.entry = rule.entry /\ r.sub = rule.sub /\ r.schedule = rule.schedule
      BY <2>1, <3>2, BodyReads DEF Aside, rule
    <3>6. Sound(r)
      BY <3>5, CreatingSound
    <3>7. RequestOK(r)
      BY <3>1, <3>2, <3>4, <3>5, <3>6 DEF Creating, Sound, RequestOK, EntryOps, Linking
    <3>8. r.sub # None =>
            /\ r.sub \in Live("sub")
            /\ Mirrors([entry |-> r.entry, schedule |-> r.schedule], db.sub[r.sub])
      BY <3>2, <3>3, <3>5 DEF Mirrors
    <3>9. Alone => Valid(r)
      BY <3>4, <3>5, <3>6, <3>8 DEF Creating, Sound, Valid, EntryOps
    <3> QED BY <3>7, <3>9 DEF ReadOK
  <2> QED BY <1>1, <2>1, ReadsBegun DEF BeginCreateRule
<1>2. CASE BeginUpdateRule(c)
  <2>1. PICK i \in {j \in Changeable("rule") : db.rule[j].status # "ended"} :
          \E patch \in RulePatches(db.rule[i]) :
            Opens(c, "update_rule", patch & Change("rule", i))
    BY <1>2 DEF BeginUpdateRule, Reads
  <2>2. PICK patch \in RulePatches(db.rule[i]) :
          Opens(c, "update_rule", patch & Change("rule", i))
    BY <2>1
  <2> DEFINE rule == db.rule[i]
  <2>3. RuleOK(rule)
    BY ChangeableOK, TablesAssumption DEF Shaped
  <2>4. Alone => EntryBacked(rule.entry)
    BY ChangeableOK, TablesAssumption DEF AloneInv, BackedInv, Backed
  <2>5. /\ DOMAIN patch = {"entry", "schedule"}
        /\ \/ patch.entry = rule.entry /\ patch.schedule = rule.schedule
           \/ /\ rule.sub = None /\ patch.schedule \in Schedules
              /\ \E a \in Amounts : patch.entry = WithAmount(rule.entry, a)
    BY <2>2 DEF RulePatches
  <2>6. ASSUME NEW r, r = [op |-> "update_rule"] & (patch & Change("rule", i))
        PROVE  ReadOK(r)
    <3> HIDE DEF rule
    <3>1. /\ Reading(r, "update_rule", "rule", i)
          /\ r.entry = patch.entry /\ r.schedule = patch.schedule
      BY <2>5, <2>6, BodyReads DEF Aside
    <3>2. Sound(r)
      BY <2>1, <3>1, ReadingSound, TablesAssumption
    <3>3. /\ EntryOK(r.entry) /\ r.schedule \in Schedules
          /\ r.entry.account = rule.entry.account /\ r.entry.to = rule.entry.to
      BY <2>3, <2>5, <3>1, PatchedOK DEF RuleOK
    <3>4. Alone => EntryBacked(r.entry)
      BY <2>4, <3>3 DEF EntryBacked
    <3>5. rule.sub # None => r.entry = rule.entry /\ r.schedule = rule.schedule
      BY <2>5, <3>1
    <3> QED BY <3>1, <3>2, <3>3, <3>4, <3>5
            DEF rule, Reading, Sound, ReadOK, RequestOK, Valid, EntryOps, Linking
  <2> QED BY <1>2, <2>2, <2>6, OpensBegun DEF BeginUpdateRule
<1>3. CASE BeginSetRuleStatus(c)
  <2>1. ASSUME NEW i \in Changeable("rule"), db.rule[i].status # "ended",
               NEW status \in RuleStatus,
               NEW r, r = [op |-> "set_rule_status"] & ([status |-> status] & Change("rule", i))
        PROVE  ReadOK(r)
    <3>1. Reading(r, "set_rule_status", "rule", i) /\ r.status = status
      BY <2>1, BodyReads DEF Aside
    <3>2. Sound(r)
      BY <3>1, ReadingSound, TablesAssumption
    <3> QED BY <2>1, <3>1, <3>2 DEF Reading, Sound, ReadOK, RequestOK, Valid, EntryOps, Linking
  <2>2. PICK i \in {j \in Changeable("rule") : db.rule[j].status # "ended"},
             status \in RuleStatus :
          Opens(c, "set_rule_status", [status |-> status] & Change("rule", i))
    BY <1>3, SMTT(30) DEF BeginSetRuleStatus, Reads
  <2> QED BY <1>3, <2>1, <2>2, OpensBegun DEF BeginSetRuleStatus
<1>4. CASE BeginDeleteRule(c)
  <2>1. "delete_rule" \in PlainOps /\ "rule" \in DOMAIN Ids
    BY TablesAssumption DEF PlainOps
  <2>2. \A i \in Changeable("rule") : ReadOK([op |-> "delete_rule"] & Change("rule", i))
    BY <2>1, PlainBegun
  <2> QED BY <1>4, <2>2, ReadsBegun DEF BeginDeleteRule
<1> QED BY <1>1, <1>2, <1>3, <1>4

LEMMA GenerateBegun ==
  ASSUME TypesInv, AloneInv, NEW c \in Clients, BeginGenerate(c)
  PROVE  \E r : Begun(c, r)
<1>1. PICK i \in {j \in Live("rule") : Generates(j)} :
        \E window \in {w \in Windows : Cardinality(Source(db.rule[i]).schedule \cap w) <= Limit} :
          Opens(c, "generate",
                [plans |-> NewPlans(i, window)] & Claiming("plan", Keys(NewPlans(i, window))))
  BY DEF BeginGenerate, Reads
<1>2. PICK window \in Windows :
        Opens(c, "generate",
              [plans |-> NewPlans(i, window)] & Claiming("plan", Keys(NewPlans(i, window))))
  BY <1>1
<1> DEFINE rule == db.rule[i]
           source == Source(rule)
<1>3. RuleOK(rule) /\ (Alone => EntryBacked(rule.entry)) /\ i \in Ids["rule"]
  BY <1>1, LiveOK, TablesAssumption DEF Shaped, AloneInv, BackedInv, Backed
<1>4. /\ EntryOK(source.entry) /\ source.schedule \in Schedules
      /\ Alone => EntryBacked(source.entry)
  <2>1. CASE rule.sub = None
    <3>1. source.entry = rule.entry /\ source.schedule = rule.schedule
      BY <2>1 DEF Source
    <3> QED BY <1>3, <3>1 DEF RuleOK
  <2>2. CASE rule.sub # None
    <3>1. rule.sub \in Live("sub")
      BY <1>1, <2>2 DEF Generates
    <3>2. SubOK(db.sub[rule.sub]) /\ (Alone => db.sub[rule.sub].account \in Live("account"))
      BY <3>1, LiveOK, TablesAssumption DEF Shaped, AloneInv, BackedInv, Backed
    <3>3. /\ source.entry = SubscriptionEntry(db.sub[rule.sub])
          /\ source.schedule = db.sub[rule.sub].schedule
      BY <2>2 DEF Source
    <3> QED BY <3>2, <3>3, DictatedOK DEF SubOK
  <2> QED BY <2>1, <2>2
<1> HIDE DEF source
<1>5. ASSUME NEW p \in NewPlans(i, window)
      PROVE  /\ PlanOK(p) /\ p.entry = source.entry
             /\ \E due \in Times \ ExistingOccurrences(i) : p.held = {Occurrence(i, due)}
  <2>1. PICK due \in (source.schedule \cap window) \ ExistingOccurrences(i) :
          p = PlanRow(source.entry, due, i, rule.sub) & [held |-> {Occurrence(i, due)}]
    BY DEF NewPlans, source
  <2>2. due \in Times
    BY <1>4, <2>1, RecurringAssumption
  <2>3. /\ DOMAIN p = {"entry", "due", "born", "rule", "sub", "status", "actual", "held"}
        /\ p.entry = source.entry /\ p.due = due /\ p.born = due /\ p.rule = i
        /\ p.sub = rule.sub /\ p.status = "planned" /\ p.actual = None
        /\ p.held = {Occurrence(i, due)}
    BY <2>1 DEF PlanRow, &
  <2>4. rule.sub \in Field(Ids["sub"])
    BY <1>3 DEF RuleOK
  <2>5. PlanOK(p)
    BY <1>3, <1>4, <2>2, <2>3, <2>4 DEF PlanOK, Field
  <2> QED BY <2>1, <2>2, <2>3, <2>5
<1>6. ASSUME NEW r, r = [op |-> "generate"] &
               ([plans |-> NewPlans(i, window)] & Claiming("plan", Keys(NewPlans(i, window))))
      PROVE  ReadOK(r)
  <2>1. /\ r.op = "generate" /\ r.table = "plan" /\ r.id = None
        /\ r.plans = NewPlans(i, window) /\ r.held = Keys(NewPlans(i, window)) /\ r.adds = {}
    BY <1>6 DEF &, Claiming, Creation
  <2>2. \A v \in r.held : \E due \in Times \ ExistingOccurrences(i) : v = Occurrence(i, due)
    BY <1>5, <2>1 DEF Keys
  <2>3. \A v \in r.held : v[1] = "plan"
    BY <2>2 DEF Occurrence
  <2>4. \A p \in Ids["plan"] : db["plan"][p].held \cap r.held = {}
    BY <2>2 DEF ExistingOccurrences
  <2>5. Sound(r)
    BY <2>1, <2>3, <2>4, ClaimSound, TablesAssumption DEF Stale
  <2>6. \A p \in r.plans : PlanOK(p) /\ (Alone => EntryBacked(p.entry))
    BY <1>4, <1>5, <2>1
  <2> QED BY <2>1, <2>5, <2>6 DEF Sound, ReadOK, RequestOK, Valid, EntryOps, Linking
<1> QED BY <1>2, <1>6, OpensBegun DEF BeginGenerate

LEMMA SubscriptionBegun ==
  ASSUME TypesInv, AloneInv, NEW c \in Clients,
         \/ BeginCreateSubscription(c) \/ BeginUpdateSubscription(c)
         \/ BeginDeleteSubscription(c)
  PROVE  \E r : Begun(c, r)
<1>1. CASE BeginCreateSubscription(c)
  <2>1. PICK a \in {b \in Live("account") : Free("sub") # {}},
             k \in {l \in Field(Live("category")) : l # None => Kind[l] = "expense"},
             price \in Prices, schedule \in Schedules :
          Opens(c, "create_sub",
                [account |-> a, category |-> k, amount |-> price, schedule |-> schedule]
                  & Creation("sub"))
    BY <1>1 DEF BeginCreateSubscription, Reads
  <2>2. ASSUME NEW r, r = [op |-> "create_sub"] &
                 ([account |-> a, category |-> k, amount |-> price, schedule |-> schedule]
                    & Creation("sub"))
        PROVE  ReadOK(r)
    <3>1. /\ Creating(r, "create_sub", "sub")
          /\ r.account = a /\ r.category = k /\ r.schedule = schedule
      BY <2>2, BodyReads DEF Aside
    <3>2. Sound(r)
      BY <3>1, CreatingSound
    <3>3. a \in Live("account") /\ a \in Ids["account"] /\ k \in Field(Ids["category"])
      BY <2>1 DEF Live, Field
    <3> QED BY <3>1, <3>2, <3>3 DEF Creating, Sound, ReadOK, RequestOK, Valid, EntryOps, Linking
  <2> QED BY <1>1, <2>1, <2>2, OpensBegun DEF BeginCreateSubscription
<1>2. CASE BeginUpdateSubscription(c)
  <2>1. PICK i \in Changeable("sub") :
          \E sub \in {t \in SubscriptionPatches(db.sub[i]) :
                       ValidSubscriptionRow(t.account, t.category)} :
            Opens(c, "update_sub",
                  [settings |-> Settings(sub), old |-> db.sub[i].amount] & Change("sub", i))
    BY <1>2 DEF BeginUpdateSubscription, Reads
  <2>2. PICK sub \in SubscriptionPatches(db.sub[i]) :
          Opens(c, "update_sub",
                [settings |-> Settings(sub), old |-> db.sub[i].amount] & Change("sub", i))
    BY <2>1
  <2>3. SubOK(sub)
    <3> DEFINE row == db.sub[i]
    <3>1. SubOK(row)
      BY ChangeableOK, TablesAssumption DEF Shaped
    <3>2. \/ \E price \in Prices : sub = [row EXCEPT !.amount = price]
          \/ \E k \in Field(Ids["category"]) : sub = [row EXCEPT !.category = k]
          \/ \E schedule \in Schedules : sub = [row EXCEPT !.schedule = schedule]
          \/ \E status \in SubscriptionStatus : sub = [row EXCEPT !.status = status]
      BY <2>2, Zenon DEF SubscriptionPatches
    <3> HIDE DEF row
    <3> QED BY <3>1, <3>2 DEF SubOK
  <2>4. ASSUME NEW r, r = [op |-> "update_sub"] &
                 ([settings |-> Settings(sub), old |-> db.sub[i].amount] & Change("sub", i))
        PROVE  ReadOK(r)
    <3>1. Reading(r, "update_sub", "sub", i) /\ r.settings = Settings(sub)
      BY <2>4, BodyReads DEF Aside
    <3>2. Sound(r)
      BY <3>1, ReadingSound, TablesAssumption
    <3>3. /\ r.settings.category \in Field(Ids["category"])
          /\ r.settings.schedule \in Schedules /\ r.settings.status \in SubscriptionStatus
      BY <2>3, <3>1 DEF Settings, SubOK
    <3> QED BY <3>1, <3>2, <3>3 DEF Reading, Sound, ReadOK, RequestOK, Valid, EntryOps, Linking
  <2> QED BY <1>2, <2>2, <2>4, OpensBegun DEF BeginUpdateSubscription
<1>3. CASE BeginDeleteSubscription(c)
  <2>1. "delete_sub" \in PlainOps /\ "sub" \in DOMAIN Ids
    BY TablesAssumption DEF PlainOps
  <2>2. \A i \in Changeable("sub") : ReadOK([op |-> "delete_sub"] & Change("sub", i))
    BY <2>1, PlainBegun
  <2> QED BY <1>3, <2>2, ReadsBegun DEF BeginDeleteSubscription
<1> QED BY <1>1, <1>2, <1>3

LEMMA SavingBegun ==
  ASSUME TypesInv, AloneInv, NEW c \in Clients,
         \/ BeginCreateSaving(c) \/ BeginUpdateSaving(c) \/ BeginContribute(c)
         \/ BeginDeleteSaving(c)
  PROVE  \E r : Begun(c, r)
<1>1. CASE BeginCreateSaving(c)
  <2>1. PICK a \in {b \in Field(Ids["account"]) : Free("saving") # {} /\ ValidSavingsAccount(b)},
             target \in Targets :
          Opens(c, "create_saving", [account |-> a, target |-> target] & Creation("saving"))
    BY <1>1, SMTT(90) DEF BeginCreateSaving, Reads
  <2>2. ASSUME NEW r, r = [op |-> "create_saving"] &
                            ([account |-> a, target |-> target] & Creation("saving"))
        PROVE  ReadOK(r)
    <3>1. Creating(r, "create_saving", "saving") /\ r.account = a /\ r.target = target
      BY <2>2, BodyReads DEF Aside
    <3>2. Sound(r)
      BY <3>1, CreatingSound
    <3>3. a \in Field(Ids["account"]) /\ a \in Field(Live("account"))
      BY <2>1 DEF ValidSavingsAccount, Field
    <3> QED BY <3>1, <3>2, <3>3 DEF Creating, Sound, ReadOK, RequestOK, Valid, EntryOps, Linking
  <2> QED BY <1>1, <2>1, <2>2, OpensBegun DEF BeginCreateSaving
<1>2. CASE BeginUpdateSaving(c)
  <2>1. PICK i \in Changeable("saving") :
          \E goal \in {p \in SavingPatches(db.saving[i]) : ValidSavingsAccount(p.account)} :
            Opens(c, "update_saving", [goal |-> goal] & Change("saving", i))
    BY <1>2 DEF BeginUpdateSaving, Reads
  <2>2. PICK goal \in {p \in SavingPatches(db.saving[i]) : ValidSavingsAccount(p.account)} :
          Opens(c, "update_saving", [goal |-> goal] & Change("saving", i))
    BY <2>1
  <2>3. SavingOK(goal)
    <3> DEFINE row == db.saving[i]
    <3>1. SavingOK(row)
      BY ChangeableOK, TablesAssumption DEF Shaped
    <3>2. \/ \E a \in Field(Ids["account"]) : goal = [row EXCEPT !.account = a]
          \/ \E target \in Targets : goal = [row EXCEPT !.target = target]
          \/ \E n \in Contributions : goal = [row EXCEPT !.current = n, !.set = n, !.given = 0]
          \/ \E status \in GoalStatus : goal = [row EXCEPT !.status = status]
      BY <2>2, Zenon DEF SavingPatches
    <3> HIDE DEF row
    <3> QED BY <3>1, <3>2, GoalsAssumption DEF SavingOK
  <2>4. goal.account \in Field(Live("account"))
    BY <2>2 DEF ValidSavingsAccount, Field
  <2>5. ASSUME NEW r, r = [op |-> "update_saving"] & ([goal |-> goal] & Change("saving", i))
        PROVE  ReadOK(r)
    <3>1. Reading(r, "update_saving", "saving", i) /\ r.goal = goal
      BY <2>5, BodyReads DEF Aside
    <3>2. Sound(r)
      BY <3>1, ReadingSound, TablesAssumption
    <3> QED BY <2>3, <2>4, <3>1, <3>2
            DEF Reading, Sound, ReadOK, RequestOK, Valid, EntryOps, Linking
  <2> QED BY <1>2, <2>2, <2>5, OpensBegun DEF BeginUpdateSaving
<1>3. CASE BeginContribute(c)
  <2>1. PICK i \in Changeable("saving") :
          \E n \in {m \in Contributions : db.saving[i].current + m <= MaxSaved} :
            Opens(c, "contribute",
                  [goal |-> Contributed(db.saving[i], n), amount |-> n] & Change("saving", i))
    BY <1>3 DEF BeginContribute, Reads
  <2>2. PICK n \in {m \in Contributions : db.saving[i].current + m <= MaxSaved} :
          Opens(c, "contribute",
                [goal |-> Contributed(db.saving[i], n), amount |-> n] & Change("saving", i))
    BY <2>1
  <2> DEFINE row == db.saving[i]
             goal == Contributed(row, n)
  <2>3. SavingOK(row) /\ AddsUp(row)
    BY ChangeableOK, TablesAssumption DEF Shaped, TypesInv, RecordsInv, SavingsInv
  <2>4. /\ goal.current = row.current + n
        /\ goal.status = IF row.current + n >= row.target THEN "completed" ELSE row.status
    BY <2>3 DEF Contributed, SavingOK, AddsUp
  <2>5. goal.current \in 0 .. MaxSaved /\ goal.status \in GoalStatus
    <3>1. n \in Nat /\ row.current \in Nat /\ row.current + n <= MaxSaved
      BY <2>2, <2>3, GoalsAssumption DEF SavingOK
    <3>2. row.status \in GoalStatus
      BY <2>3 DEF SavingOK
    <3> HIDE DEF goal, row
    <3> QED BY <2>4, <3>1, <3>2, GoalsAssumption DEF GoalStatus
  <2> HIDE DEF goal
  <2>6. ASSUME NEW r, r = [op |-> "contribute"] &
                            ([goal |-> goal, amount |-> n] & Change("saving", i))
        PROVE  ReadOK(r)
    <3>1. Reading(r, "contribute", "saving", i) /\ r.goal = goal
      BY <2>6, BodyReads DEF Aside
    <3>2. Sound(r)
      BY <3>1, ReadingSound, TablesAssumption
    <3> QED BY <2>5, <3>1, <3>2 DEF Reading, Sound, ReadOK, RequestOK, Valid, EntryOps, Linking
  <2> QED BY <1>3, <2>2, <2>6, OpensBegun DEF BeginContribute, goal
<1>4. CASE BeginDeleteSaving(c)
  <2>1. \A i \in Changeable("saving") :
          ReadOK([op |-> "delete_saving"] &
                   [Change("saving", i) EXCEPT !.drops = LinksOf("commitment", <<"saving", i>>)])
    BY DeletionReads, TablesAssumption DEF Deletions
  <2>2. PICK i \in Changeable("saving") :
          Opens(c, "delete_saving",
                [Change("saving", i) EXCEPT !.drops = LinksOf("commitment", <<"saving", i>>)])
    BY <1>4, Zenon DEF BeginDeleteSaving, Reads
  <2> QED BY <1>4, <2>1, <2>2, OpensBegun DEF BeginDeleteSaving
<1> QED BY <1>1, <1>2, <1>3, <1>4

LEMMA GoalBegun ==
  ASSUME TypesInv, NEW c \in Clients,
         BeginCreateGoal(c) \/ BeginUpdateGoal(c) \/ BeginDeleteGoal(c)
  PROVE  \E r : Begun(c, r)
<1>1. CASE BeginCreateGoal(c)
  <2>1. PICK p \in {q \in Progress : Free("goal") # {}}, status \in GoalStatus :
          Opens(c, "create_goal", [progress |-> p, status |-> status] & Creation("goal"))
    BY <1>1, SMTT(30) DEF BeginCreateGoal, Reads
  <2>2. ASSUME NEW r, r = [op |-> "create_goal"] &
                            ([progress |-> p, status |-> status] & Creation("goal"))
        PROVE  ReadOK(r)
    <3>1. Creating(r, "create_goal", "goal") /\ r.progress = p /\ r.status = status
      BY <2>2, BodyReads DEF Aside
    <3>2. Sound(r)
      BY <3>1, CreatingSound
    <3>3. p \in Progress
      BY <2>1
    <3> QED BY <3>1, <3>2, <3>3 DEF Creating, Sound, ReadOK, RequestOK, Valid, EntryOps, Linking
  <2> QED BY <1>1, <2>1, <2>2, OpensBegun DEF BeginCreateGoal
<1>2. CASE BeginUpdateGoal(c)
  <2>1. PICK i \in Changeable("goal") :
          \E patch \in GoalPatches(db.goal[i]) :
            Opens(c, "update_goal", [goal |-> patch] & Change("goal", i))
    BY <1>2 DEF BeginUpdateGoal, Reads
  <2>2. PICK patch \in GoalPatches(db.goal[i]) :
          Opens(c, "update_goal", [goal |-> patch] & Change("goal", i))
    BY <2>1
  <2>3. GoalOK(patch)
    <3>1. db.goal[i].status \in GoalStatus
      BY ChangeableOK, TablesAssumption DEF Shaped, GoalOK
    <3> QED BY <2>2, <3>1 DEF GoalPatches, GoalOK, GoalStatus
  <2>4. ASSUME NEW r, r = [op |-> "update_goal"] & ([goal |-> patch] & Change("goal", i))
        PROVE  ReadOK(r)
    <3>1. Reading(r, "update_goal", "goal", i) /\ r.goal = patch
      BY <2>4, BodyReads DEF Aside
    <3>2. Sound(r)
      BY <3>1, ReadingSound, TablesAssumption
    <3> QED BY <2>3, <3>1, <3>2 DEF Reading, Sound, ReadOK, RequestOK, Valid, EntryOps, Linking
  <2> QED BY <1>2, <2>2, <2>4, OpensBegun DEF BeginUpdateGoal
<1>3. CASE BeginDeleteGoal(c)
  <2>1. \A i \in Changeable("goal") :
          ReadOK([op |-> "delete_goal"] &
                   [Change("goal", i) EXCEPT !.drops = LinksOf("commitment", <<"goal", i>>)])
    BY DeletionReads, TablesAssumption DEF Deletions
  <2>2. PICK i \in Changeable("goal") :
          Opens(c, "delete_goal",
                [Change("goal", i) EXCEPT !.drops = LinksOf("commitment", <<"goal", i>>)])
    BY <1>3, Zenon DEF BeginDeleteGoal, Reads
  <2> QED BY <1>3, <2>1, <2>2, OpensBegun DEF BeginDeleteGoal
<1> QED BY <1>1, <1>2, <1>3

LEMMA BudgetBegun ==
  ASSUME TypesInv, NEW c \in Clients,
         BeginCreateBudget(c) \/ BeginUpdateBudget(c) \/ BeginDeleteBudget(c)
  PROVE  \E r : Begun(c, r)
<1>1. CASE BeginCreateBudget(c)
  <2>1. ASSUME NEW limits \in SUBSET Ids["category"],
               NEW r, r = [op |-> "create_budget"] & ([limits |-> limits] & Creation("budget"))
        PROVE  ReadOK(r)
    <3>1. Creating(r, "create_budget", "budget") /\ r.limits = limits
      BY <2>1, BodyReads DEF Aside
    <3>2. Sound(r)
      BY <3>1, CreatingSound
    <3> QED BY <3>1, <3>2 DEF Creating, Sound, ReadOK, RequestOK, Valid, EntryOps, Linking
  <2>2. \E limits \in SUBSET Ids["category"] :
          Opens(c, "create_budget", [limits |-> limits] & Creation("budget"))
    BY <1>1, Zenon DEF BeginCreateBudget, Reads
  <2> QED BY <1>1, <2>1, <2>2, OpensBegun DEF BeginCreateBudget
<1>2. CASE BeginUpdateBudget(c)
  <2>1. PICK i \in Changeable("budget") :
          \E patch \in BudgetPatches(i) : Opens(c, "update_budget", patch)
    BY <1>2 DEF BeginUpdateBudget, Reads
  <2>2. PICK patch \in BudgetPatches(i) : Opens(c, "update_budget", patch)
    BY <2>1
  <2>3. ASSUME NEW r, r = [op |-> "update_budget"] & patch
        PROVE  ReadOK(r)
    <3>1. \/ patch = [replaces |-> FALSE] & Change("budget", i)
          \/ \E categories \in SUBSET Ids["category"] :
               patch = [replaces |-> TRUE] &
                         [Change("budget", i) EXCEPT !.adds = Limits(i, categories)]
      BY <2>2, Zenon DEF BudgetPatches
    <3>2. /\ r.op = "update_budget" /\ r.table = "budget" /\ r.id = i
          /\ r.rev = db.budget[i].rev /\ r.held = db.budget[i].held
          /\ r.adds = {} \/ \E categories \in SUBSET Ids["category"] :
                              r.adds = Limits(i, categories)
      BY <2>3, <3>1 DEF Change, Creation, &
    <3>3. \A l \in r.adds : LinkOK(l) /\ l[1] = "limit"
      BY <3>2 DEF Limits, LinkOK
    <3>4. Sound(r)
      BY <3>2, <3>3, ChangeSound, TablesAssumption
    <3> QED BY <3>2, <3>3, <3>4 DEF Sound, ReadOK, RequestOK, Valid, EntryOps, Linking
  <2> QED BY <1>2, <2>2, <2>3, OpensBegun DEF BeginUpdateBudget
<1>3. CASE BeginDeleteBudget(c)
  <2>1. \A i \in Changeable("budget") :
          ReadOK([op |-> "delete_budget"] &
                   [Change("budget", i) EXCEPT !.drops = LinksOf("commitment", <<"budget", i>>)])
    BY DeletionReads, TablesAssumption DEF Deletions
  <2>2. PICK i \in Changeable("budget") :
          Opens(c, "delete_budget",
                [Change("budget", i) EXCEPT !.drops = LinksOf("commitment", <<"budget", i>>)])
    BY <1>3, Zenon DEF BeginDeleteBudget, Reads
  <2> QED BY <1>3, <2>1, <2>2, OpensBegun DEF BeginDeleteBudget
<1> QED BY <1>1, <1>2, <1>3

\* The links that a body gives a note.
LEMMA NoteLinksOK ==
  ASSUME NEW body, LinksBodyOK(body), NEW n \in Ids["note"]
  PROVE  \A l \in NoteLinks(n, body) :
           /\ LinkOK(l)
           /\ l[1] \in {"tag", "entity", "commitment"}
           /\ l[1] = "entity" => l[2] = n
           /\ l[1] = "commitment" => l[3] = <<"note", n>> /\ <<"commitment", l[2]>> \in Needed(body)
<1>1. ASSUME NEW t \in body.tags, NEW l, l = <<"tag", t, <<"note", n>>>>
      PROVE  LinkOK(l) /\ l[1] = "tag"
  BY <1>1 DEF LinkOK
<1>2. ASSUME NEW e \in body.entities, NEW l, l = <<"entity", n, e>>
      PROVE  LinkOK(l) /\ l[1] = "entity" /\ l[2] = n
  <2>1. PICK t : e \in {t} \X Ids[t]
    BY DEF LinksBodyOK, RecordsOf
  <2>2. e = <<e[1], e[2]>> /\ e[2] \in Ids[e[1]]
    BY <2>1
  <2> QED BY <1>2, <2>2 DEF LinkOK
<1>3. ASSUME NEW k \in body.commitments, NEW l, l = <<"commitment", k, <<"note", n>>>>
      PROVE  /\ LinkOK(l) /\ l[1] = "commitment" /\ l[3] = <<"note", n>>
             /\ <<"commitment", l[2]>> \in Needed(body)
  <2>1. LinkOK(l) /\ l[1] = "commitment" /\ l[2] = k /\ l[3] = <<"note", n>>
    BY <1>3 DEF LinkOK, TargetModels
  <2> QED BY <2>1 DEF Needed
<1>4. \A l \in NoteLinks(n, body) :
        \/ \E t \in body.tags : l = <<"tag", t, <<"note", n>>>>
        \/ \E e \in body.entities : l = <<"entity", n, e>>
        \/ \E k \in body.commitments : l = <<"commitment", k, <<"note", n>>>>
  BY DEF NoteLinks, TagLinks, EntityLinks, CommitmentLinks
<1>5. ASSUME NEW l \in NoteLinks(n, body)
      PROVE  /\ LinkOK(l)
             /\ l[1] \in {"tag", "entity", "commitment"}
             /\ l[1] = "entity" => l[2] = n
             /\ l[1] = "commitment" =>
                  l[3] = <<"note", n>> /\ <<"commitment", l[2]>> \in Needed(body)
  <2>1. CASE \E t \in body.tags : l = <<"tag", t, <<"note", n>>>>
    BY <1>1, <2>1
  <2>2. CASE \E e \in body.entities : l = <<"entity", n, e>>
    BY <1>2, <2>2
  <2>3. CASE \E k \in body.commitments : l = <<"commitment", k, <<"note", n>>>>
    BY <1>3, <2>3
  <2> QED BY <1>4, <2>1, <2>2, <2>3
<1> QED BY <1>5

LEMMA BodiesOK ==
  ASSUME NEW body \in NoteLinksBodies
  PROVE  LinksBodyOK(body)
BY DEF NoteLinksBodies, LinksBodyOK, Small

\* A date that no active note has, no note has.
LEMMA DateSound ==
  ASSUME TypesInv, NEW date, NEW except, DateFree(date, except), NEW r,
         r.table = "note", ~Stale(r), r.id = except, r.held = Daily(date), r.adds = {}
  PROVE  Sound(r)
<1>1. ASSUME NEW n \in Ids["note"] \ {except}
      PROVE  db["note"][n].held \cap r.held = {}
  <2>1. RowOK("note", db["note"][n])
    BY TablesAssumption DEF TypesInv, RowsInv
  <2> QED BY <2>1 DEF DateFree, RowOK, Live
<1>2. \A v \in r.held : v[1] = "note"
  BY DEF Daily
<1> QED BY <1>1, <1>2, ClaimSound, TablesAssumption

LEMMA NoteBegun ==
  ASSUME TypesInv, NEW c \in Clients, BeginCreateNote(c) \/ BeginUpdateNote(c) \/ BeginDeleteNote(c)
  PROVE  \E r : Begun(c, r)
<1>1. CASE BeginCreateNote(c)
  <2>1. PICK body \in NoteLinksBodies,
             date \in {d \in Field(Dates) : Free("note") # {} /\ DateFree(d, None)} :
          Opens(c, "create_note", NoteCreation(body, date))
    BY <1>1, SMTT(30) DEF BeginCreateNote, Reads
  <2>2. ASSUME NEW r, r = [op |-> "create_note"] & NoteCreation(body, date)
        PROVE  ReadOK(r)
    <3>1. /\ r.op = "create_note" /\ r.table = "note" /\ r.id = None
          /\ r.held = Daily(date) /\ r.needs = Needed(body) /\ r.adds = {}
          /\ r.body = body /\ r.date = date
      BY <2>2 DEF NoteCreation, Creation, &
    <3>2. Sound(r)
      BY <2>1, <3>1, DateSound DEF Stale
    <3>3. LinksBodyOK(body)
      BY BodiesOK
    <3> QED BY <3>1, <3>2, <3>3 DEF Sound, ReadOK, RequestOK, Valid, EntryOps, Linking
  <2> QED BY <1>1, <2>1, <2>2, OpensBegun DEF BeginCreateNote
<1>2. CASE BeginUpdateNote(c)
  <2>1. PICK n \in Changeable("note") :
          \E patch \in NotePatches(n) : Opens(c, "update_note", patch)
    BY <1>2 DEF BeginUpdateNote, Reads
  <2>2. PICK patch \in NotePatches(n) : Opens(c, "update_note", patch)
    BY <2>1
  <2>3. /\ n \in Ids["note"] /\ n \in Live("note") /\ RowOK("note", db["note"][n])
        /\ db["note"][n].held \subseteq Daily(db["note"][n].date)
    BY ChangeableOK, TablesAssumption DEF RowOK
  <2>4. ASSUME NEW date, DateFree(date, n),
               patch = [kinds |-> {}, date |-> date] &
                         [Change("note", n) EXCEPT !.held = Daily(date)],
               NEW r, r = [op |-> "update_note"] & patch
        PROVE  ReadOK(r)
    <3>1. /\ r.op = "update_note" /\ r.table = "note" /\ r.id = n /\ r.rev = db["note"][n].rev
          /\ r.held = Daily(date) /\ r.date = date /\ r.adds = {}
      BY <2>4 DEF Change, Creation, &
    <3>2. ~Stale(r)
      BY <2>3, <3>1 DEF Stale, Live
    <3>3. Sound(r)
      BY <2>4, <3>1, <3>2, DateSound
    <3> QED BY <3>1, <3>3 DEF Sound, ReadOK, RequestOK, NoteAdds, Valid, EntryOps, Linking
  <2>5. ASSUME NEW kinds, NEW body \in NoteLinksBodies,
               patch = [kinds |-> kinds, date |-> db.note[n].date] &
                         [Change("note", n) EXCEPT !.needs = Needed(body),
                                                   !.adds = NoteLinks(n, body)],
               NEW r, r = [op |-> "update_note"] & patch
        PROVE  ReadOK(r)
    <3>1. /\ r.op = "update_note" /\ r.table = "note" /\ r.id = n /\ r.rev = db["note"][n].rev
          /\ r.held = db["note"][n].held /\ r.date = db["note"][n].date
          /\ r.needs = Needed(body) /\ r.adds = NoteLinks(n, body)
      BY <2>5 DEF Change, Creation, &
    <3>2. NoteAdds(r) /\ \A l \in r.adds : LinkOK(l)
      <4>1. LinksBodyOK(body)
        BY BodiesOK
      <4>2. \A l \in NoteLinks(n, body) :
              /\ LinkOK(l)
              /\ l[1] \in {"tag", "entity", "commitment"}
              /\ l[1] = "entity" => l[2] = n
              /\ l[1] = "commitment" =>
                   l[3] = <<"note", n>> /\ <<"commitment", l[2]>> \in Needed(body)
        BY <2>3, <4>1, NoteLinksOK
      <4> QED BY <3>1, <4>2, Zenon DEF NoteAdds
    <3>3. Sound(r)
      BY <3>1, <3>2, ChangeSound, TablesAssumption
    <3> QED BY <2>3, <3>1, <3>2, <3>3 DEF Sound, ReadOK, RequestOK, Valid, EntryOps, Linking
  <2>6. \/ \E date : /\ DateFree(date, n)
                     /\ patch = [kinds |-> {}, date |-> date] &
                                  [Change("note", n) EXCEPT !.held = Daily(date)]
        \/ \E kinds : \E body \in NoteLinksBodies :
             patch = [kinds |-> kinds, date |-> db.note[n].date] &
                       [Change("note", n) EXCEPT !.needs = Needed(body),
                                                 !.adds = NoteLinks(n, body)]
    BY <2>2, Zenon DEF NotePatches
  <2>7. ReadOK([op |-> "update_note"] & patch)
    BY <2>4, <2>5, <2>6
  <2> QED BY <1>2, <2>2, <2>7, OpensBegun DEF BeginUpdateNote
<1>3. CASE BeginDeleteNote(c)
  <2>1. PICK n \in Changeable("note") :
          Opens(c, "delete_note",
                [Change("note", n) EXCEPT !.held = {}, !.drops = LinksWith(n)])
    BY <1>3, Zenon DEF BeginDeleteNote, Reads
  <2>2. ASSUME NEW r, r = [op |-> "delete_note"] &
                            [Change("note", n) EXCEPT !.held = {}, !.drops = LinksWith(n)]
        PROVE  ReadOK(r)
    <3>1. /\ r.op = "delete_note" /\ r.table = "note" /\ r.id = n /\ r.rev = db["note"][n].rev
          /\ r.held = {} /\ r.adds = {} /\ r.drops = LinksWith(n)
      BY <2>2 DEF Change, Creation, &
    <3>2. n \in Live("note")
      BY <2>1, ChangeableOK, TablesAssumption
    <3>3. Sound(r)
      BY <3>1, <3>2 DEF Sound, Stale, Collides, Live
    <3> QED BY <3>1, <3>3 DEF Sound, ReadOK, RequestOK, Valid, EntryOps, Linking
  <2> QED BY <1>3, <2>1, <2>2, OpensBegun DEF BeginDeleteNote
<1> QED BY <1>1, <1>2, <1>3

\* What a request that writes link rows only goes on with.
LEMMA LinkReads ==
  ASSUME NEW op, NEW l
  PROVE  /\ LET r == [op |-> op] & [LinkChange EXCEPT !.adds = {l}]
            IN /\ r.op = op /\ r.id = None /\ r.held = {} /\ r.adds = {l}
               /\ LinkOK(l) => Sound(r)
         /\ LET r == [op |-> op] & [LinkChange EXCEPT !.drops = {l}]
            IN r.op = op /\ r.adds = {} /\ Sound(r)
<1>1. ASSUME NEW r, r = [op |-> op] & [LinkChange EXCEPT !.adds = {l}]
      PROVE  r.op = op /\ r.id = None /\ r.held = {} /\ r.adds = {l}
  BY <1>1 DEF LinkChange, Creation, &
<1>2. ASSUME NEW r, r = [op |-> op] & [LinkChange EXCEPT !.drops = {l}]
      PROVE  r.op = op /\ r.id = None /\ r.held = {} /\ r.adds = {}
  BY <1>2 DEF LinkChange, Creation, &
<1>3. \A r : r.id = None /\ r.held = {} /\ (\A k \in r.adds : LinkOK(k)) => Sound(r)
  BY DEF Sound, Stale, Collides
<1> QED BY <1>1, <1>2, <1>3

LEMMA LinkBegun ==
  ASSUME TypesInv, NEW c \in Clients,
         \/ BeginAddNoteLink(c) \/ BeginRemoveNoteLink(c)
         \/ BeginAddCommitmentLink(c) \/ BeginRemoveCommitmentLink(c)
         \/ BeginCreateTag(c) \/ BeginDeleteTag(c)
  PROVE  \E r : Begun(c, r)
<1>1. CASE BeginAddNoteLink(c)
  <2>1. ASSUME NEW n \in Live("note"), NEW m \in Live("note"),
               NEW l, l = <<"note", n, <<"note", m>>>>
        PROVE  ReadOK([op |-> "add_note_link"] & [LinkChange EXCEPT !.adds = {l}])
    <3>1. LinkOK(l) /\ Leads(l)
      BY <2>1 DEF LinkOK, Leads, Live
    <3>2. ASSUME NEW r, r = [op |-> "add_note_link"] & [LinkChange EXCEPT !.adds = {l}]
          PROVE  ReadOK(r)
      <4>1. r.op = "add_note_link" /\ r.adds = {l} /\ Sound(r)
        BY <3>1, <3>2, LinkReads
      <4> QED BY <3>1, <4>1 DEF Sound, ReadOK, RequestOK, Valid, EntryOps, Linking
    <3> QED BY <3>2
  <2>2. PICK p \in Live("note") \X Live("note") :
          Opens(c, "add_note_link",
                [LinkChange EXCEPT !.adds = {<<"note", p[1], <<"note", p[2]>>>>}])
    BY <1>1, Zenon DEF BeginAddNoteLink, Reads
  <2>3. p[1] \in Live("note") /\ p[2] \in Live("note")
    BY <2>2
  <2> QED BY <1>1, <2>1, <2>2, <2>3, OpensBegun DEF BeginAddNoteLink
<1>2. ASSUME NEW op \in {"remove_note_link", "remove_commitment_link"}, NEW l
      PROVE  ReadOK([op |-> op] & [LinkChange EXCEPT !.drops = {l}])
  <2>1. ASSUME NEW r, r = [op |-> op] & [LinkChange EXCEPT !.drops = {l}]
        PROVE  ReadOK(r)
    <3>1. r.op = op /\ r.adds = {} /\ Sound(r)
      BY <2>1, LinkReads
    <3>2. r.op \in PlainOps
      BY <3>1 DEF PlainOps
    <3> QED BY <3>1, <3>2, PlainReadOK
  <2> QED BY <2>1
<1>3. CASE BeginRemoveNoteLink(c)
  <2>1. PICK l : Opens(c, "remove_note_link", [LinkChange EXCEPT !.drops = {l}])
    BY <1>3, Zenon DEF BeginRemoveNoteLink, Reads
  <2>2. ReadOK([op |-> "remove_note_link"] & [LinkChange EXCEPT !.drops = {l}])
    BY <1>2
  <2> QED BY <1>3, <2>1, <2>2, OpensBegun DEF BeginRemoveNoteLink
<1>4. CASE BeginAddCommitmentLink(c)
  <2>1. ASSUME NEW k \in Linkable, NEW x \in RecordsOf(TargetModels), x[2] \in Live(x[1]),
               NEW l, l = <<"commitment", k, x>>
        PROVE  ReadOK([op |-> "add_commitment_link"] & [LinkChange EXCEPT !.adds = {l}])
    <3>1. PICK t \in TargetModels : x \in {t} \X Ids[t]
      BY DEF RecordsOf
    <3>2. x = <<x[1], x[2]>> /\ x[2] \in Ids[x[1]] /\ x[1] \in TargetModels
      BY <3>1
    <3>3. LinkOK(l) /\ Leads(l)
      BY <2>1, <3>2 DEF LinkOK, Leads, Linkable
    <3>4. ASSUME NEW r, r = [op |-> "add_commitment_link"] & [LinkChange EXCEPT !.adds = {l}]
          PROVE  ReadOK(r)
      <4>1. r.op = "add_commitment_link" /\ r.adds = {l} /\ Sound(r)
        BY <3>3, <3>4, LinkReads
      <4> QED BY <3>3, <4>1 DEF Sound, ReadOK, RequestOK, Valid, EntryOps, Linking
    <3> QED BY <3>4
  <2> DEFINE S == {<<"commitment", k, x>> :
                     k \in Linkable,
                     x \in {y \in RecordsOf(TargetModels) : y[2] \in Live(y[1])}}
  <2>2. Reads(c, "add_commitment_link", {[LinkChange EXCEPT !.adds = {l}] : l \in S \ links})
    BY <1>4 DEF BeginAddCommitmentLink
  <2> HIDE DEF S
  <2>3. PICK l \in S : Opens(c, "add_commitment_link", [LinkChange EXCEPT !.adds = {l}])
    BY <2>2 DEF Reads
  <2>4. PICK k \in Linkable, x \in {y \in RecordsOf(TargetModels) : y[2] \in Live(y[1])} :
          l = <<"commitment", k, x>>
    BY <2>3, SMTT(30) DEF S
  <2>5. ReadOK([op |-> "add_commitment_link"] & [LinkChange EXCEPT !.adds = {l}])
    BY <2>1, <2>4
  <2> QED BY <2>2, <2>3, <2>5, OpensBegun
<1>5. CASE BeginRemoveCommitmentLink(c)
  <2>1. PICK l : Opens(c, "remove_commitment_link", [LinkChange EXCEPT !.drops = {l}])
    BY <1>5, Zenon DEF BeginRemoveCommitmentLink, Reads
  <2>2. ReadOK([op |-> "remove_commitment_link"] & [LinkChange EXCEPT !.drops = {l}])
    BY <1>2
  <2> QED BY <1>5, <2>1, <2>2, OpensBegun DEF BeginRemoveCommitmentLink
<1>6. CASE BeginCreateTag(c)
  <2>1. ReadOK([op |-> "create_tag"] & Creation("tag"))
    BY PlainBegun, TablesAssumption DEF PlainOps
  <2> QED BY <1>6, <2>1, ReadsBegun DEF BeginCreateTag
<1>7. CASE BeginDeleteTag(c)
  <2>1. \A i \in Changeable("tag") : ReadOK([op |-> "delete_tag"] & Change("tag", i))
    BY PlainBegun, TablesAssumption DEF PlainOps
  <2> QED BY <1>7, <2>1, ReadsBegun DEF BeginDeleteTag
<1> QED BY <1>1, <1>3, <1>4, <1>5, <1>6, <1>7

LEMMA CommitmentBegun ==
  ASSUME TypesInv, NEW c \in Clients,
         \/ BeginCreateCommitment(c) \/ BeginUpdateCommitment(c)
         \/ BeginArchiveCommitment(c) \/ BeginDeleteCommitment(c)
  PROVE  \E r : Begun(c, r)
<1>1. CASE BeginCreateCommitment(c)
  <2>1. PICK terms \in {t \in Terms : Free("commitment") # {} /\ WellShaped(t)},
             status \in Statuses :
          Opens(c, "create_commitment",
                [terms |-> terms, status |-> status] & Creation("commitment"))
    BY <1>1, SMTT(30) DEF BeginCreateCommitment, Reads
  <2>2. ASSUME NEW r, r = [op |-> "create_commitment"] &
                 ([terms |-> terms, status |-> status] & Creation("commitment"))
        PROVE  ReadOK(r)
    <3>1. Creating(r, "create_commitment", "commitment") /\ r.status = status
      BY <2>2, BodyReads DEF Aside
    <3>2. Sound(r)
      BY <3>1, CreatingSound
    <3>3. status \in CommitmentStatus
      BY CommitmentAssumption
    <3> QED BY <3>1, <3>2, <3>3 DEF Creating, Sound, ReadOK, RequestOK, Valid, EntryOps, Linking
  <2> QED BY <1>1, <2>1, <2>2, OpensBegun DEF BeginCreateCommitment
<1>2. CASE BeginUpdateCommitment(c)
  <2>1. PICK k \in {j \in Changeable("commitment") : ~Archived(j)} :
          \E patch \in {p \in CommitmentPatches(k) :
                         WellShaped(p.values & db.commitment[k].terms)} :
            Opens(c, "update_commitment", patch & Change("commitment", k))
    BY <1>2 DEF BeginUpdateCommitment, Reads
  <2>2. PICK patch \in CommitmentPatches(k) :
          Opens(c, "update_commitment", patch & Change("commitment", k))
    BY <2>1
  <2>3. DOMAIN patch = {"values", "status"} /\ patch.status \in CommitmentStatus
    <3>1. db.commitment[k].status \in CommitmentStatus
      BY <2>1, ChangeableOK, TablesAssumption DEF Shaped
    <3> QED BY <2>2, <3>1, CommitmentAssumption DEF CommitmentPatches
  <2>4. ASSUME NEW r, r = [op |-> "update_commitment"] & (patch & Change("commitment", k))
        PROVE  ReadOK(r)
    <3>1. Reading(r, "update_commitment", "commitment", k) /\ r.status = patch.status
      BY <2>3, <2>4, BodyReads DEF Aside
    <3>2. Sound(r)
      BY <2>1, <3>1, ReadingSound, TablesAssumption
    <3> QED BY <2>3, <3>1, <3>2 DEF Reading, Sound, ReadOK, RequestOK, Valid, EntryOps, Linking
  <2> QED BY <1>2, <2>2, <2>4, OpensBegun DEF BeginUpdateCommitment
<1>3. CASE BeginArchiveCommitment(c)
  <2>1. \A k \in Changeable("commitment") :
          ReadOK([op |-> "archive_commitment"] & Change("commitment", k))
    BY PlainBegun, TablesAssumption DEF PlainOps
  <2> QED BY <1>3, <2>1, ReadsBegun DEF BeginArchiveCommitment
<1>4. CASE BeginDeleteCommitment(c)
  <2>1. ASSUME NEW k \in Changeable("commitment"),
               NEW r, r = [op |-> "delete_commitment"] &
                 [Change("commitment", k) EXCEPT
                    !.drops = {l \in links : l[1] = "commitment" /\ l[2] = k}]
        PROVE  ReadOK(r)
    <3>1. /\ r.op = "delete_commitment" /\ r.table = "commitment" /\ r.id = k
          /\ r.rev = db["commitment"][k].rev /\ r.held = db["commitment"][k].held
          /\ r.adds = {}
          /\ r.drops = {l \in links : l[1] = "commitment" /\ l[2] = k}
      BY <2>1 DEF Change, Creation, &
    <3>2. Sound(r)
      BY <3>1, ChangeSound, TablesAssumption
    <3> QED BY <3>1, <3>2 DEF Sound, ReadOK, RequestOK, Valid, EntryOps, Linking
  <2>2. PICK k \in Changeable("commitment") :
          Opens(c, "delete_commitment",
            [Change("commitment", k) EXCEPT
               !.drops = {l \in links : l[1] = "commitment" /\ l[2] = k}])
    BY <1>4, Zenon DEF BeginDeleteCommitment, Reads
  <2> QED BY <1>4, <2>1, <2>2, OpensBegun DEF BeginDeleteCommitment
<1> QED BY <1>1, <1>2, <1>3, <1>4

(***************************************************************************)
(* The transaction of a request.                                           *)
(***************************************************************************)
\* The records that must be active, of a row of a table.
Fits(t, row) == Backed(t, row) /\ (t = "rule" => Follows(row))

\* A link that needs row i of table t not to be active.
Avoids(l, t, i) ==
  /\ l[1] \in {"note", "entity"} => <<"note", l[2]>> # <<t, i>>
  /\ l[1] = "commitment" => <<"commitment", l[2]>> # <<t, i>>
  /\ l[1] \in {"note", "commitment"} => l[3] # <<t, i>>

LEMMA CommitKeeps ==
  ASSUME TypesInv, RecordsInv', NEW c \in Clients, NEW op, op # "idle", NEW drops, NEW adds,
         Commits(c, op, drops, adds), RowsInv', \A l \in adds : LinkOK(l),
         Alone => BackedInv' /\ FollowInv' /\ LeadInv'
  PROVE  TypesInv' /\ AloneInv'
<1>1. /\ request[c].op = op /\ request' = [request EXCEPT ![c] = Idle]
      /\ links' = (links \ drops) \cup adds /\ workload' = workload
  BY DEF Commits
<1>2. request[c] # Idle
  BY <1>1 DEF Idle
<1>3. RequestOK(Idle)
  BY DEF RequestOK, Idle, EntryOps
<1>4. \A d \in Clients : request'[d] = IF d = c THEN Idle ELSE request[d]
  BY <1>1 DEF TypesInv, RecordsInv
<1>5. \A d \in Clients : RequestOK(request'[d])
  BY <1>3, <1>4 DEF TypesInv
<1>6. \A d \in Clients : Belongs(d)'
  BY <1>1, <1>4 DEF TypesInv, Belongs
<1>7. \A l \in links' : LinkOK(l)
  BY <1>1 DEF TypesInv
<1>8. TypesInv'
  BY <1>1, <1>5, <1>6, <1>7 DEF TypesInv
<1>9. Alone' = Alone
  BY <1>1 DEF Alone
<1>10. Alone => \A d \in Clients : request'[d] = Idle
  BY <1>2, <1>4, OneClient
<1>11. AloneInv'
  BY <1>9, <1>10 DEF AloneInv
<1> QED BY <1>8, <1>11

\* The row that is written has the values of the unique indexes to itself.
LEMMA RowsWritten ==
  ASSUME TypesInv, NEW c, NEW t \in DOMAIN Ids, NEW i \in Ids[t], NEW new,
         Goes(c, {t}), Written(t, i, new), RowOK(t, new),
         NEW r, ~Collides(r), r.table = t, r.id \in {i, None},
         new.held \subseteq r.held
  PROVE  RowsInv'
<1>1. \A u \in DOMAIN Ids \ {t} : db'[u] = db[u]
  BY DEF Goes
<1>2. \A j \in Ids[t] : db'[t][j] = IF j = i THEN new ELSE db[t][j]
  BY DEF Written
<1>3. \A j \in Ids[t] \ {i} : db[t][j].held \cap new.held = {}
  BY RecordsAssumption DEF Collides
<1>4. /\ \A u \in DOMAIN Ids : \A j \in Ids[u] : RowOK(u, db[u][j])
      /\ \A u \in DOMAIN Ids : \A j, k \in Ids[u] :
           j # k => db[u][j].held \cap db[u][k].held = {}
  BY DEF TypesInv, RowsInv
<1>5. ASSUME NEW u \in DOMAIN Ids, NEW j \in Ids[u]
      PROVE  RowOK(u, db'[u][j])
  <2>1. CASE u = t
    BY <1>2, <1>4, <2>1
  <2>2. CASE u # t
    BY <1>1, <1>4, <2>2
  <2> QED BY <2>1, <2>2
<1>6. ASSUME NEW u \in DOMAIN Ids, NEW j \in Ids[u], NEW k \in Ids[u], j # k
      PROVE  db'[u][j].held \cap db'[u][k].held = {}
  <2>1. CASE u = t
    BY <1>2, <1>3, <1>4, <1>6, <2>1
  <2>2. CASE u # t
    BY <1>1, <1>4, <1>6, <2>2
  <2> QED BY <2>1, <2>2
<1> QED BY <1>5, <1>6 DEF RowsInv

LEMMA BackedWritten ==
  ASSUME BackedInv, NEW c, NEW t \in DOMAIN Ids, NEW i \in Ids[t], NEW new,
         Goes(c, {t}), Written(t, i, new), new.live => Backed(t, new),
         t = "account" /\ ~new.live => ~AccountInUse(i)
  PROVE  BackedInv'
<1>1. \A u \in DOMAIN Ids \ {t} : db'[u] = db[u]
  BY DEF Goes
<1>2. \A j \in Ids[t] : db'[t][j] = IF j = i THEN new ELSE db[t][j]
  BY DEF Written
<1>3. ASSUME NEW u \in DOMAIN Ids, NEW j \in Live(u)'
      PROVE  \/ j \in Live(u) /\ db'[u][j] = db[u][j]
             \/ u = t /\ db'[u][j] = new /\ new.live
  <2>1. j \in Ids[u] /\ db'[u][j].live
    BY <1>3 DEF Live
  <2>2. CASE u = t
    BY <1>2, <2>1, <2>2 DEF Live
  <2>3. CASE u # t
    <3>1. db'[u][j] = db[u][j]
      BY <1>1, <2>3
    <3> QED BY <2>1, <3>1 DEF Live
  <2> QED BY <2>2, <2>3
<1>4. CASE t # "account"
  <2>1. Live("account")' = Live("account")
    BY <1>1, <1>4, TablesAssumption DEF Live
  <2>2. \A u, row : Backed(u, row) => Backed(u, row)'
    BY <2>1 DEF Backed, EntryBacked, Field
  <2> QED BY <1>3, <2>2 DEF BackedInv
<1>5. CASE t = "account"
  <2>1. \A a \in Live("account") : a \in Live("account")' \/ ~AccountInUse(a)
    BY <1>2, <1>5 DEF Live
  <2>2. ASSUME NEW u \in DOMAIN Ids, u # "account", NEW j \in Live(u),
               NEW row, row = db[u][j]
        PROVE  Backed(u, row)'
    <3>1. Backed(u, row)
      BY <2>2 DEF BackedInv
    <3>2. ASSUME u \in {"actual", "plan", "rule"}
          PROVE  EntryBacked(row.entry)'
      <4>1. \A a : Uses(row, a) => AccountInUse(a)
        BY <2>2, <3>2 DEF AccountInUse
      <4>2. row.entry.account \in Live("account") /\ row.entry.to \in Field(Live("account"))
        BY <3>1, <3>2 DEF Backed, EntryBacked
      <4>3. row.entry.account \in Live("account")'
        BY <2>1, <4>1, <4>2 DEF Uses
      <4>4. row.entry.to = None \/ row.entry.to \in Live("account")'
        BY <2>1, <4>1, <4>2 DEF Uses, Field
      <4> QED BY <4>3, <4>4 DEF EntryBacked, Field
    <3>3. ASSUME u \in {"sub", "saving"}
          PROVE  AccountInUse(row.account)
      BY <2>2, <3>3 DEF AccountInUse
    <3>4. u = "sub" => row.account \in Live("account")'
      BY <2>1, <3>1, <3>3 DEF Backed
    <3>5. u = "saving" => row.account = None \/ row.account \in Live("account")'
      BY <2>1, <3>1, <3>3 DEF Backed, Field
    <3> QED BY <3>2, <3>4, <3>5 DEF Backed, Field
  <2>3. \A row : Backed("account", row)'
    BY DEF Backed
  <2>4. \A u \in DOMAIN Ids : \A j \in Live(u)' : \E row : row = db'[u][j] /\ Backed(u, row)'
    BY <1>3, <1>5, <2>2, <2>3
  <2> QED BY <2>4 DEF BackedInv
<1> QED BY <1>4, <1>5

LEMMA LeadWritten ==
  ASSUME LeadInv, \A l \in links : LinkOK(l),
         NEW c, NEW t \in DOMAIN Ids, NEW i \in Ids[t], NEW new,
         Goes(c, {t}), Written(t, i, new),
         NEW drops, NEW adds, links' = (links \ drops) \cup adds,
         ~new.live => \A l \in links \ drops : Avoids(l, t, i),
         \A l \in adds : Leads(l)'
  PROVE  LeadInv'
<1>1. ASSUME NEW u \in DOMAIN Ids, NEW j \in Live(u), <<u, j>> # <<t, i>> \/ new.live
      PROVE  j \in Live(u)'
  <2>1. \A v \in DOMAIN Ids \ {t} : db'[v] = db[v]
    BY DEF Goes
  <2>2. \A k \in Ids[t] : db'[t][k] = IF k = i THEN new ELSE db[t][k]
    BY DEF Written
  <2>3. CASE u = t
    BY <1>1, <2>2, <2>3 DEF Live
  <2>4. CASE u # t
    BY <2>1, <2>4 DEF Live
  <2> QED BY <2>3, <2>4
<1>2. ASSUME NEW l \in links \ drops
      PROVE  Leads(l)'
  <2>1. Leads(l) /\ LinkOK(l) /\ (new.live \/ Avoids(l, t, i))
    BY DEF LeadInv
  <2>2. l[1] \in {"note", "entity"} => l[2] \in Live("note")'
    <3>1. l[1] \in {"note", "entity"} =>
            l[2] \in Live("note") /\ (<<"note", l[2]>> # <<t, i>> \/ new.live)
      BY <2>1 DEF Leads, Avoids
    <3> QED BY <1>1, <3>1, TablesAssumption
  <2>3. l[1] = "commitment" => l[2] \in Live("commitment")'
    <3>1. l[1] = "commitment" =>
            l[2] \in Live("commitment") /\ (<<"commitment", l[2]>> # <<t, i>> \/ new.live)
      BY <2>1 DEF Leads, Avoids
    <3> QED BY <1>1, <3>1, TablesAssumption
  <2>4. l[1] \in {"note", "commitment"} => l[3][2] \in Live(l[3][1])'
    <3> SUFFICES ASSUME l[1] \in {"note", "commitment"} PROVE l[3][2] \in Live(l[3][1])'
      OBVIOUS
    <3>1. l[3][1] \in DOMAIN Ids
      BY <2>1, TablesAssumption DEF LinkOK, TargetModels
    <3>2. l[3] = <<l[3][1], l[3][2]>>
      BY <2>1 DEF LinkOK
    <3>3. l[3][2] \in Live(l[3][1]) /\ (<<l[3][1], l[3][2]>> # <<t, i>> \/ new.live)
      BY <2>1, <3>2 DEF Leads, Avoids
    <3> QED BY <1>1, <3>1, <3>3
  <2> QED BY <2>2, <2>3, <2>4 DEF Leads
<1> QED BY <1>2 DEF LeadInv

\* What is to be shown of a transaction that writes one row.
LEMMA WrittenKeeps ==
  ASSUME TypesInv, AloneInv, RecordsInv', NEW c \in Clients, NEW op, op # "idle",
         NEW drops, NEW adds, Commits(c, op, drops, adds), \A l \in adds : LinkOK(l),
         NEW t \in DOMAIN Ids, NEW i \in Ids[t], NEW new,
         Goes(c, {t}), Written(t, i, new), RowOK(t, new),
         request[c].table = t, request[c].id \in {i, None}, new.held \subseteq request[c].held,
         Alone => /\ new.live => Fits(t, new)
                  /\ t = "sub" => FollowInv'
                  /\ t = "account" /\ ~new.live => ~AccountInUse(i)
                  /\ ~new.live => \A l \in links \ drops : Avoids(l, t, i)
                  /\ \A l \in adds : Leads(l)'
  PROVE  TypesInv' /\ AloneInv'
<1>1. RowsInv'
  <2>1. ~Collides(request[c])
    BY DEF Commits, Refusable
  <2> QED BY <2>1, RowsWritten
<1>2. links' = (links \ drops) \cup adds
  BY DEF Commits
<1>3. ASSUME Alone
      PROVE  BackedInv' /\ FollowInv' /\ LeadInv'
  <2>1. BackedInv /\ FollowInv /\ LeadInv
    BY <1>3 DEF AloneInv
  <2>2. BackedInv'
    BY <1>3, <2>1, BackedWritten DEF Fits
  <2>3. LeadInv'
    <3>1. \A l \in links : LinkOK(l)
      BY DEF TypesInv
    <3> QED BY <1>2, <1>3, <2>1, <3>1, LeadWritten
  <2>4. FollowInv'
    <3>1. \A u \in DOMAIN Ids \ {t} : db'[u] = db[u]
      BY DEF Goes
    <3>2. CASE t = "sub"
      BY <1>3, <3>2
    <3>3. CASE t # "sub"
      <4>1. db'.sub = db.sub
        BY <3>1, <3>3, TablesAssumption
      <4>2. \A row : Follows(row)' = Follows(row)
        BY <4>1 DEF Follows, Kept, Live, Mirrors, SubscriptionEntry
      <4>3. CASE t = "rule"
        <5>1. \A j \in Ids["rule"] : db'.rule[j] = IF j = i THEN new ELSE db.rule[j]
          BY <4>3 DEF Written
        <5> QED BY <1>3, <2>1, <4>2, <4>3, <5>1 DEF FollowInv, Fits, Live
      <4>4. CASE t # "rule"
        <5>1. db'.rule = db.rule
          BY <3>1, <4>4, TablesAssumption
        <5> QED BY <2>1, <4>2, <5>1 DEF FollowInv, Live
      <4> QED BY <4>3, <4>4
    <3> QED BY <3>2, <3>3
  <2> QED BY <2>2, <2>3, <2>4
<1> QED BY <1>1, <1>3, CommitKeeps

\* What a request has read of the values and the tables it writes.
LEMMA RequestTyped ==
  ASSUME TypesInv, NEW c \in Clients, NEW op, op # "idle", NEW drops, NEW adds,
         Commits(c, op, drops, adds), NEW r, r = request[c]
  PROVE  /\ r.op = op /\ RequestOK(r) /\ Informed(r)
         /\ \A v \in r.held : v[1] = r.table
         /\ \A l \in r.adds : LinkOK(l)
         /\ op \notin Linking => r.adds = {}
         /\ ~Stale(r) /\ ~Misses(r)
         /\ AloneInv /\ Alone => Valid(r) /\ BackedInv /\ FollowInv /\ LeadInv
<1>1. r.op = op /\ RequestOK(r) /\ Informed(r) /\ ~Stale(r) /\ ~Misses(r)
  BY DEF Commits, Refusable, TypesInv, RecordsInv, RequestsInv
<1>2. r # Idle
  BY <1>1 DEF Idle
<1>3. /\ \A v \in r.held : v[1] = r.table
      /\ \A l \in r.adds : LinkOK(l)
      /\ op \notin Linking => r.adds = {}
  BY <1>1 DEF RequestOK
<1> QED BY <1>1, <1>2, <1>3 DEF AloneInv

LEMMA FitsStays ==
  ASSUME NEW t, NEW row, Shaped(t, row), Fits(t, row), NEW new,
         \A f \in DOMAIN row \ Columns : f \in DOMAIN new /\ new[f] = row[f]
  PROVE  Fits(t, new)
<1>1. CASE t = "actual"
  BY <1>1 DEF Shaped, Fits, Backed, Columns
<1>2. CASE t = "plan"
  BY <1>2 DEF Shaped, Fits, Backed, Columns, PlanOK
<1>3. CASE t = "rule"
  <2>1. /\ new.entry = row.entry /\ new.sub = row.sub /\ new.schedule = row.schedule
        /\ new.status = row.status
    BY <1>3 DEF Shaped, RuleOK, Columns
  <2> QED BY <1>3, <2>1 DEF Fits, Backed, Follows, Mirrors
<1>4. CASE t = "sub"
  BY <1>4 DEF Shaped, Fits, Backed, Columns, SubOK
<1>5. CASE t = "saving"
  BY <1>5 DEF Shaped, Fits, Backed, Columns, SavingOK
<1>6. CASE t \notin {"actual", "plan", "rule", "sub", "saving"}
  BY <1>6 DEF Fits, Backed
<1> QED BY <1>1, <1>2, <1>3, <1>4, <1>5, <1>6

LEMMA InsertKeeps ==
  ASSUME TypesInv, AloneInv, RecordsInv', NEW c \in Clients,
         NEW op \in Creates, NEW t, t = TableOf[op],
         NEW drops, NEW adds, Commits(c, op, drops, adds), \A l \in adds : LinkOK(l),
         NEW row, DOMAIN row \cap {"rev", "live"} = {}, db' = Added(t, row),
         "held" \in DOMAIN row => row.held = request[c].held,
         Shaped(t, row),
         t = "note" => "held" \in DOMAIN row /\ row.held \subseteq Daily(row.date),
         Alone => /\ Fits(t, row)
                  /\ t = "sub" => FollowInv'
                  /\ \A l \in adds : Leads(l)'
  PROVE  TypesInv' /\ AloneInv'
<1> DEFINE i == NewId(t)
<1>1. PICK new : IsAdded(t, row, new) /\ Written(t, i, new)
  BY InsertCommits DEF TypesInv
<1>2. Goes(c, {t})
  BY InsertCommits DEF TypesInv
<1>3. t \in DOMAIN Ids /\ i \in Ids[t] /\ op # "idle"
  <2>1. t \in DOMAIN Ids
    BY TablesAssumption DEF Creates, TableOf
  <2>2. op # "idle"
    BY DEF Creates
  <2> QED BY <1>1, <2>1, <2>2 DEF IsAdded, Free
<1>4. /\ request[c].table = t /\ request[c].id = None
      /\ \A v \in request[c].held : v[1] = t
  <2>1. /\ request[c].op = op /\ Informed(request[c])
        /\ \A v \in request[c].held : v[1] = request[c].table
    BY <1>3, RequestTyped, SMTT(30)
  <2> QED BY <2>1 DEF Informed
<1>5. /\ new.rev = 1 /\ new.live = TRUE
      /\ new.held = IF "held" \in DOMAIN row THEN row.held ELSE {}
      /\ DOMAIN new = DOMAIN row \cup Columns
      /\ \A f \in DOMAIN row : new[f] = row[f]
  BY <1>1 DEF IsAdded
<1>6. Shaped(t, new)
  BY <1>5, ShapedStays
<1>7. new.held \subseteq request[c].held
  BY <1>5
<1>8. RowOK(t, new)
  <2>1. t = "note" => new.held \subseteq Daily(new.date)
    <3>1. t = "note" => "date" \in DOMAIN row
      BY DEF Shaped
    <3> QED BY <1>5, <3>1
  <2>2. new.live /\ new.rev # 0
    BY <1>5
  <2> QED BY <1>4, <1>6, <1>7, <2>1, <2>2 DEF RowOK
<1>9. Alone => Fits(t, new)
  BY <1>5, FitsStays
<1>10. new.live
  BY <1>5
<1> QED BY <1>1, <1>2, <1>3, <1>4, <1>7, <1>8, <1>9, <1>10, WrittenKeeps

\* The requests that insert a row and no link.
LEMMA InsertWrites ==
  ASSUME TypesInv, AloneInv, RecordsInv', NEW c \in Clients,
         NEW op \in Creates, NEW t, t = TableOf[op], t # "note", Writes(c, op),
         NEW row, DOMAIN row \cap {"rev", "live"} = {}, db' = Added(t, row),
         "held" \in DOMAIN row => row.held = request[c].held,
         Shaped(t, row), Alone => Fits(t, row) /\ (t = "sub" => FollowInv')
  PROVE  TypesInv' /\ AloneInv'
<1>1. op # "idle" /\ op \notin Linking
  BY DEF Creates, Linking
<1>2. Commits(c, op, request[c].drops, request[c].adds) /\ request[c].adds = {}
  BY <1>1, RequestTyped DEF Writes
<1> QED BY <1>2, InsertKeeps

\* A row that is what it was, but for some values.
Merges(values, row, new) ==
  /\ DOMAIN new = DOMAIN values \cup DOMAIN row
  /\ \A f \in DOMAIN values \ Columns : new[f] = values[f]
  /\ \A f \in DOMAIN row \ (DOMAIN values \cup Columns) : new[f] = row[f]

LEMMA UpdateKeeps ==
  ASSUME TypesInv, AloneInv, RecordsInv', NEW c \in Clients,
         NEW op \in Changes, NEW t, t = TableOf[op], t # "sub",
         NEW drops, NEW adds, Commits(c, op, drops, adds), \A l \in adds : LinkOK(l),
         NEW values, db' = Updated(request[c], values), NEW i, i = request[c].id,
         \A new : Merges(values, db[t][i], new) =>
           /\ Shaped(t, new)
           /\ Alone => Fits(t, new)
           /\ t = "note" => request[c].held \subseteq Daily(new.date),
         Alone => \A l \in adds : Leads(l)'
  PROVE  TypesInv' /\ AloneInv'
<1>1. Goes(c, {t}) /\ IsCurrent(request[c], t)
  BY UpdateCommits DEF TypesInv
<1>2. PICK new : IsUpdated(request[c], values, new) /\ Written(t, i, new)
  BY UpdateCommits DEF TypesInv
<1>3. op # "idle" /\ t \in DOMAIN Ids /\ i \in Ids[t] /\ request[c].table = t
  BY <1>1 DEF IsCurrent, Changes
<1>4. /\ new.rev = db[t][i].rev + 1 /\ new.live = TRUE /\ new.held = request[c].held
      /\ Merges(values, db[t][i], new)
  BY <1>2, <1>3 DEF IsUpdated, Merges
<1>5. Shaped(t, new) /\ (Alone => Fits(t, new))
  BY <1>4
<1>6. \A v \in new.held : v[1] = t
  BY <1>3, <1>4, RequestTyped, ZenonT(40)
<1>7. RowOK(t, new)
  <2>1. new.rev # 0
    BY <1>1, <1>3, <1>4 DEF IsCurrent, IsRow
  <2> QED BY <1>4, <1>5, <1>6, <2>1 DEF RowOK
<1> QED BY <1>1, <1>2, <1>3, <1>4, <1>5, <1>7, WrittenKeeps

\* The requests that update a row and no link.
LEMMA UpdateWrites ==
  ASSUME TypesInv, AloneInv, RecordsInv', NEW c \in Clients,
         NEW op \in Changes \ Linking, NEW t, t = TableOf[op], t \notin {"sub", "note"},
         Writes(c, op), NEW values, db' = Updated(request[c], values),
         NEW i, i = request[c].id,
         \A new : Merges(values, db[t][i], new) => Shaped(t, new) /\ (Alone => Fits(t, new))
  PROVE  TypesInv' /\ AloneInv'
<1>1. op # "idle"
  BY DEF Changes
<1>2. Commits(c, op, request[c].drops, request[c].adds) /\ request[c].adds = {}
  BY <1>1, RequestTyped DEF Writes
<1> QED BY <1>2, UpdateKeeps

LEMMA DeleteKeeps ==
  ASSUME TypesInv, AloneInv, RecordsInv', NEW c \in Clients,
         NEW op \in Changes, NEW t, t = TableOf[op],
         Writes(c, op), op \notin Linking,
         db' = SoftDeleted(request[c]), NEW i, i = request[c].id,
         t = "note" => request[c].held = {},
         Alone => /\ t = "account" => ~AccountInUse(i)
                  /\ \A l \in links \ request[c].drops : Avoids(l, t, i)
  PROVE  TypesInv' /\ AloneInv'
<1>1. Goes(c, {t}) /\ IsCurrent(request[c], t)
  BY DeleteCommits DEF TypesInv, Writes
<1>2. PICK new : IsDeleted(request[c], new) /\ Written(t, i, new)
  BY DeleteCommits DEF TypesInv, Writes
<1>3. op # "idle" /\ t \in DOMAIN Ids /\ i \in Ids[t] /\ request[c].table = t
  BY <1>1 DEF IsCurrent, Changes
<1>4. /\ new.rev = db[t][i].rev + 1 /\ new.live = FALSE /\ new.held = request[c].held
      /\ DOMAIN new = DOMAIN db[t][i]
      /\ \A f \in DOMAIN db[t][i] \ Columns : new[f] = db[t][i][f]
  BY <1>2, <1>3, Zenon DEF IsDeleted
<1>5. db[t][i].rev > 0 /\ IsRow(db[t][i]) /\ IsRow(new)
  BY <1>1, <1>2, <1>3 DEF IsCurrent, IsDeleted
<1>6. Shaped(t, new)
  <2>1. Shaped(t, db[t][i])
    BY <1>3, <1>5 DEF TypesInv, RowsInv, RowOK
  <2> QED BY <1>4, <2>1, ShapedStays
<1>7. (\A v \in new.held : v[1] = t) /\ request[c].adds = {}
  BY <1>3, <1>4, RequestTyped DEF Writes
<1>8. new.rev > 0
  <2>1. db[t][i].rev \in Nat /\ db[t][i].rev > 0
    BY <1>5, Zenon DEF IsRow
  <2>2. new.rev = db[t][i].rev + 1
    BY <1>4
  <2> QED BY <2>1, <2>2
<1>9. RowOK(t, new)
  <2>1. t = "note" => new.held = {}
    BY <1>4
  <2>2. new.rev # 0
    BY <1>8
  <2> QED BY <1>6, <1>7, <2>1, <2>2 DEF RowOK
<1>10. ASSUME t = "sub", Alone
       PROVE  FollowInv'
  <2>1. FollowInv
    BY <1>10 DEF AloneInv
  <2>2. /\ db'.rule = db.rule
        /\ \A j \in Ids["sub"] : db'.sub[j] = IF j = i THEN new ELSE db.sub[j]
    BY <1>1, <1>2, <1>10, TablesAssumption, SMTT(30) DEF Goes, Written
  <2>3. ASSUME NEW rule, Follows(rule)
        PROVE  Follows(rule)'
    BY <1>4, <1>8, <2>2, <2>3 DEF Follows, Kept, Live, Mirrors, SubscriptionEntry
  <2> QED BY <2>1, <2>2, <2>3 DEF FollowInv, Live
<1> QED BY <1>1, <1>2, <1>3, <1>4, <1>7, <1>9, <1>10, WrittenKeeps DEF Writes

\* A deletion takes the links with it that need the row to be active.
LEMMA AvoidsOK ==
  ASSUME NEW l \in links, LinkOK(l), NEW t, NEW i
  PROVE  /\ t \notin TargetModels \cup {"commitment"} => Avoids(l, t, i)
         /\ t \in TargetModels \ {"note"} /\ l \notin LinksOf("commitment", <<t, i>>) =>
              Avoids(l, t, i)
         /\ t = "note" /\ l \notin LinksWith(i) => Avoids(l, t, i)
         /\ t = "commitment" /\ ~(l[1] = "commitment" /\ l[2] = i) => Avoids(l, t, i)
BY DEF LinkOK, TargetModels, Avoids, LinksOf, LinksWith

LEMMA AccountKept ==
  ASSUME TypesInv, AloneInv, RecordsInv', NEW c \in Clients,
         \/ CreateAccount(c) \/ UpdateAccount(c) \/ DeleteAccount(c)
         \/ CreateCategory(c) \/ UpdateCategory(c) \/ DeleteCategory(c)
         \/ CreateTag(c) \/ DeleteTag(c)
  PROVE  TypesInv' /\ AloneInv'
<1> DEFINE Bare == {"account", "category", "tag"}
<1>1. \A t \in Bare : \A row : Shaped(t, row) /\ Fits(t, row)
  BY DEF Shaped, Fits, Backed
<1>2. ASSUME NEW op \in {"create_account", "create_category", "create_tag"}, Writes(c, op),
             NEW row, DOMAIN row \cap {"rev", "live", "held"} = {}, db' = Added(TableOf[op], row)
      PROVE  TypesInv' /\ AloneInv'
  <2>1. op \in Creates /\ TableOf[op] \in Bare
    BY DEF Creates, TableOf
  <2> QED BY <1>1, <1>2, <2>1, InsertWrites
<1>3. ASSUME NEW op \in {"update_account", "update_category"}, Writes(c, op),
             NEW values, db' = Updated(request[c], values)
      PROVE  TypesInv' /\ AloneInv'
  <2>1. op \in Changes \ Linking /\ TableOf[op] \in Bare
    BY DEF Changes, Linking, TableOf
  <2> QED BY <1>1, <1>3, <2>1, UpdateWrites
<1>4. ASSUME NEW op \in {"delete_account", "delete_category", "delete_tag"}, Writes(c, op),
             db' = SoftDeleted(request[c])
      PROVE  TypesInv' /\ AloneInv'
  <2>1. op \in Changes \ Linking /\ TableOf[op] \in Bare /\ op # "idle"
    BY DEF Changes, Linking, TableOf
  <2>2. Alone => \A l \in links : Avoids(l, TableOf[op], request[c].id)
    <3>1. TableOf[op] \notin TargetModels \cup {"commitment"}
      BY <2>1 DEF TargetModels
    <3> QED BY <3>1, AvoidsOK DEF TypesInv
  <2>3. Alone /\ TableOf[op] = "account" => ~AccountInUse(request[c].id)
    <3>1. Alone => Valid(request[c]) /\ request[c].op = op
      BY <1>4, <2>1, RequestTyped DEF Writes
    <3> QED BY <3>1 DEF Valid, TableOf
  <2> QED BY <1>4, <2>1, <2>2, <2>3, DeleteKeeps
<1>5. CASE CreateAccount(c)
  BY <1>2, <1>5 DEF CreateAccount, TableOf
<1>6. CASE UpdateAccount(c)
  BY <1>3, <1>6 DEF UpdateAccount
<1>7. CASE DeleteAccount(c)
  BY <1>4, <1>7 DEF DeleteAccount
<1>8. CASE CreateCategory(c)
  BY <1>2, <1>8 DEF CreateCategory, TableOf
<1>9. CASE UpdateCategory(c)
  BY <1>3, <1>9 DEF UpdateCategory
<1>10. CASE DeleteCategory(c)
  BY <1>4, <1>10 DEF DeleteCategory
<1>11. CASE CreateTag(c)
  BY <1>2, <1>11 DEF CreateTag, TableOf
<1>12. CASE DeleteTag(c)
  BY <1>4, <1>12 DEF DeleteTag
<1> QED BY <1>5, <1>6, <1>7, <1>8, <1>9, <1>10, <1>11, <1>12

\* The deletions of records that commitments may be linked to.
LEMMA DeletionKept ==
  ASSUME TypesInv, AloneInv, RecordsInv', NEW c \in Clients,
         \/ DeleteTransaction(c) \/ DeletePlan(c) \/ DeleteSaving(c) \/ DeleteGoal(c)
         \/ DeleteBudget(c)
  PROVE  TypesInv' /\ AloneInv'
<1>1. PICK op \in Deletions : Writes(c, op)
  BY DEF DeleteTransaction, DeletePlan, DeleteSaving, DeleteGoal, DeleteBudget, Deletions
<1>2. db' = SoftDeleted(request[c])
  BY DEF DeleteTransaction, DeletePlan, DeleteSaving, DeleteGoal, DeleteBudget
<1>3. /\ op \in Changes \ Linking /\ op # "idle"
      /\ TableOf[op] \in TargetModels \ {"note"} /\ TableOf[op] # "account"
  BY DEF Deletions, Changes, Linking, TableOf, TargetModels
<1>4. Alone => \A l \in links \ request[c].drops : Avoids(l, TableOf[op], request[c].id)
  <2>1. Informed(request[c]) /\ request[c].op = op /\ (Alone => Valid(request[c]))
    BY <1>1, <1>3, RequestTyped DEF Writes
  <2>2. request[c].table = TableOf[op]
    BY <1>3, <2>1 DEF Informed
  <2>3. Alone => LinksOf("commitment", <<TableOf[op], request[c].id>>) \subseteq request[c].drops
    BY <2>1, <2>2 DEF Valid, Deletions
  <2> QED BY <1>3, <2>3, AvoidsOK DEF TypesInv
<1> QED BY <1>1, <1>2, <1>3, <1>4, DeleteKeeps

LEMMA TransactionKept ==
  ASSUME TypesInv, AloneInv, RecordsInv', NEW c \in Clients,
         CreateTransaction(c) \/ UpdateTransaction(c)
  PROVE  TypesInv' /\ AloneInv'
<1>1. CASE CreateTransaction(c)
  <2> DEFINE row == [entry |-> request[c].entry, plan |-> None, held |-> request[c].held]
  <2>1. Writes(c, "create_transaction") /\ db' = Added("actual", row)
    BY <1>1 DEF CreateTransaction
  <2>2. /\ request[c].op = "create_transaction" /\ RequestOK(request[c])
        /\ Alone => Valid(request[c])
    BY <2>1, RequestTyped DEF Writes
  <2>3. /\ DOMAIN row = {"entry", "plan", "held"} /\ row.held = request[c].held
        /\ row.entry = request[c].entry
    OBVIOUS
  <2> HIDE DEF row
  <2>4. Shaped("actual", row) /\ (Alone => Fits("actual", row))
    BY <2>2, <2>3 DEF Shaped, Fits, Backed, RequestOK, Valid, EntryOps
  <2>5. "create_transaction" \in Creates /\ TableOf["create_transaction"] = "actual"
    BY DEF Creates, TableOf
  <2> QED BY <2>1, <2>3, <2>4, <2>5, InsertWrites
<1>2. CASE UpdateTransaction(c)
  <2> DEFINE values == [entry |-> request[c].entry]
  <2>1. Writes(c, "update_transaction") /\ db' = Updated(request[c], values)
    BY <1>2 DEF UpdateTransaction
  <2>2. /\ request[c].op = "update_transaction" /\ RequestOK(request[c])
        /\ Alone => Valid(request[c])
    BY <2>1, RequestTyped DEF Writes
  <2>3. DOMAIN values = {"entry"} /\ values.entry = request[c].entry
    OBVIOUS
  <2> HIDE DEF values
  <2>4. ASSUME NEW row, NEW new, Merges(values, row, new)
        PROVE  Shaped("actual", new) /\ (Alone => Fits("actual", new))
    <3>1. "entry" \in DOMAIN new /\ new.entry = request[c].entry
      BY <2>3, <2>4 DEF Merges, Columns
    <3> QED BY <2>2, <3>1 DEF Shaped, Fits, Backed, RequestOK, Valid, EntryOps
  <2>5. /\ "update_transaction" \in Changes \ Linking
        /\ TableOf["update_transaction"] = "actual"
    BY DEF Changes, Linking, TableOf
  <2> QED BY <2>1, <2>4, <2>5, UpdateWrites
<1> QED BY <1>1, <1>2

\* The row that a request that goes through writes.
LEMMA CurrentOK ==
  ASSUME TypesInv, NEW c \in Clients, NEW op \in Changes, Writes(c, op),
         NEW t, t = TableOf[op], NEW r, r = request[c]
  PROVE  /\ r.op = op /\ RequestOK(r) /\ r.table = t /\ t \in DOMAIN Ids /\ r.id \in Ids[t]
         /\ r.id \in Live(t) /\ Learnt(r, db[t][r.id]) /\ Shaped(t, db[t][r.id])
         /\ AloneInv /\ Alone =>
              Valid(r) /\ Backed(t, db[t][r.id]) /\ (t = "rule" => Follows(db[t][r.id]))
<1>1. op # "idle"
  BY DEF Changes
<1>2. /\ r.op = op /\ RequestOK(r)
      /\ AloneInv /\ Alone => Valid(r) /\ BackedInv /\ FollowInv
  BY <1>1, RequestTyped DEF Writes
<1>3. /\ r.table = t /\ t \in DOMAIN Ids /\ r.id \in Ids[t]
      /\ db[t][r.id].live /\ db[t][r.id].rev > 0 /\ Learnt(r, db[t][r.id])
  BY CommitsRow DEF Writes, TypesInv
<1>4. RowOK(t, db[t][r.id])
  BY <1>3 DEF TypesInv, RowsInv
<1>5. r.id \in Live(t) /\ Shaped(t, db[t][r.id])
  BY <1>3, <1>4 DEF RowOK, Live
<1> QED BY <1>2, <1>3, <1>5 DEF BackedInv, FollowInv

LEMMA PlanKept ==
  ASSUME TypesInv, AloneInv, RecordsInv', NEW c \in Clients,
         CreatePlan(c) \/ UpdatePlan(c) \/ CancelPlan(c)
  PROVE  TypesInv' /\ AloneInv'
<1>1. CASE CreatePlan(c)
  <2> DEFINE row == PlanRow(request[c].entry, request[c].due, None, request[c].sub)
  <2>1. Writes(c, "create_plan") /\ db' = Added("plan", row)
    BY <1>1 DEF CreatePlan
  <2>2. /\ request[c].op = "create_plan" /\ RequestOK(request[c])
        /\ Alone => Valid(request[c])
    BY <2>1, RequestTyped DEF Writes
  <2>3. /\ DOMAIN row = {"entry", "due", "born", "rule", "sub", "status", "actual"}
        /\ row.entry = request[c].entry /\ row.due = request[c].due
        /\ row.born = request[c].due /\ row.rule = None /\ row.sub = request[c].sub
        /\ row.status = "planned" /\ row.actual = None
    BY DEF PlanRow
  <2> HIDE DEF row
  <2>4. Shaped("plan", row)
    BY <2>2, <2>3 DEF Shaped, PlanOK, RequestOK, EntryOps, Field
  <2>5. Alone => Fits("plan", row)
    BY <2>2, <2>3 DEF Fits, Backed, Valid, EntryOps
  <2>6. "create_plan" \in Creates /\ TableOf["create_plan"] = "plan"
    BY DEF Creates, TableOf
  <2> QED BY <2>1, <2>3, <2>4, <2>5, <2>6, InsertWrites
<1>2. CASE UpdatePlan(c)
  <2> DEFINE values == [entry |-> request[c].entry, due |-> request[c].due]
             row == db["plan"][request[c].id]
  <2>1. Writes(c, "update_plan") /\ db' = Updated(request[c], values)
    BY <1>2 DEF UpdatePlan
  <2>2. /\ "update_plan" \in Changes \ Linking /\ TableOf["update_plan"] = "plan"
    BY DEF Changes, Linking, TableOf
  <2>3. /\ request[c].op = "update_plan" /\ RequestOK(request[c]) /\ Shaped("plan", row)
        /\ Alone => Valid(request[c])
    BY <2>1, <2>2, CurrentOK
  <2>4. /\ DOMAIN values = {"entry", "due"} /\ values.entry = request[c].entry
        /\ values.due = request[c].due
    OBVIOUS
  <2> HIDE DEF values
  <2>5. ASSUME NEW new, Merges(values, row, new)
        PROVE  Shaped("plan", new) /\ (Alone => Fits("plan", new))
    <3>1. PlanOK(row)
      BY <2>3 DEF Shaped
    <3> HIDE DEF row
    <3>2. /\ DOMAIN row \subseteq DOMAIN new /\ new.entry = request[c].entry
          /\ new.due = request[c].due /\ new.born = row.born /\ new.rule = row.rule
          /\ new.sub = row.sub /\ new.status = row.status /\ new.actual = row.actual
      BY <2>4, <2>5, <3>1 DEF Merges, Columns, PlanOK
    <3>3. EntryOK(new.entry) /\ new.due \in Times
      BY <2>3, <3>2 DEF RequestOK, EntryOps
    <3>4. PlanOK(new)
      BY <3>1, <3>2, <3>3 DEF PlanOK
    <3> QED BY <2>3, <3>2, <3>4 DEF Shaped, Fits, Backed, Valid, EntryOps
  <2> QED BY <2>1, <2>2, <2>5, UpdateWrites
<1>3. CASE CancelPlan(c)
  <2> DEFINE values == [status |-> "cancelled"]
             row == db["plan"][request[c].id]
  <2>1. Writes(c, "cancel_plan") /\ db' = Updated(request[c], values)
    BY <1>3 DEF CancelPlan
  <2>2. /\ "cancel_plan" \in Changes \ Linking /\ TableOf["cancel_plan"] = "plan"
    BY DEF Changes, Linking, TableOf
  <2>3. /\ request[c].op = "cancel_plan" /\ Shaped("plan", row) /\ Learnt(request[c], row)
        /\ Alone => Backed("plan", row)
    BY <2>1, <2>2, CurrentOK
  <2>4. DOMAIN values = {"status"} /\ values.status = "cancelled"
    OBVIOUS
  <2> HIDE DEF values
  <2>5. ASSUME NEW new, Merges(values, row, new)
        PROVE  Shaped("plan", new) /\ (Alone => Fits("plan", new))
    <3>1. PlanOK(row) /\ row.status = "planned"
      BY <2>3 DEF Shaped, Learnt
    <3>2. Alone => Backed("plan", row)
      BY <2>3
    <3> HIDE DEF row
    <3>3. /\ DOMAIN row \subseteq DOMAIN new /\ new.entry = row.entry
          /\ new.due = row.due /\ new.born = row.born /\ new.rule = row.rule
          /\ new.sub = row.sub /\ new.status = "cancelled" /\ new.actual = row.actual
      BY <2>4, <2>5, <3>1 DEF Merges, Columns, PlanOK
    <3>4. row.actual = None
      BY <3>1 DEF PlanOK
    <3>5. PlanOK(new)
      BY <3>1, <3>3, <3>4 DEF PlanOK
    <3> QED BY <3>2, <3>3, <3>5 DEF Shaped, Fits, Backed
  <2> QED BY <2>1, <2>2, <2>5, UpdateWrites
<1> QED BY <1>1, <1>2, <1>3

LEMMA RuleKept ==
  ASSUME TypesInv, AloneInv, RecordsInv', NEW c \in Clients,
         CreateRule(c) \/ UpdateRule(c) \/ SetRuleStatus(c) \/ DeleteRule(c)
  PROVE  TypesInv' /\ AloneInv'
<1>1. CASE CreateRule(c)
  <2> DEFINE row == [entry |-> request[c].entry, sub |-> request[c].sub,
                     schedule |-> request[c].schedule, status |-> "active"]
  <2>1. Writes(c, "create_rule") /\ db' = Added("rule", row)
    BY <1>1 DEF CreateRule
  <2>2. /\ request[c].op = "create_rule" /\ RequestOK(request[c])
        /\ Alone => Valid(request[c])
    BY <2>1, RequestTyped DEF Writes
  <2>3. /\ DOMAIN row = {"entry", "sub", "schedule", "status"}
        /\ row.entry = request[c].entry /\ row.sub = request[c].sub
        /\ row.schedule = request[c].schedule /\ row.status = "active"
    OBVIOUS
  <2> HIDE DEF row
  <2>4. Shaped("rule", row)
    BY <2>2, <2>3 DEF Shaped, RuleOK, RequestOK, EntryOps, RuleStatus
  <2>5. ASSUME Alone
        PROVE  Fits("rule", row)
    <3>1. /\ EntryBacked(row.entry)
          /\ row.sub # None =>
               /\ row.sub \in Live("sub")
               /\ Mirrors([entry |-> row.entry, schedule |-> row.schedule], db.sub[row.sub])
      BY <2>2, <2>3, <2>5 DEF Valid, EntryOps
    <3>2. row.sub \in Live("sub") => row.sub \in Kept("sub")
      BY LiveOK, TablesAssumption
    <3> QED BY <3>1, <3>2 DEF Fits, Backed, Follows, Mirrors
  <2>6. "create_rule" \in Creates /\ TableOf["create_rule"] = "rule"
    BY DEF Creates, TableOf
  <2> QED BY <2>1, <2>3, <2>4, <2>5, <2>6, InsertWrites
<1>2. CASE UpdateRule(c)
  <2> DEFINE values == [entry |-> request[c].entry, schedule |-> request[c].schedule]
             row == db["rule"][request[c].id]
  <2>1. Writes(c, "update_rule") /\ db' = Updated(request[c], values)
    BY <1>2 DEF UpdateRule
  <2>2. /\ "update_rule" \in Changes \ Linking /\ TableOf["update_rule"] = "rule"
    BY DEF Changes, Linking, TableOf
  <2>3. /\ request[c].op = "update_rule" /\ RequestOK(request[c]) /\ Shaped("rule", row)
        /\ Alone => Valid(request[c]) /\ Follows(row)
    BY <2>1, <2>2, CurrentOK
  <2>4. /\ DOMAIN values = {"entry", "schedule"} /\ values.entry = request[c].entry
        /\ values.schedule = request[c].schedule
    OBVIOUS
  <2> HIDE DEF values
  <2>5. ASSUME NEW new, Merges(values, row, new)
        PROVE  Shaped("rule", new) /\ (Alone => Fits("rule", new))
    <3>1. RuleOK(row)
      BY <2>3 DEF Shaped
    <3>2. Alone => Follows(row) /\ (row.sub # None =>
                       request[c].entry = row.entry /\ request[c].schedule = row.schedule)
      BY <2>3 DEF Valid
    <3> HIDE DEF row
    <3>3. /\ DOMAIN row \subseteq DOMAIN new /\ new.entry = request[c].entry
          /\ new.schedule = request[c].schedule /\ new.sub = row.sub
          /\ new.status = row.status
      BY <2>4, <2>5, <3>1 DEF Merges, Columns, RuleOK
    <3>4. EntryOK(new.entry) /\ new.schedule \in Schedules
      BY <2>3, <3>3 DEF RequestOK, EntryOps
    <3>5. RuleOK(new)
      BY <3>1, <3>3, <3>4 DEF RuleOK
    <3>6. Alone => EntryBacked(new.entry)
      BY <2>3, <3>3 DEF Valid, EntryOps
    <3>7. Alone => Follows(new)
      BY <3>2, <3>3 DEF Follows, Mirrors
    <3> QED BY <3>5, <3>6, <3>7 DEF Shaped, Fits, Backed
  <2> QED BY <2>1, <2>2, <2>5, UpdateWrites
<1>3. CASE SetRuleStatus(c)
  <2> DEFINE values == [status |-> request[c].status]
             row == db["rule"][request[c].id]
  <2>1. Writes(c, "set_rule_status") /\ db' = Updated(request[c], values)
    BY <1>3 DEF SetRuleStatus
  <2>2. /\ "set_rule_status" \in Changes \ Linking /\ TableOf["set_rule_status"] = "rule"
    BY DEF Changes, Linking, TableOf
  <2>3. /\ request[c].op = "set_rule_status" /\ RequestOK(request[c]) /\ Shaped("rule", row)
        /\ Alone => Valid(request[c]) /\ Backed("rule", row) /\ Follows(row)
    BY <2>1, <2>2, CurrentOK
  <2>4. DOMAIN values = {"status"} /\ values.status = request[c].status
    OBVIOUS
  <2> HIDE DEF values
  <2>5. ASSUME NEW new, Merges(values, row, new)
        PROVE  Shaped("rule", new) /\ (Alone => Fits("rule", new))
    <3>1. RuleOK(row)
      BY <2>3 DEF Shaped
    <3>2. Alone => Backed("rule", row) /\ Follows(row) /\ row.status # "ended"
      BY <2>3 DEF Valid
    <3> HIDE DEF row
    <3>3. /\ DOMAIN row \subseteq DOMAIN new /\ new.entry = row.entry
          /\ new.schedule = row.schedule /\ new.sub = row.sub
          /\ new.status = request[c].status
      BY <2>4, <2>5, <3>1 DEF Merges, Columns, RuleOK
    <3>4. RuleOK(new)
      BY <2>3, <3>1, <3>3 DEF RuleOK, RequestOK
    <3>5. Alone => Backed("rule", new)
      BY <3>2, <3>3 DEF Backed
    <3>6. Alone => Follows(new)
      BY <3>2, <3>3 DEF Follows, Mirrors
    <3> QED BY <3>4, <3>5, <3>6 DEF Shaped, Fits
  <2> QED BY <2>1, <2>2, <2>5, UpdateWrites
<1>4. CASE DeleteRule(c)
  <2>1. Writes(c, "delete_rule") /\ db' = SoftDeleted(request[c])
    BY <1>4 DEF DeleteRule
  <2>2. /\ "delete_rule" \in Changes \ Linking /\ TableOf["delete_rule"] = "rule"
    BY DEF Changes, Linking, TableOf
  <2>3. \A l \in links : Avoids(l, "rule", request[c].id)
    BY AvoidsOK DEF TypesInv, TargetModels
  <2> QED BY <2>1, <2>2, <2>3, DeleteKeeps
<1> QED BY <1>1, <1>2, <1>3, <1>4

\* Rules follow their subscriptions as long as both stay as they are.
LEMMA FollowStays ==
  ASSUME FollowInv, db'.rule = db.rule, db'.sub = db.sub
  PROVE  FollowInv'
<1>1. ASSUME NEW rule, Follows(rule)
      PROVE  Follows(rule)'
  BY <1>1 DEF Follows, Kept, Live, Mirrors, SubscriptionEntry
<1>2. Live("rule")' = Live("rule")
  BY DEF Live
<1> QED BY <1>1, <1>2 DEF FollowInv

\* What is to be shown of a transaction that writes several rows and deletes none.
LEMMA GrowthKeeps ==
  ASSUME TypesInv, AloneInv, RecordsInv', NEW c \in Clients, NEW op, op # "idle",
         op \notin Linking, Writes(c, op),
         db'["account"] = db["account"],
         \A t \in DOMAIN Ids : Live(t) \subseteq Live(t)',
         \A t \in DOMAIN Ids : \A i \in Ids[t] : RowOK(t, db'[t][i]),
         \A t \in DOMAIN Ids : \A i, j \in Ids[t] :
           i # j => db'[t][i].held \cap db'[t][j].held = {},
         Alone => /\ FollowInv'
                  /\ \A t \in DOMAIN Ids : \A i \in Ids[t] :
                       db'[t][i].live => Backed(t, db'[t][i])
  PROVE  TypesInv' /\ AloneInv'
<1>1. request[c].adds = {} /\ Commits(c, op, request[c].drops, request[c].adds)
  BY RequestTyped DEF Writes
<1>2. links' \subseteq links
  BY <1>1 DEF Commits
<1>3. RowsInv'
  BY DEF RowsInv
<1>4. ASSUME Alone
      PROVE  BackedInv' /\ LeadInv'
  <2>1. Live("account")' = Live("account")
    BY DEF Live
  <2>2. \A u, row : Backed(u, row) => Backed(u, row)'
    BY <2>1 DEF Backed, EntryBacked, Field
  <2>3. \A t \in DOMAIN Ids : \A i \in Live(t)' : \E row : row = db'[t][i] /\ Backed(t, row)'
    BY <1>4, <2>2 DEF Live
  <2>4. BackedInv'
    BY <2>3 DEF BackedInv
  <2>5. ASSUME NEW l \in links
        PROVE  Leads(l)'
    <3>1. Leads(l) /\ LinkOK(l)
      BY <1>4 DEF AloneInv, LeadInv, TypesInv
    <3>2. Live("note") \subseteq Live("note")' /\ Live("commitment") \subseteq Live("commitment")'
      BY TablesAssumption
    <3>3. l[1] \in {"note", "commitment"} => Live(l[3][1]) \subseteq Live(l[3][1])'
      BY <3>1, TablesAssumption DEF LinkOK, TargetModels
    <3> QED BY <3>1, <3>2, <3>3 DEF Leads
  <2> QED BY <1>2, <2>4, <2>5 DEF LeadInv
<1> QED BY <1>1, <1>3, <1>4, CommitKeeps

LEMMA FulfilWrites ==
  ASSUME RecordsInv, NEW c \in Clients, FulfilPlan(c),
         NEW r, r = request[c], NEW a, a = NewId("actual")
  PROVE  \E plan, actual :
           /\ IsUpdated(r, [status |-> "fulfilled", actual |-> a], plan)
           /\ IsAdded("actual", [entry |-> r.entry, plan |-> r.id], actual)
           /\ r.op = "fulfil_plan" /\ request' = [request EXCEPT ![c] = Idle]
           /\ IsCurrent(r, "plan")
           /\ a \in Ids["actual"] /\ db.actual[a].rev = 0
           /\ DOMAIN db' = DOMAIN Ids
           /\ \A t \in DOMAIN Ids \ {"plan", "actual"} : db'[t] = db[t]
           /\ DOMAIN db'.plan = Ids["plan"] /\ DOMAIN db'.actual = Ids["actual"]
           /\ Written("plan", r.id, plan) /\ Written("actual", a, actual)
<1> DEFINE values == [status |-> "fulfilled", actual |-> a]
           entry == [entry |-> r.entry, plan |-> r.id]
<1>1. /\ Commits(c, "fulfil_plan", r.drops, r.adds)
      /\ Free("actual") # {}
      /\ db' = [Updated(r, values) EXCEPT !.actual = Added("actual", entry).actual]
  BY DEF FulfilPlan, Writes
<1>2. "fulfil_plan" \in Changes /\ TableOf["fulfil_plan"] = "plan"
  BY DEF Changes, TableOf
<1>3. /\ r.op = "fulfil_plan" /\ ~Stale(r)
      /\ request' = [request EXCEPT ![c] = Idle]
      /\ r.table = "plan" /\ r.id \in Ids["plan"]
      /\ db.plan[r.id].live /\ db.plan[r.id].rev > 0 /\ Learnt(r, db.plan[r.id])
  BY <1>1, <1>2, CommitsRow
<1>4. DOMAIN entry = {"entry", "plan"}
  OBVIOUS
<1>5. Tabled /\ "plan" \in DOMAIN Ids /\ "actual" \in DOMAIN Ids
  BY TablesAssumption DEF RecordsInv
<1> HIDE DEF values, entry
<1>6. PICK plan : IsUpdated(r, values, plan)
  BY <1>3, <1>5, Revises
<1>7. PICK actual : IsAdded("actual", entry, actual)
  BY <1>1, <1>4, <1>5, Inserts
<1>8. /\ DOMAIN db = DOMAIN Ids
      /\ \A t \in DOMAIN Ids : DOMAIN db[t] = Ids[t]
      /\ IsRow(db.plan[r.id])
  BY <1>3, <1>5 DEF Tabled
<1>9. a \in Ids["actual"] /\ db.actual[a].rev = 0
  BY <1>7 DEF IsAdded, Free
<1>10. /\ DOMAIN db' = DOMAIN Ids
       /\ \A t \in DOMAIN Ids \ {"plan", "actual"} : db'[t] = db[t]
       /\ db'.plan = [db.plan EXCEPT ![r.id] = plan]
       /\ db'.actual = [db.actual EXCEPT ![a] = actual]
  <2>1. Updated(r, values) = [db EXCEPT !["plan"][r.id] = plan]
    BY <1>3, <1>6 DEF IsUpdated
  <2>2. Added("actual", entry) = [db EXCEPT !["actual"][a] = actual]
    BY <1>7 DEF IsAdded
  <2>3. Added("actual", entry).actual = [db.actual EXCEPT ![a] = actual]
    BY <1>5, <1>8, <2>2
  <2> QED BY <1>1, <1>5, <1>8, <2>1, <2>3
<1>11. /\ Written("plan", r.id, plan) /\ Written("actual", a, actual)
       /\ DOMAIN db'.plan = Ids["plan"] /\ DOMAIN db'.actual = Ids["actual"]
  BY <1>5, <1>8, <1>10 DEF Written
<1>12. IsCurrent(r, "plan")
  BY <1>3, <1>5, <1>8 DEF IsCurrent
<1> QED BY <1>3, <1>6, <1>7, <1>9, <1>10, <1>11, <1>12 DEF values, entry

LEMMA FulfilKept ==
  ASSUME TypesInv, AloneInv, RecordsInv', NEW c \in Clients, FulfilPlan(c)
  PROVE  TypesInv' /\ AloneInv'
<1> DEFINE r == request[c]
           a == NewId("actual")
           values == [status |-> "fulfilled", actual |-> a]
           entry == [entry |-> r.entry, plan |-> r.id]
<1>1. PICK plan, actual :
        /\ IsUpdated(r, values, plan) /\ IsAdded("actual", entry, actual)
        /\ r.op = "fulfil_plan" /\ IsCurrent(r, "plan")
        /\ a \in Ids["actual"] /\ db.actual[a].rev = 0
        /\ \A t \in DOMAIN Ids \ {"plan", "actual"} : db'[t] = db[t]
        /\ Written("plan", r.id, plan) /\ Written("actual", a, actual)
  BY FulfilWrites DEF TypesInv
<1>2. Writes(c, "fulfil_plan")
  BY DEF FulfilPlan
<1>3. /\ "fulfil_plan" \in Changes /\ TableOf["fulfil_plan"] = "plan"
      /\ "fulfil_plan" \notin Linking /\ "fulfil_plan" # "idle"
  BY DEF Changes, TableOf, Linking
<1>4. /\ RequestOK(r) /\ r.table = "plan" /\ r.id \in Ids["plan"] /\ r.id \in Live("plan")
      /\ Shaped("plan", db["plan"][r.id]) /\ Learnt(r, db["plan"][r.id])
      /\ Alone => Valid(r) /\ Backed("plan", db["plan"][r.id])
  BY <1>2, <1>3, CurrentOK
<1>5. /\ DOMAIN values = {"status", "actual"} /\ values.status = "fulfilled"
      /\ values.actual = a
      /\ DOMAIN entry = {"entry", "plan"} /\ entry.entry = r.entry
  OBVIOUS
<1>6. /\ "plan" \in DOMAIN Ids /\ "actual" \in DOMAIN Ids
      /\ RowOK("plan", db["plan"][r.id]) /\ db["plan"][r.id].rev > 0
  BY <1>1, <1>4, TablesAssumption DEF TypesInv, RowsInv, IsCurrent
<1> HIDE DEF r, values, entry, a
<1>7. /\ plan.live = TRUE /\ plan.held = db["plan"][r.id].held
      /\ plan.rev = db["plan"][r.id].rev + 1
      /\ Merges(values, db["plan"][r.id], plan)
  BY <1>1, <1>4 DEF IsUpdated, Merges, Learnt
<1>8. PlanOK(plan) /\ plan.entry = db["plan"][r.id].entry
  <2> DEFINE row == db["plan"][r.id]
  <2>1. PlanOK(row)
    BY <1>4 DEF Shaped
  <2> HIDE DEF row
  <2>2. Merges(values, row, plan)
    BY <1>7 DEF row
  <2>3. /\ DOMAIN row \subseteq DOMAIN plan /\ plan.entry = row.entry
        /\ plan.due = row.due /\ plan.born = row.born /\ plan.rule = row.rule
        /\ plan.sub = row.sub /\ plan.status = "fulfilled" /\ plan.actual = a
    BY <1>5, <2>1, <2>2 DEF Merges, Columns, PlanOK
  <2>4. PlanOK(plan)
    BY <1>1, <2>1, <2>3 DEF PlanOK, Field
  <2> QED BY <2>3, <2>4 DEF row
<1>9. RowOK("plan", plan)
  <2>1. Shaped("plan", plan)
    BY <1>8 DEF Shaped
  <2>2. \A v \in plan.held : v[1] = "plan"
    BY <1>6, <1>7 DEF RowOK
  <2>3. plan.rev # 0
    BY <1>1, <1>7 DEF IsCurrent, IsRow
  <2> QED BY <1>7, <2>1, <2>2, <2>3 DEF RowOK
<1>10. actual.live = TRUE /\ actual.held = {} /\ "entry" \in DOMAIN actual /\ actual.entry = r.entry
  BY <1>1, <1>5 DEF IsAdded
<1>11. EntryOK(r.entry) /\ (Alone => EntryBacked(r.entry))
  BY <1>1, <1>4 DEF RequestOK, Valid, EntryOps
<1>12. RowOK("actual", actual)
  BY <1>10, <1>11 DEF RowOK, Shaped
<1>13. /\ \A p \in Ids["plan"] : db'["plan"][p] = IF p = r.id THEN plan ELSE db["plan"][p]
       /\ \A b \in Ids["actual"] : db'["actual"][b] = IF b = a THEN actual ELSE db["actual"][b]
  BY <1>1 DEF Written
<1>14. /\ \A t \in DOMAIN Ids : \A i \in Ids[t] : RowOK(t, db[t][i])
       /\ \A t \in DOMAIN Ids : \A i, j \in Ids[t] :
            i # j => db[t][i].held \cap db[t][j].held = {}
  BY DEF TypesInv, RowsInv
<1>15. ASSUME NEW t \in DOMAIN Ids, NEW i \in Ids[t]
       PROVE  /\ RowOK(t, db'[t][i])
              /\ db[t][i].live => db'[t][i].live
              /\ db'[t][i].held = db[t][i].held \/ db'[t][i].held = {}
              /\ Alone /\ db'[t][i].live => Backed(t, db'[t][i])
  <2>1. Alone /\ db[t][i].live => Backed(t, db[t][i])
    BY DEF AloneInv, BackedInv, Live
  <2>2. CASE t = "plan"
    <3>1. Alone => Backed("plan", plan)
      BY <1>4, <1>8 DEF Backed
    <3>2. CASE i = r.id
      BY <1>7, <1>9, <1>13, <2>2, <3>1, <3>2
    <3>3. CASE i # r.id
      BY <1>13, <1>14, <2>1, <2>2, <3>3
    <3> QED BY <3>2, <3>3
  <2>3. CASE t = "actual"
    <3>1. Alone => Backed("actual", actual)
      BY <1>10, <1>11 DEF Backed
    <3>2. CASE i = a
      BY <1>10, <1>12, <1>13, <2>3, <3>1, <3>2
    <3>3. CASE i # a
      BY <1>13, <1>14, <2>1, <2>3, <3>3
    <3> QED BY <3>2, <3>3
  <2>4. CASE t \notin {"plan", "actual"}
    BY <1>1, <1>14, <2>1, <2>4
  <2> QED BY <2>2, <2>3, <2>4
<1>16. \A t \in DOMAIN Ids : \A i, j \in Ids[t] :
         i # j => db'[t][i].held \cap db'[t][j].held = {}
  BY <1>14, <1>15
<1>17. \A t \in DOMAIN Ids : Live(t) \subseteq Live(t)'
  BY <1>15 DEF Live
<1>18. db'["account"] = db["account"] /\ db'.rule = db.rule /\ db'.sub = db.sub
  BY <1>1, TablesAssumption
<1>19. Alone => FollowInv'
  BY <1>18, FollowStays DEF AloneInv
<1> QED BY <1>2, <1>3, <1>15, <1>16, <1>17, <1>18, <1>19, GrowthKeeps

LEMMA GenerateKept ==
  ASSUME TypesInv, AloneInv, RecordsInv', NEW c \in Clients, Generate(c)
  PROVE  TypesInv' /\ AloneInv'
<1> DEFINE r == request[c]
           id == Numbered(r.plans)
           range == {id[p] : p \in r.plans}
<1>1. /\ Generated(r) /\ id \in [r.plans -> Free("plan")]
      /\ \A t \in DOMAIN Ids \ {"plan"} : db'[t] = db[t]
      /\ \A p \in r.plans : db'.plan[id[p]] = Planned(p)
      /\ \A i \in Ids["plan"] : i \notin range => db'.plan[i] = db.plan[i]
  BY GenerateWrites DEF TypesInv
<1>2. Writes(c, "generate")
  BY DEF Generate
<1>3. "generate" \notin Linking /\ "generate" # "idle" /\ "plan" \in DOMAIN Ids
  BY TablesAssumption DEF Linking
<1>4. r.op = "generate" /\ RequestOK(r) /\ (Alone => Valid(r))
  BY <1>2, <1>3, RequestTyped DEF Writes
<1> HIDE DEF r, id
<1>5. \A i \in range : \E p \in r.plans : i = id[p]
  OBVIOUS
<1> HIDE DEF range
<1>6. ASSUME NEW p \in r.plans
      PROVE  /\ RowOK("plan", Planned(p)) /\ Planned(p).live
             /\ Alone => Backed("plan", Planned(p))
  <2>1. /\ {"rule", "born", "status", "actual", "held"} \subseteq DOMAIN p
        /\ DOMAIN p \cap {"rev", "live"} = {}
        /\ p.held = {Occurrence(p.rule, p.born)}
    BY <1>1 DEF Generated
  <2>2. PlanOK(p) /\ (Alone => EntryBacked(p.entry))
    BY <1>4 DEF RequestOK, Valid
  <2> DEFINE new == Planned(p)
  <2>3. /\ DOMAIN new = DOMAIN p \cup {"rev", "live"}
        /\ \A f \in DOMAIN p : new[f] = p[f]
        /\ new.rev = 1 /\ new.live = TRUE
    BY <2>1 DEF Planned, &
  <2> HIDE DEF new
  <2>4. Shaped("plan", new)
    <3>1. Shaped("plan", p)
      BY <2>2 DEF Shaped
    <3> QED BY <2>3, <3>1, ShapedStays
  <2>5. \A v \in new.held : v[1] = "plan"
    BY <2>1, <2>3 DEF Occurrence
  <2>6. Alone => Backed("plan", new)
    BY <2>2, <2>3 DEF Backed, PlanOK
  <2> QED BY <2>3, <2>4, <2>5, <2>6 DEF RowOK, new
<1>7. /\ \A t \in DOMAIN Ids : \A i \in Ids[t] : RowOK(t, db[t][i])
      /\ \A t \in DOMAIN Ids : \A i, j \in Ids[t] :
           i # j => db[t][i].held \cap db[t][j].held = {}
  BY DEF TypesInv, RowsInv
<1>8. ASSUME NEW t \in DOMAIN Ids, NEW i \in Ids[t]
      PROVE  /\ RowOK(t, db'[t][i])
             /\ db[t][i].live => db'[t][i].live
             /\ Alone /\ db'[t][i].live => Backed(t, db'[t][i])
  <2>1. Alone /\ db[t][i].live => Backed(t, db[t][i])
    BY DEF AloneInv, BackedInv, Live
  <2>2. CASE t = "plan" /\ i \in range
    <3>1. PICK p \in r.plans : db'[t][i] = Planned(p)
      BY <1>1, <1>5, <2>2
    <3> QED BY <1>6, <2>2, <3>1
  <2>3. CASE t = "plan" /\ i \notin range
    BY <1>1, <1>7, <2>1, <2>3
  <2>4. CASE t # "plan"
    BY <1>1, <1>7, <2>1, <2>4
  <2> QED BY <2>2, <2>3, <2>4
<1>9. ASSUME NEW t \in DOMAIN Ids, NEW i \in Ids[t], NEW j \in Ids[t], i # j
      PROVE  db'[t][i].held \cap db'[t][j].held = {}
  <2>1. CASE t = "plan"
    BY <1>9, <2>1 DEF RecordsInv, PlansInv
  <2>2. CASE t # "plan"
    BY <1>1, <1>7, <1>9, <2>2
  <2> QED BY <2>1, <2>2
<1>10. \A t \in DOMAIN Ids : Live(t) \subseteq Live(t)'
  BY <1>8 DEF Live
<1>11. db'["account"] = db["account"] /\ db'.rule = db.rule /\ db'.sub = db.sub
  BY <1>1, TablesAssumption
<1>12. Alone => FollowInv'
  BY <1>11, FollowStays DEF AloneInv
<1> QED BY <1>2, <1>3, <1>8, <1>9, <1>10, <1>11, <1>12, GrowthKeeps

\* The row of a subscription and the rules, as an update leaves them.
Resubscribed(r, row, new) ==
  /\ r.settings.amount \in Prices
  /\ {"category", "amount", "schedule", "status"} \subseteq DOMAIN new
  /\ new.live = TRUE /\ new.held = r.held /\ IsRow(new) /\ new.rev > 0
  /\ new.category = r.settings.category /\ new.amount = r.settings.amount
  /\ new.schedule = r.settings.schedule /\ new.status = r.settings.status
  /\ "account" \in DOMAIN row => "account" \in DOMAIN new /\ new.account = row.account
  /\ \A t \in DOMAIN Ids \ {"sub", "rule"} : db'[t] = db[t]
  /\ Written("sub", r.id, new)
  /\ \A i \in Ids["rule"] : db'["rule"][i] = Synchronized(r.id, r.settings & row)[i]

LEMMA SubscriptionWrites ==
  ASSUME RecordsInv, NEW c \in Clients, UpdateSubscription(c),
         NEW r, r = request[c], NEW row, row = db["sub"][r.id]
  PROVE  \E new : Resubscribed(r, row, new)
<1> DEFINE sub == r.settings & row
           values == r.settings & [prices |-> sub.prices \o PriceChange(r)]
           rules == Synchronized(r.id, sub)
<1>1. /\ Commits(c, "update_sub", r.drops, r.adds)
      /\ db' = [Updated(r, values) EXCEPT !.rule = rules]
  <2>1. Writes(c, "update_sub")
    BY Zenon DEF UpdateSubscription
  <2>2. db' = [Updated(r, values) EXCEPT !.rule = rules]
    BY DEF UpdateSubscription
  <2> QED BY <2>1, <2>2, Zenon DEF Writes
<1>2. "update_sub" \in Changes /\ TableOf["update_sub"] = "sub"
  BY DEF Changes, TableOf
<1>3. /\ r.op = "update_sub" /\ ~Stale(r) /\ Informed(r)
      /\ r.table = "sub" /\ r.id \in Ids["sub"] /\ row.rev > 0
  BY <1>1, <1>2, CommitsRow, ZenonT(40)
<1>4. Tabled /\ "sub" \in DOMAIN Ids /\ "rule" \in DOMAIN Ids
  BY TablesAssumption DEF RecordsInv
<1>5. /\ r.settings.amount \in Prices
      /\ DOMAIN r.settings = {"category", "amount", "schedule", "status"}
  BY <1>3 DEF Informed
<1>6. /\ DOMAIN values = {"category", "amount", "schedule", "status", "prices"}
      /\ \A f \in DOMAIN r.settings : values[f] = r.settings[f]
  <2> HIDE DEF sub
  <2> QED BY <1>5 DEF &
<1> HIDE DEF values, rules
<1>7. PICK new : IsUpdated(r, values, new)
  BY <1>3, <1>4, Revises
<1>8. /\ Updated(r, values) = [db EXCEPT !["sub"][r.id] = new]
      /\ IsRow(new) /\ new.rev = row.rev + 1 /\ new.live = TRUE /\ new.held = r.held
      /\ DOMAIN new = DOMAIN values \cup DOMAIN row
      /\ \A f \in DOMAIN values \ Columns : new[f] = values[f]
      /\ \A f \in DOMAIN row \ (DOMAIN values \cup Columns) : new[f] = row[f]
  BY <1>3, <1>7 DEF IsUpdated
<1>9. /\ {"category", "amount", "schedule", "status"} \subseteq DOMAIN new
      /\ new.category = r.settings.category /\ new.amount = r.settings.amount
      /\ new.schedule = r.settings.schedule /\ new.status = r.settings.status
      /\ "account" \in DOMAIN row => "account" \in DOMAIN new /\ new.account = row.account
  BY <1>5, <1>6, <1>8 DEF Columns
<1>10. new.rev > 0
  BY <1>3, <1>4, <1>8 DEF Tabled, IsRow
<1>11. /\ DOMAIN db = DOMAIN Ids /\ \A t \in DOMAIN Ids : DOMAIN db[t] = Ids[t]
  BY <1>4 DEF Tabled
<1>12. /\ \A t \in DOMAIN Ids \ {"sub", "rule"} : db'[t] = db[t]
       /\ db'.sub = [db.sub EXCEPT ![r.id] = new]
       /\ db'.rule = rules
  BY <1>1, <1>4, <1>8, <1>11
<1>13. Written("sub", r.id, new)
  BY <1>4, <1>11, <1>12 DEF Written
<1>14. /\ \A t \in DOMAIN Ids \ {"sub", "rule"} : db'[t] = db[t]
       /\ \A i \in Ids["rule"] : db'["rule"][i] = Synchronized(r.id, r.settings & row)[i]
  BY <1>12 DEF rules
<1> HIDE DEF sub
<1>15. Resubscribed(r, row, new)
  BY <1>5, <1>8, <1>9, <1>10, <1>13, <1>14 DEF Resubscribed
<1> QED BY <1>15, SMTT(30)

LEMMA UpdateSubscriptionKept ==
  ASSUME TypesInv, AloneInv, RecordsInv', NEW c \in Clients, UpdateSubscription(c)
  PROVE  TypesInv' /\ AloneInv'
<1> DEFINE r == request[c]
           row == db["sub"][r.id]
           sub == r.settings & row
<1>0. PICK new : Resubscribed(r, row, new)
  <2>1. RecordsInv
    BY DEF TypesInv
  <2> HIDE DEF sub
  <2> QED BY <2>1, SubscriptionWrites
<1>1. /\ r.settings.amount \in Prices
      /\ {"category", "amount", "schedule", "status"} \subseteq DOMAIN new
      /\ new.live = TRUE /\ new.held = r.held /\ IsRow(new) /\ new.rev > 0
      /\ new.category = r.settings.category /\ new.amount = r.settings.amount
      /\ new.schedule = r.settings.schedule /\ new.status = r.settings.status
      /\ "account" \in DOMAIN row => "account" \in DOMAIN new /\ new.account = row.account
      /\ \A t \in DOMAIN Ids \ {"sub", "rule"} : db'[t] = db[t]
      /\ Written("sub", r.id, new)
      /\ \A i \in Ids["rule"] : db'["rule"][i] = Synchronized(r.id, sub)[i]
  BY <1>0 DEF Resubscribed
<1>2. Writes(c, "update_sub")
  BY DEF UpdateSubscription
<1>3. /\ "update_sub" \in Changes /\ TableOf["update_sub"] = "sub"
      /\ "update_sub" \notin Linking /\ "update_sub" # "idle"
      /\ "sub" \in DOMAIN Ids /\ "rule" \in DOMAIN Ids
  BY TablesAssumption DEF Changes, TableOf, Linking
<1>4. /\ r.op = "update_sub" /\ RequestOK(r) /\ r.table = "sub" /\ r.id \in Ids["sub"]
      /\ r.id \in Live("sub") /\ Shaped("sub", row)
      /\ Alone => Backed("sub", row)
  BY <1>2, <1>3, CurrentOK
<1>5. /\ DOMAIN r.settings = {"category", "amount", "schedule", "status"}
      /\ ~Collides(r) /\ \A v \in r.held : v[1] = "sub"
  <2>1. Informed(r) /\ \A v \in r.held : v[1] = r.table
    BY <1>2, <1>3, RequestTyped DEF Writes
  <2>2. ~Collides(r)
    BY <1>2 DEF Writes, Commits, Refusable
  <2> QED BY <1>4, <2>1, <2>2 DEF Informed
<1>6. SubOK(row)
  BY <1>4 DEF Shaped
<1>7. SubOK(new) /\ new.account = row.account
  BY <1>1, <1>4, <1>6 DEF SubOK, RequestOK
<1>8. /\ sub.account = row.account /\ sub.category = new.category
      /\ sub.amount = new.amount /\ sub.schedule = new.schedule
  <2> HIDE DEF row
  <2> QED BY <1>1, <1>5, <1>6 DEF &, SubOK
<1> HIDE DEF sub
<1>9. SubscriptionEntry(sub) = SubscriptionEntry(new)
  BY <1>7, <1>8 DEF SubscriptionEntry
<1>10. /\ EntryOK(SubscriptionEntry(new))
       /\ Alone => EntryBacked(SubscriptionEntry(new))
  BY <1>4, <1>7, DictatedOK DEF Backed
<1> HIDE DEF row, r
<1>11. RowOK("sub", new)
  BY <1>1, <1>5, <1>7 DEF RowOK, Shaped
<1>12. /\ \A t \in DOMAIN Ids : \A i \in Ids[t] : RowOK(t, db[t][i]) /\ IsRow(db[t][i])
       /\ \A t \in DOMAIN Ids : \A i, j \in Ids[t] :
            i # j => db[t][i].held \cap db[t][j].held = {}
  BY DEF TypesInv, RowsInv, RecordsInv, Tabled
<1>13. \A i \in Ids["sub"] : db'["sub"][i] = IF i = r.id THEN new ELSE db["sub"][i]
  BY <1>1 DEF Written
<1>14. ASSUME NEW i \in Ids["rule"], NEW old, old = db["rule"][i],
              NEW rule, rule = db'["rule"][i]
       PROVE  \/ /\ rule = old
                 /\ Linked(i, r.id) => Mirrors(old, new)
              \/ /\ Linked(i, r.id) /\ DOMAIN rule = DOMAIN old
                 /\ rule.entry = SubscriptionEntry(new) /\ rule.schedule = new.schedule
                 /\ rule.rev = old.rev + 1
                 /\ \A f \in DOMAIN old \ {"entry", "schedule", "rev"} : rule[f] = old[f]
  <2>1. rule = IF Linked(i, r.id) /\ ~Mirrors(old, sub)
               THEN [old EXCEPT !.entry = SubscriptionEntry(sub),
                                !.schedule = sub.schedule, !.rev = @ + 1]
               ELSE old
    BY <1>1, <1>14 DEF Synchronized
  <2>2. Mirrors(old, sub) => Mirrors(old, new)
    BY <1>8, <1>9 DEF Mirrors
  <2>3. CASE Linked(i, r.id) /\ ~Mirrors(old, sub)
    <3>1. RuleOK(old) /\ "rev" \in DOMAIN old
      <4>1. old.live /\ IsRow(old) /\ RowOK("rule", old)
        BY <1>3, <1>12, <1>14, <2>3 DEF Linked, Live
      <4>2. old.rev > 0
        BY <4>1 DEF IsRow
      <4> QED BY <4>1, <4>2 DEF RowOK, Shaped, IsRow, Columns
    <3>2. rule = [old EXCEPT !.entry = SubscriptionEntry(sub),
                             !.schedule = sub.schedule, !.rev = @ + 1]
      BY <2>1, <2>3
    <3>3. /\ DOMAIN rule = DOMAIN old
          /\ rule.entry = SubscriptionEntry(sub) /\ rule.schedule = sub.schedule
          /\ rule.rev = old.rev + 1
          /\ \A f \in DOMAIN old \ {"entry", "schedule", "rev"} : rule[f] = old[f]
      BY <3>1, <3>2 DEF RuleOK
    <3> QED BY <1>8, <1>9, <2>3, <3>3
  <2>4. CASE ~(Linked(i, r.id) /\ ~Mirrors(old, sub))
    BY <2>1, <2>2, <2>4
  <2> QED BY <2>3, <2>4, SMTT(30)
<1>15. ASSUME NEW i \in Ids["rule"], NEW rule, rule = db'["rule"][i]
       PROVE  /\ RowOK("rule", rule)
              /\ rule.live = db["rule"][i].live /\ rule.held = db["rule"][i].held
              /\ Alone /\ rule.live => Backed("rule", rule)
  <2> DEFINE old == db["rule"][i]
  <2>1. RowOK("rule", old) /\ IsRow(old) /\ (Alone /\ old.live => Backed("rule", old))
    BY <1>3, <1>12 DEF AloneInv, BackedInv, Live
  <2>2. \/ rule = old
        \/ /\ Linked(i, r.id) /\ DOMAIN rule = DOMAIN old
           /\ rule.entry = SubscriptionEntry(new) /\ rule.schedule = new.schedule
           /\ rule.rev = old.rev + 1
           /\ \A f \in DOMAIN old \ {"entry", "schedule", "rev"} : rule[f] = old[f]
    BY <1>14, <1>15
  <2>3. Linked(i, r.id) => old.live
    BY DEF Linked, Live
  <2> HIDE DEF old
  <2>4. CASE rule = old
    BY <2>1, <2>4 DEF old
  <2>5. CASE /\ Linked(i, r.id) /\ DOMAIN rule = DOMAIN old
             /\ rule.entry = SubscriptionEntry(new) /\ rule.schedule = new.schedule
             /\ rule.rev = old.rev + 1
             /\ \A f \in DOMAIN old \ {"entry", "schedule", "rev"} : rule[f] = old[f]
    <3>1. old.rev > 0 /\ rule.rev > 0
      BY <2>1, <2>3, <2>5 DEF IsRow
    <3>2. rule.live = old.live /\ rule.held = old.held
      BY <2>1, <2>5 DEF IsRow, Columns
    <3>3. RuleOK(old)
      BY <2>1, <3>1 DEF RowOK, Shaped
    <3>4. RuleOK(rule)
      BY <1>7, <1>10, <2>5, <3>3 DEF RuleOK, SubOK
    <3>5. RowOK("rule", rule)
      BY <2>1, <3>1, <3>2, <3>4 DEF RowOK, Shaped
    <3>6. Alone => Backed("rule", rule)
      BY <1>10, <2>5 DEF Backed
    <3> QED BY <3>2, <3>5, <3>6 DEF old
  <2> QED BY <2>2, <2>4, <2>5
<1>16. ASSUME NEW t \in DOMAIN Ids, NEW i \in Ids[t]
       PROVE  /\ RowOK(t, db'[t][i])
              /\ db[t][i].live => db'[t][i].live
              /\ Alone /\ db'[t][i].live => Backed(t, db'[t][i])
  <2>1. Alone /\ db[t][i].live => Backed(t, db[t][i])
    BY DEF AloneInv, BackedInv, Live
  <2>2. CASE t = "sub"
    <3>1. Alone => Backed("sub", new)
      BY <1>4, <1>7 DEF Backed
    <3>2. CASE i = r.id
      BY <1>1, <1>11, <1>13, <2>2, <3>1, <3>2
    <3>3. CASE i # r.id
      BY <1>12, <1>13, <2>1, <2>2, <3>3
    <3> QED BY <3>2, <3>3
  <2>3. CASE t = "rule"
    BY <1>15, <2>3
  <2>4. CASE t \notin {"sub", "rule"}
    BY <1>1, <1>12, <2>1, <2>4
  <2> QED BY <2>2, <2>3, <2>4
<1>17. ASSUME NEW t \in DOMAIN Ids, NEW i \in Ids[t], NEW j \in Ids[t], i # j
       PROVE  db'[t][i].held \cap db'[t][j].held = {}
  <2>1. CASE t = "sub"
    <3>1. \A k \in Ids["sub"] \ {r.id} : db["sub"][k].held \cap r.held = {}
      BY <1>3, <1>4, <1>5 DEF Collides
    <3> QED BY <1>1, <1>12, <1>13, <1>17, <2>1, <3>1
  <2>2. CASE t = "rule"
    BY <1>12, <1>15, <1>17, <2>2
  <2>3. CASE t \notin {"sub", "rule"}
    BY <1>1, <1>12, <1>17, <2>3
  <2> QED BY <2>1, <2>2, <2>3
<1>18. \A t \in DOMAIN Ids : Live(t) \subseteq Live(t)'
  BY <1>16 DEF Live
<1>19. db'["account"] = db["account"]
  BY <1>1, TablesAssumption
<1>20. ASSUME Alone
       PROVE  FollowInv'
  <2>1. ASSUME NEW i \in Ids["rule"], NEW rule, rule = db'["rule"][i], rule.live
        PROVE  Follows(rule)'
    <3> DEFINE old == db["rule"][i]
    <3>1. i \in Live("rule") /\ Follows(old) /\ RuleOK(old)
      <4>1. i \in Live("rule")
        BY <1>15, <2>1 DEF Live
      <4> QED BY <1>3, <1>20, <4>1, LiveOK DEF AloneInv, FollowInv, Shaped
    <3>2. \/ /\ rule = old
             /\ Linked(i, r.id) => Mirrors(old, new)
          \/ /\ Linked(i, r.id) /\ DOMAIN rule = DOMAIN old
             /\ rule.entry = SubscriptionEntry(new) /\ rule.schedule = new.schedule
             /\ rule.rev = old.rev + 1
             /\ \A f \in DOMAIN old \ {"entry", "schedule", "rev"} : rule[f] = old[f]
      BY <1>14, <2>1
    <3>3. Linked(i, r.id) <=> old.sub = r.id /\ old.status # "ended"
      BY <3>1 DEF Linked
    <3>4. rule.sub = old.sub /\ rule.status = old.status
      <4> HIDE DEF old
      <4> QED BY <3>1, <3>2 DEF RuleOK
    <3>5. CASE rule.sub = r.id
      <4>1. rule.status # "ended" => Mirrors(rule, new)
        BY <3>2, <3>3, <3>4, <3>5 DEF Mirrors
      <4>2. db'["sub"][r.id] = new
        BY <1>4, <1>13
      <4> QED BY <1>1, <1>4, <3>5, <4>1, <4>2 DEF Follows, Kept, Mirrors, SubscriptionEntry
    <3>6. CASE rule.sub # r.id
      <4>1. rule = old
        BY <3>2, <3>3, <3>4, <3>6
      <4>2. rule.sub \in Ids["sub"] => db'["sub"][rule.sub] = db["sub"][rule.sub]
        BY <1>13, <3>6
      <4>3. Follows(rule)
        BY <3>1, <4>1
      <4> HIDE DEF old
      <4> QED BY <4>2, <4>3 DEF Follows, Kept, Live, Mirrors, SubscriptionEntry
    <3> QED BY <3>5, <3>6
  <2>2. \A i \in Live("rule")' : \E rule : rule = db'["rule"][i] /\ Follows(rule)'
    BY <2>1 DEF Live
  <2> QED BY <2>2 DEF FollowInv
<1> QED BY <1>2, <1>3, <1>16, <1>17, <1>18, <1>19, <1>20, GrowthKeeps

LEMMA SubscriptionKept ==
  ASSUME TypesInv, AloneInv, RecordsInv', NEW c \in Clients,
         CreateSubscription(c) \/ DeleteSubscription(c)
  PROVE  TypesInv' /\ AloneInv'
<1>1. CASE CreateSubscription(c)
  <2> DEFINE row == [account |-> request[c].account, category |-> request[c].category,
                     amount |-> request[c].amount, schedule |-> request[c].schedule,
                     status |-> "active", prices |-> <<>>]
  <2>1. Writes(c, "create_sub") /\ db' = Added("sub", row)
    BY <1>1 DEF CreateSubscription
  <2>2. /\ request[c].op = "create_sub" /\ RequestOK(request[c]) /\ Informed(request[c])
        /\ Alone => Valid(request[c])
    BY <2>1, RequestTyped DEF Writes
  <2>3. /\ DOMAIN row = {"account", "category", "amount", "schedule", "status", "prices"}
        /\ row.account = request[c].account /\ row.category = request[c].category
        /\ row.amount = request[c].amount /\ row.schedule = request[c].schedule
        /\ row.status = "active"
    OBVIOUS
  <2> HIDE DEF row
  <2>4. Shaped("sub", row)
    BY <2>2, <2>3 DEF Shaped, SubOK, RequestOK, Informed, SubscriptionStatus
  <2>5. Alone => Fits("sub", row)
    BY <2>2, <2>3 DEF Fits, Backed, Valid
  <2>6. /\ "create_sub" \in Creates /\ TableOf["create_sub"] = "sub"
        /\ DOMAIN row \cap {"rev", "live"} = {} /\ "held" \notin DOMAIN row
    BY <2>3 DEF Creates, TableOf
  <2>7. ASSUME Alone
        PROVE  FollowInv'
    <3>1. Goes(c, {"sub"})
      BY <2>1, <2>6, InsertCommits DEF Writes, TypesInv
    <3>2. PICK new : IsAdded("sub", row, new) /\ Written("sub", NewId("sub"), new)
      BY <2>1, <2>6, InsertCommits DEF Writes, TypesInv
    <3>3. db'.rule = db.rule
      BY <3>1, TablesAssumption DEF Goes
    <3>4. \A s \in Kept("sub") : s # NewId("sub") /\ db'.sub[s] = db.sub[s]
      BY <3>2 DEF IsAdded, Free, Kept, Written
    <3>5. ASSUME NEW rule, Follows(rule)
          PROVE  Follows(rule)'
      BY <3>4, <3>5 DEF Follows, Kept, Live, Mirrors, SubscriptionEntry
    <3> QED BY <2>7, <3>3, <3>5 DEF AloneInv, FollowInv, Live
  <2> QED BY <2>1, <2>4, <2>5, <2>6, <2>7, InsertWrites
<1>2. CASE DeleteSubscription(c)
  <2>1. Writes(c, "delete_sub") /\ db' = SoftDeleted(request[c])
    BY <1>2 DEF DeleteSubscription
  <2>2. /\ "delete_sub" \in Changes \ Linking /\ TableOf["delete_sub"] = "sub"
    BY DEF Changes, Linking, TableOf
  <2>3. \A l \in links : Avoids(l, "sub", request[c].id)
    BY AvoidsOK DEF TypesInv, TargetModels
  <2> QED BY <2>1, <2>2, <2>3, DeleteKeeps
<1> QED BY <1>1, <1>2

LEMMA SavingKept ==
  ASSUME TypesInv, AloneInv, RecordsInv', NEW c \in Clients,
         CreateSaving(c) \/ UpdateSaving(c) \/ Contribute(c)
  PROVE  TypesInv' /\ AloneInv'
<1>1. CASE CreateSaving(c)
  <2> DEFINE row == [account |-> request[c].account, target |-> request[c].target,
                     current |-> 0, status |-> "active", set |-> 0, given |-> 0]
  <2>1. Writes(c, "create_saving") /\ db' = Added("saving", row)
    BY <1>1 DEF CreateSaving
  <2>2. /\ request[c].op = "create_saving" /\ RequestOK(request[c])
        /\ Alone => Valid(request[c])
    BY <2>1, RequestTyped DEF Writes
  <2>3. /\ DOMAIN row = {"account", "target", "current", "status", "set", "given"}
        /\ row.account = request[c].account /\ row.target = request[c].target
        /\ row.current = 0 /\ row.status = "active"
    OBVIOUS
  <2> HIDE DEF row
  <2>4. Shaped("saving", row)
    <3>1. 0 \in 0 .. MaxSaved
      BY GoalsAssumption
    <3> QED BY <2>2, <2>3, <3>1 DEF Shaped, SavingOK, RequestOK, GoalStatus
  <2>5. Alone => Fits("saving", row)
    BY <2>2, <2>3 DEF Fits, Backed, Valid
  <2>6. "create_saving" \in Creates /\ TableOf["create_saving"] = "saving"
    BY DEF Creates, TableOf
  <2> QED BY <2>1, <2>3, <2>4, <2>5, <2>6, InsertWrites
<1>2. CASE UpdateSaving(c)
  <2> DEFINE values == request[c].goal
  <2>1. Writes(c, "update_saving") /\ db' = Updated(request[c], values)
    BY <1>2 DEF UpdateSaving
  <2>2. /\ "update_saving" \in Changes \ Linking /\ TableOf["update_saving"] = "saving"
    BY DEF Changes, Linking, TableOf
  <2>3. /\ request[c].op = "update_saving" /\ RequestOK(request[c])
        /\ Alone => Valid(request[c])
    BY <2>1, <2>2, CurrentOK
  <2>4. SavingOK(values) /\ (Alone => values.account \in Field(Live("account")))
    BY <2>3 DEF RequestOK, Valid
  <2> HIDE DEF values
  <2>5. ASSUME NEW row, NEW new, Merges(values, row, new)
        PROVE  Shaped("saving", new) /\ (Alone => Fits("saving", new))
    <3>1. \A f \in DOMAIN values \ Columns : f \in DOMAIN new /\ new[f] = values[f]
      BY <2>5 DEF Merges
    <3>2. Shaped("saving", values) /\ (Alone => Fits("saving", values))
      BY <2>4 DEF Shaped, Fits, Backed
    <3> QED BY <3>1, <3>2, ShapedStays, FitsStays
  <2> QED BY <2>1, <2>2, <2>5, UpdateWrites
<1>3. CASE Contribute(c)
  <2> DEFINE row == db["saving"][request[c].id]
             values == [current |-> request[c].goal.current, status |-> request[c].goal.status,
                        given |-> row.given + request[c].amount]
  <2>1. Writes(c, "contribute") /\ db' = Updated(request[c], values)
    BY <1>3 DEF Contribute
  <2>2. /\ "contribute" \in Changes \ Linking /\ TableOf["contribute"] = "saving"
    BY DEF Changes, Linking, TableOf
  <2>3. /\ request[c].op = "contribute" /\ RequestOK(request[c]) /\ Shaped("saving", row)
        /\ Alone => Backed("saving", row)
    BY <2>1, <2>2, CurrentOK
  <2>4. /\ DOMAIN values = {"current", "status", "given"}
        /\ values.current = request[c].goal.current /\ values.status = request[c].goal.status
    OBVIOUS
  <2> HIDE DEF values, row
  <2>5. ASSUME NEW new, Merges(values, row, new)
        PROVE  Shaped("saving", new) /\ (Alone => Fits("saving", new))
    <3>1. SavingOK(row)
      BY <2>3 DEF Shaped
    <3>2. /\ DOMAIN row \subseteq DOMAIN new /\ new.account = row.account
          /\ new.target = row.target /\ new.current = values.current
          /\ new.status = values.status
      BY <2>4, <2>5, <3>1 DEF Merges, Columns, SavingOK
    <3>3. SavingOK(new)
      BY <2>3, <2>4, <3>1, <3>2 DEF SavingOK, RequestOK
    <3> QED BY <2>3, <3>2, <3>3 DEF Shaped, Fits, Backed
  <2> QED BY <2>1, <2>2, <2>5, UpdateWrites DEF row
<1> QED BY <1>1, <1>2, <1>3

LEMMA GoalKept ==
  ASSUME TypesInv, AloneInv, RecordsInv', NEW c \in Clients, CreateGoal(c) \/ UpdateGoal(c)
  PROVE  TypesInv' /\ AloneInv'
<1>1. CASE CreateGoal(c)
  <2> DEFINE row == [progress |-> request[c].progress, status |-> request[c].status]
  <2>1. Writes(c, "create_goal") /\ db' = Added("goal", row)
    BY <1>1 DEF CreateGoal
  <2>2. /\ request[c].op = "create_goal" /\ RequestOK(request[c])
    BY <2>1, RequestTyped DEF Writes
  <2>3. /\ DOMAIN row = {"progress", "status"}
        /\ row.progress = request[c].progress /\ row.status = request[c].status
    OBVIOUS
  <2> HIDE DEF row
  <2>4. Shaped("goal", row) /\ Fits("goal", row)
    BY <2>2, <2>3 DEF Shaped, GoalOK, RequestOK, Fits, Backed
  <2>5. "create_goal" \in Creates /\ TableOf["create_goal"] = "goal"
    BY DEF Creates, TableOf
  <2> QED BY <2>1, <2>3, <2>4, <2>5, InsertWrites
<1>2. CASE UpdateGoal(c)
  <2> DEFINE values == request[c].goal
  <2>1. Writes(c, "update_goal") /\ db' = Updated(request[c], values)
    BY <1>2 DEF UpdateGoal
  <2>2. /\ "update_goal" \in Changes \ Linking /\ TableOf["update_goal"] = "goal"
    BY DEF Changes, Linking, TableOf
  <2>3. /\ request[c].op = "update_goal" /\ RequestOK(request[c])
    BY <2>1, <2>2, CurrentOK
  <2>4. Shaped("goal", values) /\ Fits("goal", values)
    BY <2>3 DEF RequestOK, Shaped, Fits, Backed
  <2> HIDE DEF values
  <2>5. ASSUME NEW row, NEW new, Merges(values, row, new)
        PROVE  Shaped("goal", new) /\ Fits("goal", new)
    <3>1. \A f \in DOMAIN values \ Columns : f \in DOMAIN new /\ new[f] = values[f]
      BY <2>5 DEF Merges
    <3> QED BY <2>4, <3>1, ShapedStays, FitsStays
  <2> QED BY <2>1, <2>2, <2>5, UpdateWrites
<1> QED BY <1>1, <1>2

LEMMA CommitmentKept ==
  ASSUME TypesInv, AloneInv, RecordsInv', NEW c \in Clients,
         \/ CreateCommitment(c) \/ UpdateCommitment(c)
         \/ ArchiveCommitment(c) \/ DeleteCommitment(c)
  PROVE  TypesInv' /\ AloneInv'
<1>1. CASE CreateCommitment(c)
  <2> DEFINE row == [terms |-> request[c].terms, status |-> request[c].status]
  <2>1. Writes(c, "create_commitment") /\ db' = Added("commitment", row)
    BY <1>1 DEF CreateCommitment
  <2>2. /\ request[c].op = "create_commitment" /\ RequestOK(request[c])
    BY <2>1, RequestTyped DEF Writes
  <2>3. DOMAIN row = {"terms", "status"} /\ row.status = request[c].status
    OBVIOUS
  <2> HIDE DEF row
  <2>4. Shaped("commitment", row) /\ Fits("commitment", row)
    BY <2>2, <2>3 DEF Shaped, RequestOK, Fits, Backed
  <2>5. "create_commitment" \in Creates /\ TableOf["create_commitment"] = "commitment"
    BY DEF Creates, TableOf
  <2> QED BY <2>1, <2>3, <2>4, <2>5, InsertWrites
<1>2. ASSUME NEW op \in {"update_commitment", "archive_commitment"}, Writes(c, op),
             NEW values, db' = Updated(request[c], values),
             "status" \in DOMAIN values, values.status \in CommitmentStatus
      PROVE  TypesInv' /\ AloneInv'
  <2>1. op \in Changes \ Linking /\ TableOf[op] = "commitment"
    BY DEF Changes, Linking, TableOf
  <2>2. ASSUME NEW row, NEW new, Merges(values, row, new)
        PROVE  Shaped("commitment", new) /\ Fits("commitment", new)
    <3>1. "status" \in DOMAIN new /\ new.status = values.status
      BY <1>2, <2>2 DEF Merges, Columns
    <3> QED BY <1>2, <3>1 DEF Shaped, Fits, Backed
  <2> QED BY <1>2, <2>1, <2>2, UpdateWrites
<1>3. CASE UpdateCommitment(c)
  <2> DEFINE values == [terms |-> request[c].values & db.commitment[request[c].id].terms,
                        status |-> request[c].status]
  <2>1. Writes(c, "update_commitment") /\ db' = Updated(request[c], values)
    BY <1>3 DEF UpdateCommitment
  <2>2. /\ request[c].op = "update_commitment" /\ RequestOK(request[c])
    BY <2>1, RequestTyped DEF Writes
  <2>3. "status" \in DOMAIN values /\ values.status = request[c].status
    OBVIOUS
  <2> HIDE DEF values
  <2> QED BY <1>2, <2>1, <2>2, <2>3 DEF RequestOK
<1>4. CASE ArchiveCommitment(c)
  <2> DEFINE values == [status |-> "archived"]
  <2>1. Writes(c, "archive_commitment") /\ db' = Updated(request[c], values)
    BY <1>4 DEF ArchiveCommitment
  <2>2. "status" \in DOMAIN values /\ values.status \in CommitmentStatus
    BY DEF CommitmentStatus
  <2> HIDE DEF values
  <2> QED BY <1>2, <2>1, <2>2
<1>5. CASE DeleteCommitment(c)
  <2>1. Writes(c, "delete_commitment") /\ db' = SoftDeleted(request[c])
    BY <1>5 DEF DeleteCommitment
  <2>2. /\ "delete_commitment" \in Changes \ Linking
        /\ TableOf["delete_commitment"] = "commitment"
    BY DEF Changes, Linking, TableOf
  <2>3. /\ request[c].op = "delete_commitment" /\ (Alone => Valid(request[c]))
    BY <2>1, <2>2, CurrentOK
  <2>4. Alone => \A l \in links \ request[c].drops : Avoids(l, "commitment", request[c].id)
    <3>1. Alone => {l \in links : l[1] = "commitment" /\ l[2] = request[c].id}
                     \subseteq request[c].drops
      BY <2>3 DEF Valid
    <3> QED BY <3>1, AvoidsOK DEF TypesInv
  <2> QED BY <2>1, <2>2, <2>4, DeleteKeeps
<1> QED BY <1>1, <1>3, <1>4, <1>5

LEMMA BudgetKept ==
  ASSUME TypesInv, AloneInv, RecordsInv', NEW c \in Clients, CreateBudget(c) \/ UpdateBudget(c)
  PROVE  TypesInv' /\ AloneInv'
<1>1. \A row : Shaped("budget", row) /\ Fits("budget", row)
  BY DEF Shaped, Fits, Backed
<1>2. \A l : l[1] = "limit" => Leads(l)'
  BY DEF Leads
<1>3. CASE CreateBudget(c)
  <2> DEFINE row == [named |-> TRUE]
             adds == Limits(NewId("budget"), request[c].limits)
  <2>1. /\ Commits(c, "create_budget", {}, adds)
        /\ db' = Added("budget", row)
    BY <1>3 DEF CreateBudget
  <2>2. /\ "create_budget" \in Creates /\ TableOf["create_budget"] = "budget"
        /\ "create_budget" # "idle"
    BY DEF Creates, TableOf
  <2>3. request[c].op = "create_budget" /\ RequestOK(request[c])
    BY <2>1, <2>2, RequestTyped
  <2>4. request[c].limits \subseteq Ids["category"]
    BY <2>3 DEF RequestOK
  <2>5. \A l \in adds : l[1] = "limit" /\ LinkOK(l)
    BY <2>4 DEF Limits, LinkOK
  <2>6. DOMAIN row = {"named"}
    OBVIOUS
  <2> HIDE DEF row, adds
  <2> QED BY <1>1, <1>2, <2>1, <2>2, <2>5, <2>6, InsertKeeps
<1>4. CASE UpdateBudget(c)
  <2> DEFINE values == [named |-> TRUE]
             adds == request[c].adds
  <2>1. PICK drops : Commits(c, "update_budget", drops, adds) /\ db' = Updated(request[c], values)
    BY <1>4 DEF UpdateBudget
  <2>2. /\ "update_budget" \in Changes /\ TableOf["update_budget"] = "budget"
        /\ "update_budget" # "idle"
    BY DEF Changes, TableOf
  <2>3. /\ request[c].op = "update_budget" /\ RequestOK(request[c])
        /\ \A l \in adds : LinkOK(l)
    BY <2>1, <2>2, RequestTyped
  <2>4. \A l \in adds : l[1] = "limit"
    BY <2>3 DEF RequestOK
  <2> HIDE DEF values, adds
  <2> QED BY <1>1, <1>2, <2>1, <2>2, <2>3, <2>4, UpdateKeeps
<1> QED BY <1>3, <1>4

\* A link that a note is given leads to it, from it or from a commitment
\* that the transaction has found active.
LEMMA NoteLinksLead ==
  ASSUME NEW n, n \in Live("note")', NEW l, l[1] \in {"tag", "entity", "commitment"},
         l[1] = "entity" => l[2] = n,
         l[1] = "commitment" => l[3] = <<"note", n>> /\ l[2] \in Live("commitment")'
  PROVE  Leads(l)'
<1>1. CASE l[1] = "commitment"
  <2>1. l[3][1] = "note" /\ l[3][2] = n
    BY <1>1
  <2>2. l[3][2] \in Live(l[3][1])'
    BY <2>1
  <2> QED BY <1>1, <2>2 DEF Leads
<1>2. CASE l[1] # "commitment"
  BY <1>2 DEF Leads
<1> QED BY <1>1, <1>2

LEMMA NoteKept ==
  ASSUME TypesInv, AloneInv, RecordsInv', NEW c \in Clients,
         CreateNote(c) \/ UpdateNote(c) \/ DeleteNote(c)
  PROVE  TypesInv' /\ AloneInv'
<1>1. CASE CreateNote(c)
  <2> DEFINE row == [held |-> request[c].held, date |-> request[c].date]
             n == NewId("note")
             adds == NoteLinks(n, request[c].body)
  <2>1. Commits(c, "create_note", {}, adds) /\ db' = Added("note", row)
    BY <1>1 DEF CreateNote
  <2>2. /\ "create_note" \in Creates /\ TableOf["create_note"] = "note"
        /\ "create_note" # "idle"
    BY DEF Creates, TableOf
  <2>3. request[c].op = "create_note" /\ RequestOK(request[c]) /\ ~Misses(request[c])
    BY <2>1, <2>2, RequestTyped
  <2>4. /\ DOMAIN row = {"held", "date"} /\ row.held = request[c].held
        /\ row.date = request[c].date
    OBVIOUS
  <2> HIDE DEF row
  <2>5. /\ request[c].held \subseteq Daily(request[c].date)
        /\ LinksBodyOK(request[c].body) /\ request[c].needs = Needed(request[c].body)
    BY <2>3 DEF RequestOK
  <2>6. PICK new : IsAdded("note", row, new) /\ Written("note", n, new)
    BY <2>1, <2>2, <2>4, InsertCommits DEF TypesInv
  <2>7. Goes(c, {"note"})
    BY <2>1, <2>2, <2>4, InsertCommits DEF TypesInv
  <2>8. n \in Ids["note"] /\ new.live = TRUE
    BY <2>6 DEF IsAdded, Free
  <2>9. \A l \in adds :
          /\ LinkOK(l)
          /\ l[1] \in {"tag", "entity", "commitment"}
          /\ l[1] = "entity" => l[2] = n
          /\ l[1] = "commitment" =>
               l[3] = <<"note", n>> /\ <<"commitment", l[2]>> \in request[c].needs
    <3> HIDE DEF n
    <3>1. PICK body : body = request[c].body
      OBVIOUS
    <3>2. LinksBodyOK(body) /\ request[c].needs = Needed(body) /\ adds = NoteLinks(n, body)
      BY <2>5, <3>1
    <3> HIDE DEF adds
    <3>3. ASSUME NEW k \in Ids["note"]
          PROVE  \A l \in NoteLinks(k, body) :
                   /\ LinkOK(l)
                   /\ l[1] \in {"tag", "entity", "commitment"}
                   /\ l[1] = "entity" => l[2] = k
                   /\ l[1] = "commitment" =>
                        l[3] = <<"note", k>> /\ <<"commitment", l[2]>> \in Needed(body)
      BY <3>2, NoteLinksOK
    <3> QED BY <2>8, <3>2, <3>3
  <2> HIDE DEF n, adds
  <2>10. n \in Live("note")'
    BY <2>6, <2>8 DEF Written, Live
  <2>11. Live("commitment") \subseteq Live("commitment")'
    BY <2>7, TablesAssumption DEF Goes, Live
  <2>12. \A k : <<"commitment", k>> \in request[c].needs => k \in Live("commitment")'
    BY <2>3, <2>11 DEF Misses
  <2>13. ASSUME NEW l \in adds
         PROVE  Leads(l)'
    <3>1. l[1] = "commitment" => l[3] = <<"note", n>> /\ l[2] \in Live("commitment")'
      BY <2>9, <2>12
    <3>2. l[1] \in {"tag", "entity", "commitment"} /\ (l[1] = "entity" => l[2] = n)
      BY <2>9
    <3> QED BY <2>10, <3>1, <3>2, NoteLinksLead
  <2>14. Shaped("note", row) /\ Fits("note", row)
    BY <2>4 DEF Shaped, Fits, Backed
  <2> QED BY <2>1, <2>2, <2>4, <2>5, <2>9, <2>13, <2>14, InsertKeeps
<1>2. CASE UpdateNote(c)
  <2> DEFINE values == [date |-> request[c].date]
             r == request[c]
  <2>1. PICK drops : Commits(c, "update_note", drops, r.adds) /\ db' = Updated(r, values)
    BY <1>2 DEF UpdateNote
  <2>2. /\ "update_note" \in Changes /\ TableOf["update_note"] = "note"
        /\ "update_note" # "idle"
    BY DEF Changes, TableOf
  <2>3. /\ r.op = "update_note" /\ RequestOK(r) /\ ~Misses(r)
        /\ \A l \in r.adds : LinkOK(l)
    BY <2>1, <2>2, RequestTyped
  <2>4. DOMAIN values = {"date"} /\ values.date = r.date
    OBVIOUS
  <2>5. NoteAdds(r) /\ r.held \subseteq Daily(r.date)
    BY <2>3 DEF RequestOK
  <2> HIDE DEF values
  <2>6. PICK new : IsUpdated(r, values, new) /\ Written("note", r.id, new)
    BY <2>1, <2>2, UpdateCommits DEF TypesInv
  <2>7. Goes(c, {"note"}) /\ r.id \in Ids["note"]
    BY <2>1, <2>2, UpdateCommits DEF TypesInv, IsCurrent
  <2>8. new.live = TRUE
    BY <2>6 DEF IsUpdated
  <2>9. r.id \in Live("note")'
    BY <2>6, <2>7, <2>8 DEF Written, Live
  <2>10. Live("commitment") \subseteq Live("commitment")'
    BY <2>7, TablesAssumption DEF Goes, Live
  <2>11. \A k : <<"commitment", k>> \in r.needs => k \in Live("commitment")'
    BY <2>3, <2>10 DEF Misses
  <2>12. ASSUME NEW l \in r.adds
         PROVE  Leads(l)'
    <3>1. l[1] = "commitment" => l[3] = <<"note", r.id>> /\ l[2] \in Live("commitment")'
      BY <2>5, <2>11 DEF NoteAdds
    <3>2. l[1] \in {"tag", "entity", "commitment"} /\ (l[1] = "entity" => l[2] = r.id)
      BY <2>5 DEF NoteAdds
    <3> QED BY <2>9, <3>1, <3>2, NoteLinksLead
  <2>13. ASSUME NEW row, NEW note, Merges(values, row, note)
         PROVE  /\ Shaped("note", note) /\ Fits("note", note)
                /\ r.held \subseteq Daily(note.date)
    <3>1. "date" \in DOMAIN note /\ note.date = r.date
      BY <2>4, <2>13 DEF Merges, Columns
    <3> QED BY <2>5, <3>1 DEF Shaped, Fits, Backed
  <2> QED BY <2>1, <2>2, <2>3, <2>12, <2>13, UpdateKeeps, SMTT(30)
<1>3. CASE DeleteNote(c)
  <2>1. Writes(c, "delete_note") /\ db' = SoftDeleted(request[c])
    BY <1>3 DEF DeleteNote
  <2>2. "delete_note" \in Changes \ Linking /\ TableOf["delete_note"] = "note"
    BY DEF Changes, Linking, TableOf
  <2>3. /\ request[c].op = "delete_note" /\ RequestOK(request[c])
        /\ Alone => Valid(request[c])
    BY <2>1, <2>2, CurrentOK
  <2>4. request[c].held = {}
    BY <2>3 DEF RequestOK
  <2>5. Alone => \A l \in links \ request[c].drops : Avoids(l, "note", request[c].id)
    <3>1. Alone => LinksWith(request[c].id) \subseteq request[c].drops
      BY <2>3 DEF Valid
    <3> QED BY <3>1, AvoidsOK DEF TypesInv
  <2> QED BY <2>1, <2>2, <2>4, <2>5, DeleteKeeps
<1> QED BY <1>1, <1>2, <1>3

\* A link that is written, or removed, on its own.
LEMMA LinkKept ==
  ASSUME TypesInv, AloneInv, RecordsInv', NEW c \in Clients,
         \/ AddNoteLink(c) \/ RemoveNoteLink(c)
         \/ AddCommitmentLink(c) \/ RemoveCommitmentLink(c)
  PROVE  TypesInv' /\ AloneInv'
<1> DEFINE r == request[c]
           Ops == {"add_note_link", "remove_note_link", "add_commitment_link",
                   "remove_commitment_link"}
<1>1. PICK op \in Ops : Writes(c, op)
  BY DEF AddNoteLink, RemoveNoteLink, AddCommitmentLink, RemoveCommitmentLink
<1>2. db' = db
  BY DEF AddNoteLink, RemoveNoteLink, AddCommitmentLink, RemoveCommitmentLink
<1>3. Commits(c, op, r.drops, r.adds) /\ op # "idle"
  BY <1>1 DEF Writes
<1>4. /\ r.op = op /\ RequestOK(r)
      /\ \A l \in r.adds : LinkOK(l)
      /\ op \notin Linking => r.adds = {}
      /\ Alone => Valid(r) /\ BackedInv /\ FollowInv /\ LeadInv
  BY <1>3, RequestTyped, SMTT(30)
<1>5. Alone => \A l \in r.adds : Leads(l)
  BY <1>4 DEF Valid, Linking
<1> HIDE DEF r
<1>6. RowsInv'
  BY <1>2 DEF TypesInv, RowsInv
<1>7. ASSUME Alone
      PROVE  BackedInv' /\ FollowInv' /\ LeadInv'
  <2>1. BackedInv'
    BY <1>2, <1>4, <1>7 DEF BackedInv, Backed, EntryBacked, Live
  <2>2. FollowInv'
    BY <1>2, <1>4, <1>7 DEF FollowInv, Follows, Live, Kept
  <2>3. links' \subseteq links \cup r.adds
    BY <1>3 DEF Commits
  <2>4. \A l : Leads(l) => Leads(l)'
    BY <1>2 DEF Leads, Live
  <2>5. LeadInv'
    BY <1>4, <1>5, <1>7, <2>3, <2>4 DEF LeadInv
  <2> QED BY <2>1, <2>2, <2>5
<1> QED BY <1>3, <1>4, <1>6, <1>7, CommitKeeps

LEMMA RefusedKept ==
  ASSUME TypesInv, AloneInv, RecordsInv', NEW c \in Clients, Refused(c)
  PROVE  TypesInv' /\ AloneInv'
<1>1. RequestOK(Idle)
  BY DEF RequestOK, Idle, EntryOps
<1>2. Begun(c, Idle)
  BY <1>1 DEF Refused, Begun
<1> QED BY <1>2, BegunKeeps

(***************************************************************************)
(* Every step keeps the types, and what holds for one client.              *)
(***************************************************************************)
LEMMA TypesInitial ==
  ASSUME RecordsInit
  PROVE  TypesInv /\ AloneInv
<1>1. RecordsInv
  BY RecordsInitial
<1>2. Absent.rev = 0 /\ Absent.live = FALSE /\ Absent.held = {}
  BY DEF Absent
<1>3. \A t \in DOMAIN Ids : \A i \in Ids[t] : db[t][i] = Absent
  BY DEF RecordsInit
<1>4. \A t \in DOMAIN Ids : RowOK(t, Absent)
  BY <1>2 DEF RowOK
<1>5. RowsInv
  BY <1>2, <1>3, <1>4 DEF RowsInv
<1>6. RequestOK(Idle)
  BY DEF RequestOK, Idle, EntryOps
<1>7. TypesInv
  BY <1>1, <1>5, <1>6 DEF RecordsInit, TypesInv, Belongs
<1>8. \A t \in DOMAIN Ids : Live(t) = {}
  BY <1>2, <1>3 DEF Live
<1>9. AloneInv
  BY <1>8, TablesAssumption DEF RecordsInit, AloneInv, BackedInv, FollowInv, LeadInv
<1> QED BY <1>7, <1>9

LEMMA TypesStep ==
  ASSUME TypesInv, AloneInv, [Next]_recordVars
  PROVE  TypesInv' /\ AloneInv'
<1> DEFINE Goal == TypesInv' /\ AloneInv'
<1>1. RecordsInv'
  BY RecordsStep DEF TypesInv
<1>2. CASE UNCHANGED recordVars
  <2>1. UNCHANGED <<db, links, request, workload>>
    BY <1>2 DEF recordVars
  <2>2. TypesInv'
    <3>1. RowsInv' /\ \A c \in Clients : RequestOK(request'[c]) /\ Belongs(c)'
      BY <2>1 DEF TypesInv, RowsInv, Belongs
    <3> QED BY <1>1, <2>1, <3>1 DEF TypesInv
  <2>3. ASSUME Alone'
        PROVE  /\ BackedInv' /\ FollowInv' /\ LeadInv'
               /\ \A c \in Clients : (request[c] # Idle => Valid(request[c]))'
    <3>1. Alone
      BY <2>1, <2>3 DEF Alone
    <3>2. BackedInv'
      BY <2>1, <3>1 DEF AloneInv, BackedInv, Backed, EntryBacked, Live
    <3>3. FollowInv'
      BY <2>1, <3>1 DEF AloneInv, FollowInv, Follows, Live, Kept
    <3>4. LeadInv'
      BY <2>1, <3>1 DEF AloneInv, LeadInv, Leads, Live
    <3>5. \A r : Valid(r) => Valid(r)'
      BY <2>1, ValidStays
    <3>6. \A c \in Clients : \E r : request'[c] = r /\ (r # Idle => Valid(r)')
      BY <2>1, <3>1, <3>5 DEF AloneInv
    <3>7. \A c \in Clients : (request[c] # Idle => Valid(request[c]))'
      BY <3>6
    <3> QED BY <3>2, <3>3, <3>4, <3>7
  <2> QED BY <2>2, <2>3 DEF AloneInv
<1>3. ASSUME NEW c \in Clients, AccountRequest(c) \/ TagRequest(c)
      PROVE  Goal
  BY <1>1, <1>3, AccountBegun, LinkBegun, BegunKeeps, AccountKept DEF AccountRequest, TagRequest
<1>4. ASSUME NEW c \in Clients, TransactionRequest(c)
      PROVE  Goal
  BY <1>1, <1>4, TransactionBegun, PlanBegun, BegunKeeps, TransactionKept, PlanKept, FulfilKept,
     DeletionKept DEF TransactionRequest
<1>5. ASSUME NEW c \in Clients, RuleRequest(c)
      PROVE  Goal
  BY <1>1, <1>5, RuleBegun, GenerateBegun, BegunKeeps, RuleKept, GenerateKept DEF RuleRequest
<1>6. ASSUME NEW c \in Clients, SubscriptionRequest(c)
      PROVE  Goal
  BY <1>1, <1>6, SubscriptionBegun, BegunKeeps, SubscriptionKept, UpdateSubscriptionKept
     DEF SubscriptionRequest
<1>7. ASSUME NEW c \in Clients, GoalRequest(c)
      PROVE  Goal
  BY <1>1, <1>7, GoalBegun, BegunKeeps, GoalKept, DeletionKept DEF GoalRequest
<1>8. ASSUME NEW c \in Clients, BudgetRequest(c)
      PROVE  Goal
  BY <1>1, <1>8, BudgetBegun, SavingBegun, BegunKeeps, BudgetKept, SavingKept, DeletionKept
     DEF BudgetRequest
<1>9. ASSUME NEW c \in Clients, NoteRequest(c)
      PROVE  Goal
  BY <1>1, <1>9, NoteBegun, LinkBegun, BegunKeeps, NoteKept, LinkKept DEF NoteRequest
<1>10. ASSUME NEW c \in Clients, CommitmentRequest(c)
       PROVE  Goal
  BY <1>1, <1>10, CommitmentBegun, LinkBegun, BegunKeeps, CommitmentKept, LinkKept
     DEF CommitmentRequest
<1>11. ASSUME NEW c \in Clients, Refused(c)
       PROVE  Goal
  BY <1>1, <1>11, RefusedKept
<1> HIDE DEF Goal
<1>12. Goal
  BY <1>2, <1>3, <1>4, <1>5, <1>6, <1>7, <1>8, <1>9, <1>10, <1>11 DEF Next, Goal
<1> QED BY <1>12 DEF Goal

LEMMA TypesInductive == Spec => [](TypesInv /\ AloneInv)
<1>1. RecordsInit => TypesInv /\ AloneInv
  BY TypesInitial
<1>2. TypesInv /\ AloneInv /\ [Next]_recordVars => (TypesInv /\ AloneInv)'
  BY TypesStep
<1> QED BY <1>1, <1>2, PTL DEF Spec

(***************************************************************************)
(* The theorems of types and of one client.                                *)
(***************************************************************************)
\* Every row has the shape of its table in models/finance.py and
\* models/productivity.py, a transfer and only a transfer has a destination,
\* a plan has its actual exactly when it is fulfilled and a link has two ends,
\* for any number of overlapping requests: what a request has read and
\* computed before its transaction has the shape when it is written.
THEOREM RecordsTypes == Spec => []RecordsTypeOK
<1>1. TypesInv => RecordsTypeOK
  <2> SUFFICES ASSUME TypesInv PROVE RecordsTypeOK
    OBVIOUS
  <2>1. \A t \in DOMAIN Ids : \A i \in Ids[t] : IsRow(db[t][i]) /\ RowOK(t, db[t][i])
    BY DEF TypesInv, RowsInv, RecordsInv, Tabled
  <2>2. \A t \in DOMAIN Ids : \A i \in Ids[t] : db[t][i].rev \in Nat /\ db[t][i].live \in BOOLEAN
    BY <2>1, Zenon DEF IsRow
  <2>3. \A t \in DOMAIN Ids : \A row \in Rows(t) : Shaped(t, row) /\ RowOK(t, row) /\ row.rev > 0
    BY <2>1 DEF Rows, RowOK
  <2>4. \A row \in Rows("plan") : row.status = "fulfilled" => row.actual # None
    <3>1. \A p \in Kept("plan") :
            db.plan[p].status = "fulfilled" => db.plan[p].actual \in Live("actual")
      BY DEF TypesInv, RecordsInv, FulfilledInv
    <3>2. None \notin Live("actual")
      BY TablesAssumption, RecordsAssumption DEF Live
    <3> QED BY <3>1, <3>2 DEF Rows, Kept
  <2>5. FinanceRowsOK
    <3>1. \A row \in Rows("actual") : row.entry \in Entry
      BY <2>3, TablesAssumption DEF Shaped, EntryOK
    <3>2. \A row \in Rows("plan") : PlanOK(row)
      BY <2>3, TablesAssumption DEF Shaped
    <3>3. \A row \in Rows("rule") : RuleOK(row)
      BY <2>3, TablesAssumption DEF Shaped
    <3>4. \A row \in Rows("sub") : SubOK(row)
      BY <2>3, TablesAssumption DEF Shaped
    <3> QED BY <2>4, <3>1, <3>2, <3>3, <3>4 DEF FinanceRowsOK, PlanOK, RuleOK, SubOK, EntryOK
  <2>6. OtherRowsOK
    <3>1. \A row \in Rows("saving") : SavingOK(row)
      BY <2>3, TablesAssumption DEF Shaped
    <3>2. \A row \in Rows("goal") : GoalOK(row)
      BY <2>3, TablesAssumption DEF Shaped
    <3>3. \A row \in Rows("note") : row.held \subseteq Daily(row.date)
      BY <2>3, TablesAssumption DEF RowOK
    <3>4. \A row \in Rows("commitment") : row.status \in CommitmentStatus
      BY <2>3, TablesAssumption DEF Shaped
    <3> QED BY <3>1, <3>2, <3>3, <3>4 DEF OtherRowsOK, SavingOK, GoalOK
  <2>7. \A t \in {"actual", "plan", "rule"} : \A row \in Rows(t) :
          row.entry.to # None <=> row.entry.type = "transfer"
    <3>1. \A t \in {"actual", "plan", "rule"} : \A row \in Rows(t) : EntryOK(row.entry)
      BY <2>3, TablesAssumption DEF Shaped, PlanOK, RuleOK
    <3> QED BY <3>1 DEF EntryOK
  <2>8. \A l \in links :
          l[1] \in {"limit", "note", "entity", "tag", "commitment"} /\ l[3][2] \in Ids[l[3][1]]
    BY DEF TypesInv, LinkOK
  <2>9. \A c \in Clients : request[c] = Idle \/ request[c].op \in workload.ops
    BY DEF TypesInv, Belongs
  <2> QED BY <2>2, <2>5, <2>6, <2>7, <2>8, <2>9 DEF RecordsTypeOK
<1> QED BY <1>1, TypesInductive, PTL

\* While one client works alone, an account in use is active, the links of
\* notes and commitments lead from and to active records, a rule that has not
\* ended says what its active subscription says, and a request that was
\* validated is not refused: what the services validate before their
\* transaction, and what they delete with a record, is enough, whatever the
\* tables hold and the requests ask for.
THEOREM AloneTheorem == Spec => []AloneConsistent
<1>1. TypesInv /\ AloneInv => AloneConsistent
  <2> SUFFICES ASSUME TypesInv, AloneInv PROVE AloneConsistent
    OBVIOUS
  <2>1. AccountsInUse
    <3> SUFFICES ASSUME Alone, NEW a \in Ids["account"], AccountInUse(a)
                 PROVE  a \in Live("account")
      BY DEF AccountsInUse
    <3>1. BackedInv
      BY DEF AloneInv
    <3>2. a # None
      BY TablesAssumption, RecordsAssumption
    <3>3. ASSUME NEW t \in {"actual", "plan", "rule"}, NEW i \in Live(t), Uses(db[t][i], a)
          PROVE  a \in Live("account")
      <4>1. EntryBacked(db[t][i].entry)
        BY <3>1, TablesAssumption DEF BackedInv, Backed
      <4> QED BY <3>2, <3>3, <4>1 DEF EntryBacked, Uses, Field
    <3>4. ASSUME NEW t \in {"sub", "saving"}, NEW i \in Live(t), db[t][i].account = a
          PROVE  a \in Live("account")
      <4>1. Backed(t, db[t][i])
        BY <3>1, TablesAssumption DEF BackedInv
      <4> QED BY <3>2, <3>4, <4>1 DEF Backed, Field
    <3> QED BY <3>3, <3>4 DEF AccountInUse
  <2>2. LinksLead
    BY DEF LinksLead, AloneInv, LeadInv, Leads
  <2>3. LinkedRulesFollow
    <3>1. ASSUME Alone, NEW s \in Live("sub"), NEW i \in Live("rule"), Linked(i, s)
          PROVE  Mirrors(db.rule[i], db.sub[s])
      <4>1. db.rule[i].sub = s /\ db.rule[i].status # "ended" /\ s # None
        BY <3>1, TablesAssumption, RecordsAssumption DEF Linked, Live
      <4> QED BY <3>1, <4>1 DEF AloneInv, FollowInv, Follows
    <3> QED BY <3>1 DEF LinkedRulesFollow
  <2>4. AloneIsServed
    BY DEF AloneIsServed, AloneInv, Valid
  <2> QED BY <2>1, <2>2, <2>3, <2>4 DEF AloneConsistent
<1> QED BY <1>1, TypesInductive, PTL

(***************************************************************************)
(* Warnings (Assessment).                                                  *)
(***************************************************************************)
\* The sums of minutes: no estimate, interval or buffer is negative
\* (the constraints of models/productivity.py and models/connected.py).
MinutesOK(e) ==
  /\ RequiredTime(e) \in Nat
  /\ ScheduledTime(e) \in Nat
  /\ BufferTime(e) \in Nat
  /\ e.terms.minutes \in Nat

\* Work that remains unscheduled makes the time component apply.
LEMMA UnscheduledApplies ==
  ASSUME NEW e, MinutesOK(e), Unscheduled(e) > 0
  PROVE  TimeCapacity(e) > 0
<1> DEFINE required == RequiredTime(e)  scheduled == ScheduledTime(e)
           buffers == BufferTime(e)  minutes == e.terms.minutes
<1>1. required \in Nat /\ scheduled \in Nat /\ buffers \in Nat /\ minutes \in Nat
  BY DEF MinutesOK
<1>2. TimeCapacity(e) = IF minutes > required + buffers THEN minutes ELSE required + buffers
  BY DEF TimeCapacity
<1>3. TimeCapacity(e) \in Nat
  <2> HIDE DEF required, buffers, minutes
  <2> QED BY <1>1, <1>2
<1>4. AtLeastZero(TimeCapacity(e) - scheduled - buffers) > 0
  BY DEF Unscheduled
<1>5. TimeCapacity(e) - scheduled - buffers > 0
  <2> DEFINE n == TimeCapacity(e) - scheduled - buffers
  <2>1. n \in Int
    <3> HIDE DEF scheduled, buffers
    <3> QED BY <1>1, <1>3
  <2>2. AtLeastZero(n) > 0
    BY <1>4
  <2> HIDE DEF n
  <2>3. n > 0
    BY <2>1, <2>2 DEF AtLeastZero
  <2> QED BY <2>3 DEF n
<1> HIDE DEF scheduled, buffers
<1> QED BY <1>1, <1>3, <1>5

\* Each rule looks at something that makes its component apply.
LEMMA WarningApplies ==
  ASSUME NEW e, Collected(e), MinutesOK(e), NEW code \in Warnings(e)
  PROVE  Applicable(e, Component[code])
<1>1. code \in DOMAIN Severity /\ Fires(e, code)
  BY DEF Warnings
<1>2. CASE code = "unscheduled_required_work"
  <2>1. TimeCapacity(e) > 0
    BY <1>1, <1>2, UnscheduledApplies DEF Fires, GoalRules, DeadlineRules
  <2> QED BY <1>2, <2>1 DEF Applicable, Component
<1>3. CASE code = "financial_buffer_violation"
  <2>1. MoneyImpact(e) # {}
    BY <1>1, <1>3 DEF Fires, GoalRules, DeadlineRules
  <2> QED BY <1>3, <2>1 DEF Applicable, Component
<1>4. CASE code = "missing_dependencies"
  <2>1. e.linked # {}
    BY <1>1, <1>4 DEF Fires, GoalRules, DeadlineRules, MissingPrerequisites, Collected
  <2> QED BY <1>4, <2>1 DEF Applicable, Component
<1>5. CASE code = "blocked_tasks"
  <2>1. e.linked # {}
    BY <1>1, <1>5 DEF Fires, GoalRules, DeadlineRules, BlockedTasks, Collected
  <2> QED BY <1>5, <2>1 DEF Applicable, Component
<1>6. CASE code = "missing_link_targets"
  <2>1. e.missing # {}
    BY <1>1, <1>6 DEF Fires, GoalRules, DeadlineRules
  <2> QED BY <1>6, <2>1 DEF Applicable, Component
<1>7. CASE code = "calendar_conflict"
  <2>1. DOMAIN e.event # {}
    BY <1>1, <1>7 DEF Fires, GoalRules, DeadlineRules, Collected
  <2> QED BY <1>7, <2>1 DEF Applicable, Component
<1>8. CASE code = "budget_violation"
  <2>1. DOMAIN e.budget # {}
    BY <1>1, <1>8 DEF Fires, GoalRules, DeadlineRules
  <2> QED BY <1>8, <2>1 DEF Applicable, Component
<1>9. CASE code = "savings_goal_delay"
  <2>1. DOMAIN e.saving # {}
    BY <1>1, <1>9 DEF Fires, GoalRules, DeadlineRules
  <2> QED BY <1>9, <2>1 DEF Applicable, Component
<1>10. CASE code = "deadline_passed"
  <2>1. e.terms.decision \cup e.terms.target # {}
    BY <1>1, <1>10 DEF Fires, GoalRules, DeadlineRules, DeadlinePassed
  <2> QED BY <1>10, <2>1 DEF Applicable, Component
<1>11. CASE code = "deadline_risk"
  <2>1. e.terms.decision \cup e.terms.target # {}
    BY <1>1, <1>11 DEF Fires, GoalRules, DeadlineRules, DeadlineNear
  <2> QED BY <1>11, <2>1 DEF Applicable, Component
<1> QED BY <1>1, <1>2, <1>3, <1>4, <1>5, <1>6, <1>7, <1>8, <1>9, <1>10, <1>11 DEF Severity

\* docs/commitment-engine.md:133: the overall status is the worst applicable
\* component, and so the worst of all warnings that evaluate_commitment
\* returns with it.
THEOREM WorstWarningShown ==
  ASSUME NEW e, Collected(e), MinutesOK(e)
  PROVE  NoWarningHidden(e)
<1> DEFINE codes == Warnings(e)
           of(component) == {code \in codes : Component[code] = component}
<1>1. \A code \in codes : /\ code \in DOMAIN Severity
                          /\ Component[code] \in Components
                          /\ Severity[code] \in {"warning", "critical"}
  BY DEF Warnings, Components, Component, Severity
<1>2. \A code \in codes : Status(e, codes, Component[code]) = Worst(of(Component[code]))
  BY WarningApplies DEF Status
<1>3. CASE codes = {}
  <2>1. \A component \in Components : Status(e, codes, component) \in {"ok", "not_applicable"}
    BY <1>3 DEF Status, Worst
  <2> HIDE DEF codes
  <2>2. OverallStatus(e, codes) \in {"ok", "not_applicable"}
    BY <2>1 DEF OverallStatus
  <2> QED BY <1>3, <2>2 DEF NoWarningHidden, codes
<1>4. CASE codes # {} /\ \E code \in codes : Severity[code] = "critical"
  <2>1. PICK code \in codes : Severity[code] = "critical"
    BY <1>4
  <2>2. Worst(of(Component[code])) = "critical" /\ Worst(codes) = "critical"
    BY <2>1 DEF Worst
  <2>3. OverallStatus(e, codes) = "critical"
    BY <1>1, <1>2, <2>2 DEF OverallStatus
  <2> QED BY <1>4, <2>2, <2>3 DEF NoWarningHidden
<1>5. CASE codes # {} /\ ~(\E code \in codes : Severity[code] = "critical")
  <2>1. PICK code \in codes : TRUE
    BY <1>5
  <2>2. Worst(of(Component[code])) = "warning" /\ Worst(codes) = "warning"
    BY <1>5, <2>1 DEF Worst
  <2>3. \A component \in Components : Status(e, codes, component) # "critical"
    BY <1>5 DEF Status, Worst
  <2>4. OverallStatus(e, codes) = "warning"
    <3> HIDE DEF codes, of
    <3> QED BY <1>1, <1>2, <2>1, <2>2, <2>3 DEF OverallStatus
  <2> QED BY <1>5, <2>2, <2>4 DEF NoWarningHidden
<1> QED BY <1>3, <1>4, <1>5
=============================================================================
