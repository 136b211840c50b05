------------------------------ MODULE Records ------------------------------
(***************************************************************************)
(* What the services of finance, goals, notes and commitments share:       *)
(* tables of revisioned rows (repositories/revisioned.py) and the shape of *)
(* a request.  A request reads and validates outside of a transaction, and *)
(* then writes in one transaction (db/transactions.py).  SQLite lets other *)
(* requests commit between the two, never inside the second.               *)
(*                                                                         *)
(* A row that passed validation can only stop being valid: rows are never  *)
(* undeleted, and an account's currency and a category's kind never        *)
(* change.  So the reads of one request are one step, the last one.        *)
(***************************************************************************)
EXTENDS Naturals, FiniteSets, Sequences

CONSTANTS
  Ids,           \* for each table, the identifiers its rows are created with
  Clients,       \* the clients that may have a request being served
  Workloads,     \* which clients call which operations in one behaviour
  None,          \* SQL NULL
  MaxRevision    \* bound: for each table, the revision from which a row is let be

ASSUME RecordsAssumption ==
  /\ None \notin DOMAIN Ids
  /\ \A t \in DOMAIN Ids : IsFiniteSet(Ids[t]) /\ None \notin Ids[t]

ASSUME WorkloadsAssumption == \A w \in Workloads : IsFiniteSet(w.clients)

VARIABLES
  db,            \* the tables: db[table][id] is a row
  links,         \* the rows of the link tables: <<kind, from, to>>
  request,       \* what the request of a client holds after its reads
  workload       \* the clients and the operations of this behaviour

recordVars == <<db, links, request, workload>>

Absent == [rev |-> 0, live |-> FALSE, held |-> {}]

Idle == [op |-> "idle"]

Alone == Cardinality(workload.clients) = 1

Live(t) == {i \in Ids[t] : db[t][i].live}

Free(t) == {i \in Ids[t] : db[t][i].rev = 0}

\* The identifier of the next row of a table.
NewId(t) == CHOOSE i \in Free(t) : TRUE

\* The fields of a record that are given values, and the others of a row.
values & row ==
  [f \in DOMAIN values \cup DOMAIN row |->
     IF f \in DOMAIN values THEN values[f] ELSE row[f]]

LinksOf(kind, entity) == {l \in links : l[1] = kind /\ l[3] = entity}

(***************************************************************************)
(* Requests.  "held" are the values the row will have under the unique     *)
(* indexes, "needs" the rows the transaction asks for again, "adds" the    *)
(* link rows it inserts, "drops" those it has read and deletes.            *)
(***************************************************************************)
Creation(t) ==
  [table |-> t, id |-> None, rev |-> 0, held |-> {}, needs |-> {}, adds |-> {},
   drops |-> {}]

\* The client sends the revision of the row that it has been shown: the present
\* one, or an older one, which is refused before anything is written.
Change(t, i) ==
  [Creation(t) EXCEPT !.id = i, !.rev = db[t][i].rev, !.held = db[t][i].held]

\* A request that writes link rows only.
LinkChange == Creation(None)

\* The rows a request may still change.
Changeable(t) == {i \in Live(t) : db[t][i].rev < MaxRevision[t]}

\* A creation that holds values of the unique indexes.
Claiming(t, held) == [Creation(t) EXCEPT !.held = held]

\* The request of a client goes on with what it has read.
Opens(c, op, r) == request' = [request EXCEPT ![c] = [op |-> op] & r]

\* The reads of a request, which keeps one of what they found.
Reads(c, op, found) ==
  /\ c \in workload.clients
  /\ op \in workload.ops
  /\ request[c] = Idle
  /\ \E r \in found : Opens(c, op, r)
  /\ UNCHANGED <<db, links, workload>>

\* Mutant: the UPDATE does not compare the revision.
StaleIfDeleted(r) == r.id # None /\ ~db[r.table][r.id].live

\* The UPDATE names the revision the client saw, and finds no row.
Stale(r) ==
  r.id # None /\ ~(db[r.table][r.id].live /\ db[r.table][r.id].rev = r.rev)

\* Mutant: the indexes count active rows only.
CollidesWithLive(r) ==
  \E t \in DOMAIN Ids : \E i \in Live(t) :
    <<t, i>> # <<r.table, r.id>> /\ db[t][i].held \cap r.held # {}

\* Another row has a value of a unique index.
Collides(r) ==
  \E t \in DOMAIN Ids : \E i \in Ids[t] :
    <<t, i>> # <<r.table, r.id>> /\ db[t][i].held \cap r.held # {}

\* A row the transaction asks for is not there.
Misses(r) == \E x \in r.needs : x[2] \notin Live(x[1])

\* The flush inserts before it deletes, so a link that a request replaces
\* by itself is still there.
Restates(r) == r.adds \cap links # {}

Refusable(r) == Stale(r) \/ Collides(r) \/ Misses(r) \/ Restates(r)

\* The transaction of a request that goes through.
Commits(c, op, drops, adds) ==
  /\ request[c].op = op
  /\ ~Refusable(request[c])
  /\ request[c].id = None /\ request[c].table # None => Free(request[c].table) # {}
  /\ request' = [request EXCEPT ![c] = Idle]
  /\ links' = (links \ drops) \cup adds
  /\ UNCHANGED workload

Writes(c, op) == Commits(c, op, request[c].drops, request[c].adds)

\* The transaction that fails, and leaves nothing.
Refused(c) ==
  /\ request[c] # Idle
  /\ Refusable(request[c])
  /\ request' = [request EXCEPT ![c] = Idle]
  /\ UNCHANGED <<db, links, workload>>

Added(t, row) ==
  [db EXCEPT ![t][NewId(t)] = row & [rev |-> 1, live |-> TRUE, held |-> {}]]

Updated(r, values) ==
  [db EXCEPT ![r.table][r.id] =
     [values & @ EXCEPT !.live = TRUE, !.rev = r.rev + 1, !.held = r.held]]

SoftDeleted(r) ==
  [db EXCEPT ![r.table][r.id] =
     [@ EXCEPT !.live = FALSE, !.rev = r.rev + 1, !.held = r.held]]

RecordsInit ==
  /\ db = [t \in DOMAIN Ids |-> [i \in Ids[t] |-> Absent]]
  /\ links = {}
  /\ request = [c \in Clients |-> Idle]
  /\ workload \in Workloads
=============================================================================
