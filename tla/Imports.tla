------------------------------ MODULE Imports ------------------------------
(***************************************************************************)
(* Imports of bank CSV and of calendar files: services/imports.py,         *)
(* csv_imports.py, calendar_imports.py and import_files.py.                *)
(*                                                                         *)
(* A file becomes a batch of rows.  The rows of a CSV file are read again  *)
(* by every mapping of its columns, those of a calendar when the file is   *)
(* uploaded; a row is classified against the stored transactions or        *)
(* events, the client keeps some rows, and an application writes them in   *)
(* one transaction.  A request reads outside of a transaction and then     *)
(* writes in one; rows and batches have no version check, and an UPDATE    *)
(* writes the columns that differ from what the request has read.          *)
(*                                                                         *)
(* What a line says is an item: the key that identifies it (the import     *)
(* fingerprint, the UID) and its value (account, type, amount and time; the *)
(* content of an event).  Two mappings may read one line differently.      *)
(***************************************************************************)
EXTENDS Naturals, Sequences, FiniteSets

CONSTANTS
  File,          \* the files clients upload
  Csv,           \* those that are bank statements
  Lines,         \* for each file its lines: a line gives an item for a mapping
  Mapping,       \* the mappings of columns, None for calendars
  Profile,       \* names of mapping profiles
  Value,         \* the values of transactions entered by hand
  Clients,
  Workloads,     \* the clients, the files and what is done by hand in one behaviour
  None,          \* SQL NULL
  Unreadable,    \* what an invalid line gives
  MaxLedger,     \* bound: transactions
  MaxRevision    \* bound: the revision from which an event is let be

ASSUME CsvAssumption == Csv \subseteq File /\ None \in Mapping

ASSUME LinesAssumption == \A f \in File : Lines[f] = [n \in 1 .. Len(Lines[f]) |-> Lines[f][n]]

ASSUME NoneAssumption == None \notin Nat /\ None \notin File \X Nat /\ None # "exact"

ASSUME WorkloadAssumption == \A w \in Workloads : IsFiniteSet(w.clients)

VARIABLES
  batch,         \* batch[f]: the import batch of a file
  rows,          \* rows[f]: its rows, one for each line
  copies,        \* copies[f]: how often the file has been stored
  ledger,        \* the transactions, deleted ones included
  events,        \* the calendar events, deleted ones included
  profiles,      \* the names of the active mapping profiles
  open,          \* whether the account that the mappings name is active
  request,       \* what the request of a client holds after its reads
  workload       \* the clients, the files and what is done by hand

records == <<ledger, events, open>>
importVars == <<batch, rows, copies, records, profiles, request, workload>>

Idle == [op |-> "idle"]
Alone == Cardinality(workload.clients) = 1

RowStatus == {"new", "changed", "duplicate", "invalid", "excluded", "imported"}

\* Of the columns' mapping a batch need only remember that there is one.
\* "known" is the number of transactions there were when they were mapped,
\* and not a column: a property asks for it.
NoBatch == [state |-> "none", mapped |-> FALSE, imported |-> 0, known |-> 0]

Row(status, included, item, duplicate) ==
  [status |-> status, included |-> included, item |-> item, duplicate |-> duplicate,
   existing |-> None, expected |-> None, made |-> None]

Invalid == Row("invalid", FALSE, None, None)

LiveIn(table) == {i \in DOMAIN table : table[i].live}

(***************************************************************************)
(* Classification.                                                         *)
(***************************************************************************)
\* What the n-th line says when the columns are mapped by m: a fingerprint,
\* and account, type, amount and time; Unreadable where one cannot be read.
Normalized(f, n, m) == Lines[f][n][m]

\* What the n-th event of a calendar file says.
NormalizedEvent(f, n) == Lines[f][n][None]

\* Only active transactions count, and what matters of the account is in
\* the value.  The external identifier of a line is its fingerprint; those of
\* transactions entered by hand are left out.
FindDuplicate(item) ==
  IF \E i \in LiveIn(ledger) : ledger[i].key = item.key THEN "exact"
  ELSE IF \E i \in LiveIn(ledger) : ledger[i].value = item.value THEN "probable"
  ELSE None

MappedRow(item, account) ==
  IF item = Unreadable \/ ~account THEN Invalid
  ELSE IF FindDuplicate(item) = None THEN Row("new", TRUE, item, None)
  ELSE Row("duplicate", FALSE, item, FindDuplicate(item))

ExistingEvent(uid) == {i \in LiveIn(events) : events[i].key = uid}

CalendarRow(item) ==
  IF item = Unreadable THEN Invalid
  ELSE IF ExistingEvent(item.key) = {} THEN Row("new", TRUE, item, None)
  ELSE LET i == CHOOSE j \in ExistingEvent(item.key) : TRUE
       IN IF events[i].value = item.value
          THEN [Row("duplicate", FALSE, item, "exact") EXCEPT !.existing = i]
          ELSE [Row("changed", TRUE, item, None) EXCEPT
                  !.existing = i, !.expected = events[i].rev]

(***************************************************************************)
(* Requests.                                                               *)
(***************************************************************************)
Reads(c, read) ==
  /\ c \in workload.clients /\ read.file \in workload.files
  /\ request[c] = Idle
  /\ request' = [request EXCEPT ![c] = read]

Ends(c) == request' = [request EXCEPT ![c] = Idle] /\ UNCHANGED workload

\* The columns of a row after an UPDATE by a request that read and changed it.
Written(stored, read, changed) ==
  [x \in DOMAIN stored |-> IF changed[x] = read[x] THEN stored[x] ELSE changed[x]]

\* Mutant: an applied batch counts as well.
Previewed(f) == batch[f].state # "none"

\* A batch that has not been applied.
Pending(f) == batch[f].state = "previewed"

\* Mutant: only batches still to be applied are looked for.
FindPending(f) == {g \in {f} : Pending(g)}

FindSource(f) == {g \in {f} : batch[g].state # "none"}

\* The upload is stored before the transaction, each time in a directory of
\* its own.  A file that has a batch is answered with it.
BeginPreview(c, f) ==
  /\ FindSource(f) = {}
  /\ Reads(c, [op |-> "preview", file |-> f,
       rows |-> [n \in DOMAIN Lines[f] |->
                   IF f \in Csv THEN Row("new", TRUE, None, None)
                   ELSE CalendarRow(NormalizedEvent(f, n))]])
  /\ copies' = [copies EXCEPT ![f] = @ + 1]
  /\ UNCHANGED <<batch, rows, records, profiles, workload>>

\* Two previews of one file meet in the unique index, and the later fails.
Preview(c) ==
  LET f == request[c].file
  IN /\ request[c].op = "preview" /\ batch[f].state = "none"
     /\ batch' = [batch EXCEPT ![f].state = "previewed"]
     /\ rows' = [rows EXCEPT ![f] = request[c].rows]
     /\ Ends(c) /\ UNCHANGED <<copies, records, profiles>>

\* The first row is classified before its UPDATE, which the search for
\* duplicates of the second one flushes, takes the writer's lock.
BeginMap(c, f, m, save) ==
  /\ f \in Csv /\ Pending(f) /\ m # None
  /\ Reads(c, [op |-> "map", file |-> f, rows |-> rows[f], mapping |-> m, save |-> save,
               account |-> open, first |-> MappedRow(Normalized(f, 1, m), open)])
  /\ UNCHANGED <<batch, rows, copies, records, profiles, workload>>

\* A mapping keeps what it does not name: the record a row was imported to.
Map(c) ==
  LET r == request[c]
      f == r.file
      Mapped(n) == IF n = 1 THEN r.first ELSE MappedRow(Normalized(f, n, r.mapping), r.account)
  IN /\ r.op = "map" /\ r.save \notin profiles
     /\ rows' = [rows EXCEPT ![f] =
          [n \in DOMAIN @ |->
             Written(@[n], r.rows[n], [Mapped(n) EXCEPT !.made = r.rows[n].made])]]
     /\ batch' = [batch EXCEPT ![f].mapped = TRUE, ![f].known = Len(ledger)]
     /\ profiles' = profiles \cup ({r.save} \ {None})
     /\ Ends(c) /\ UNCHANGED <<copies, records>>

\* The row is written as a whole request has seen it a moment before: the
\* revision that the client names is compared before the transaction.
BeginSelect(c, f, n, included) ==
  /\ Pending(f)
  /\ rows[f][n].status # "invalid" /\ rows[f][n].duplicate # "exact"
  /\ Reads(c, [op |-> "select", file |-> f, row |-> n, read |-> rows[f][n],
               included |-> included])
  /\ UNCHANGED <<batch, rows, copies, records, profiles, workload>>

Select(c) ==
  LET r == request[c]
  IN /\ r.op = "select"
     /\ rows' = [rows EXCEPT ![r.file][r.row] =
                   Written(@, r.read, [r.read EXCEPT !.included = r.included])]
     /\ Ends(c) /\ UNCHANGED <<batch, copies, records, profiles>>

(***************************************************************************)
(* Application.  The client may name the rows; else those included count.  *)
(***************************************************************************)
BeginApply(c, f, selected) ==
  /\ Pending(f) /\ (f \in Csv => batch[f].mapped)
  /\ Reads(c, [op |-> "apply", file |-> f, rows |-> rows[f], selected |-> selected,
               read |-> batch[f]])
  /\ UNCHANGED <<batch, rows, copies, records, profiles, workload>>

\* What a row may still become is imported or excluded.
Eligible(f, row) ==
  \/ row.status = "new"
  \/ f \in Csv /\ row.status = "duplicate" /\ row.duplicate = "probable"
  \/ f \notin Csv /\ row.status = "changed"

Chosen(r) ==
  {n \in DOMAIN r.rows :
     /\ Eligible(r.file, r.rows[n])
     /\ IF r.selected = None THEN r.rows[n].included ELSE n \in r.selected}

SharesKey(r, n) ==
  \E k \in Chosen(r) \ {n} : r.rows[k].item.key = r.rows[n].item.key

\* Mutant: the transaction of the row is looked for among active ones.
StaleIfActive(r, n) ==
  \/ SharesKey(r, n)
  \/ r.file \in Csv /\ FindDuplicate(r.rows[n].item) = "exact"
  \/ r.file \notin Csv
       /\ (r.rows[n].status = "new" <=> ExistingEvent(r.rows[n].item.key) # {})

\* The row is not what it was when it was classified: its transaction has
\* been there once, its event is there, or is not in its revision.  The rows
\* imported before it count.
Stale(r, n) ==
  LET item == r.rows[n].item
  IN \/ SharesKey(r, n)
     \/ r.file \in Csv /\ \E i \in DOMAIN ledger : ledger[i].key = item.key
     \/ r.file \notin Csv /\ r.rows[n].status = "new" /\ ExistingEvent(item.key) # {}
     \/ r.file \notin Csv /\ r.rows[n].status = "changed"
          /\ ~ \E i \in ExistingEvent(item.key) : events[i].rev = r.rows[n].expected

\* Mappings that overlap may leave a row that is eligible and says nothing.
GoesThrough(r) ==
  /\ \A n \in Chosen(r) : r.rows[n].item # None
  /\ \A n \in Chosen(r) : ~Stale(r, n)
  /\ r.file \in Csv /\ Chosen(r) # {} => open

NewOnes(r) == {n \in Chosen(r) : r.rows[n].status # "changed"}

\* Records are made in the order of the rows.
Place(S, n) == Cardinality({k \in S : k <= n})

\* The record a chosen row leads to afterwards.
Target(r, n) ==
  IF n \in NewOnes(r)
  THEN Len(IF r.file \in Csv THEN ledger ELSE events) + Place(NewOnes(r), n)
  ELSE CHOOSE i \in ExistingEvent(r.rows[n].item.key) : TRUE

\* "from" is the line a record was made of, which the timeline tells.
Record(item, from) ==
  [key |-> item.key, value |-> item.value, live |-> TRUE, rev |-> 1, edited |-> FALSE,
   from |-> from]

Added(r) ==
  [k \in 1 .. Cardinality(NewOnes(r)) |->
     LET n == CHOOSE m \in NewOnes(r) : Place(NewOnes(r), m) = k
     IN Record(r.rows[n].item, <<r.file, n>>)]

Changed(r, i) ==
  IF \E n \in Chosen(r) \ NewOnes(r) : Target(r, n) = i
  THEN LET n == CHOOSE k \in Chosen(r) \ NewOnes(r) : Target(r, k) = i
       IN [events[i] EXCEPT !.value = r.rows[n].item.value, !.rev = @ + 1, !.edited = FALSE]
  ELSE events[i]

\* Mutant: what the client has not kept stays as it was.
OutcomeOfChosen(r, n) ==
  IF n \in Chosen(r)
  THEN [r.rows[n] EXCEPT !.status = "imported", !.made = Target(r, n)]
  ELSE r.rows[n]

Outcome(r, n) ==
  IF n \in Chosen(r)
  THEN [r.rows[n] EXCEPT !.status = "imported", !.made = Target(r, n)]
  ELSE IF Eligible(r.file, r.rows[n]) THEN [r.rows[n] EXCEPT !.status = "excluded"]
  ELSE r.rows[n]

Apply(c) ==
  LET r == request[c]
      f == r.file
  IN /\ r.op = "apply" /\ GoesThrough(r)
     /\ ledger' = IF f \in Csv THEN ledger \o Added(r) ELSE ledger
     /\ events' = IF f \in Csv THEN events
                  ELSE [i \in DOMAIN events |-> Changed(r, i)] \o Added(r)
     /\ rows' = [rows EXCEPT ![f] =
          [n \in DOMAIN @ |-> Written(@[n], r.rows[n], Outcome(r, n))]]
     /\ batch' = [batch EXCEPT ![f] =
          Written(@, r.read,
            [r.read EXCEPT !.state = "applied", !.imported = Cardinality(Chosen(r))])]
     /\ Ends(c) /\ UNCHANGED <<copies, open, profiles>>

\* The transaction that fails, and leaves nothing.
Refused(c) ==
  LET r == request[c]
  IN /\ \/ r.op = "preview" /\ batch[r.file].state # "none"
        \/ r.op = "map" /\ r.save \in profiles
        \/ r.op = "apply" /\ ~GoesThrough(r)
     /\ Ends(c) /\ UNCHANGED <<batch, rows, copies, records, profiles>>

(***************************************************************************)
(* What the client does by hand, one transaction each.                     *)
(***************************************************************************)
EnterTransaction(v) ==
  /\ open /\ Len(ledger) < MaxLedger
  /\ ledger' = Append(ledger, Record([key |-> None, value |-> v], None))
  /\ UNCHANGED <<batch, rows, copies, events, profiles, open, request, workload>>

EditTransaction(i, v) ==
  /\ open /\ ledger[i].live
  /\ ledger' = [ledger EXCEPT ![i].value = v]
  /\ UNCHANGED <<batch, rows, copies, events, profiles, open, request, workload>>

DeleteTransaction(i) ==
  /\ ledger[i].live
  /\ ledger' = [ledger EXCEPT ![i].live = FALSE]
  /\ UNCHANGED <<batch, rows, copies, events, profiles, open, request, workload>>

CloseAccount ==
  /\ open /\ LiveIn(ledger) = {}
  /\ open' = FALSE
  /\ UNCHANGED <<batch, rows, copies, ledger, events, profiles, request, workload>>

\* An edit leaves the UID and the fingerprint of the import.
EditEvent(i) ==
  /\ events[i].live /\ events[i].rev < MaxRevision
  /\ events' = [events EXCEPT ![i].rev = @ + 1, ![i].edited = TRUE]
  /\ UNCHANGED <<batch, rows, copies, ledger, profiles, open, request, workload>>

DeleteEvent(i) ==
  /\ events[i].live
  /\ events' = [events EXCEPT ![i].live = FALSE, ![i].rev = @ + 1]
  /\ UNCHANGED <<batch, rows, copies, ledger, profiles, open, request, workload>>

CreateProfile(p) ==
  /\ p \notin profiles /\ profiles' = profiles \cup {p}
  /\ UNCHANGED <<batch, rows, copies, records, request, workload>>

\* A name that another profile has is refused by the unique index.
UpdateProfile(p, q) ==
  /\ p \in profiles /\ q \notin profiles
  /\ profiles' = (profiles \ {p}) \cup {q}
  /\ UNCHANGED <<batch, rows, copies, records, request, workload>>

DeleteProfile(p) ==
  /\ p \in profiles /\ profiles' = profiles \ {p}
  /\ UNCHANGED <<batch, rows, copies, records, request, workload>>

(***************************************************************************)
(* The specification.                                                      *)
(***************************************************************************)
ImportsInit ==
  /\ batch = [f \in File |-> NoBatch]
  /\ rows = [f \in File |-> <<>>]
  /\ copies = [f \in File |-> 0]
  /\ ledger = <<>> /\ events = <<>>
  /\ profiles = {} /\ open = TRUE
  /\ request = [c \in Clients |-> Idle]
  /\ workload \in Workloads

\* The profile that a mapping is saved as.
Saved == (IF "profiles" \in workload.hand THEN Profile ELSE {}) \cup {None}

ImportRequest(c) ==
  \/ \E f \in File :
       \/ BeginPreview(c, f)
       \/ \E m \in Mapping, save \in Saved : BeginMap(c, f, m, save)
       \/ \E n \in DOMAIN rows[f], b \in BOOLEAN : BeginSelect(c, f, n, b)
       \/ \E s \in {None} \cup SUBSET DOMAIN rows[f] : BeginApply(c, f, s)
  \/ Preview(c) \/ Map(c) \/ Select(c) \/ Apply(c) \/ Refused(c)

ByHand ==
  \/ /\ "transactions" \in workload.hand
     /\ \/ \E v \in Value :
             EnterTransaction(v) \/ \E i \in DOMAIN ledger : EditTransaction(i, v)
        \/ \E i \in DOMAIN ledger : DeleteTransaction(i)
        \/ CloseAccount
  \/ /\ "events" \in workload.hand
     /\ \E i \in DOMAIN events : EditEvent(i) \/ DeleteEvent(i)
  \/ /\ "profiles" \in workload.hand
     /\ \E p \in Profile :
          CreateProfile(p) \/ DeleteProfile(p) \/ \E q \in Profile : UpdateProfile(p, q)

ImportsNext == ByHand \/ \E c \in Clients : ImportRequest(c)

ImportsSpec == ImportsInit /\ [][ImportsNext]_importVars

(***************************************************************************)
(* Properties.                                                             *)
(***************************************************************************)
\* The tables have the shapes of models/imports_automation.py, a batch has a
\* row for every line, and while one client works alone a file is stored
\* once, however often it is uploaded.
ImportsTypeOK ==
  /\ \A f \in File :
       /\ batch[f].state \in {"none", "previewed", "applied"}
       /\ batch[f].mapped \in BOOLEAN /\ batch[f].imported \in 0 .. Len(Lines[f])
       /\ batch[f].state = "none" => batch[f] = NoBatch /\ rows[f] = <<>>
       /\ batch[f].state # "none" => DOMAIN rows[f] = DOMAIN Lines[f] /\ copies[f] > 0
       /\ Alone => copies[f] <= 1
       /\ \A n \in DOMAIN rows[f] :
            /\ rows[f][n].status \in RowStatus /\ rows[f][n].included \in BOOLEAN
            /\ rows[f][n].duplicate \in {None, "exact", "probable"}
  /\ \A table \in {ledger, events} : \A i \in DOMAIN table :
       table[i].rev \in Nat /\ table[i].live \in BOOLEAN /\ table[i].edited \in BOOLEAN
  /\ profiles \subseteq Profile /\ open \in BOOLEAN
  /\ \A c \in Clients : request[c] = Idle \/ request[c].file \in workload.files

\* Nothing is imported twice: of the transactions, deleted ones included, one
\* has an import fingerprint, of the active events one has a UID, whatever
\* files, mappings and requests overlap; and while one client works alone a
\* line of a file becomes one record.
ImportedOnce ==
  /\ \A i, j \in DOMAIN ledger :
       i # j => ledger[i].key = None \/ ledger[i].key # ledger[j].key
  /\ \A i, j \in LiveIn(events) : i # j => events[i].key # events[j].key
  /\ Alone => \A table \in {ledger, events} : \A i, j \in DOMAIN table :
       i # j => table[i].from = None \/ table[i].from # table[j].from

\* The record an imported row leads to.
MadeOf(f, row) == IF f \in Csv THEN ledger[row.made] ELSE events[row.made]

RowAccounted(f, n) ==
  LET row == rows[f][n]
  IN /\ row.status = "imported" <=> row.made # None
     /\ row.status = "imported" => MadeOf(f, row).key = row.item.key
     /\ row.status \in {"imported", "excluded"} => batch[f].state = "applied"
     /\ Eligible(f, row) => batch[f].state = "previewed"
     /\ row.included => row.status # "invalid" /\ row.duplicate # "exact"

\* While one client works alone, an applied batch says of every row what
\* became of it and how many were imported, a row that was imported leads to
\* a record with its key, a record that was imported has a row that says so,
\* and what cannot be imported is never included.
BatchAccounted ==
  Alone =>
    /\ \A f \in File :
         /\ \A n \in DOMAIN rows[f] : RowAccounted(f, n)
         /\ batch[f].imported =
              Cardinality({n \in DOMAIN rows[f] : rows[f][n].status = "imported"})
    /\ \A table \in {ledger, events} : \A i \in DOMAIN table :
         table[i].from # None => rows[table[i].from[1]][table[i].from[2]].made = i

\* docs/imports.md:41: "applying an already-applied batch is a no-op".  While
\* one client works alone, nothing of an applied batch changes, and nothing
\* more is imported from it.
AppliedForGood ==
  [][Alone => \A f \in File : batch[f].state = "applied" =>
       /\ batch'[f] = batch[f] /\ rows'[f] = rows[f]
       /\ \A i \in DOMAIN ledger' \ DOMAIN ledger : ledger'[i].from \notin {f} \X Nat
       /\ \A i \in DOMAIN events' \ DOMAIN events : events'[i].from \notin {f} \X Nat]_importVars

\* docs/imports.md:39-40: "so a concurrent local edit returns HTTP 409 rather
\* than being overwritten".  An import overwrites a local edit only where the
\* row was classified against that event in that revision.
EditsKept ==
  [][\A i \in DOMAIN events : events[i].edited /\ ~events'[i].edited =>
       \E f \in File : \E n \in DOMAIN rows[f] :
         /\ rows[f][n].status = "changed" /\ rows'[f][n].status = "imported"
         /\ rows[f][n].existing = i /\ rows[f][n].expected = events[i].rev]_importVars

\* csv_imports.py:536: "A selected transaction was imported after preview."
\* While one client works alone, an application that is refused for that has
\* chosen a row whose transaction came after the columns were mapped.
StaleMeansImportedSince ==
  [][Alone => \A c \in Clients : LET r == request[c]
       IN r # Idle /\ r.op = "apply" /\ r.file \in Csv /\ open
            /\ request'[c] = Idle /\ batch'[r.file].state = "previewed" =>
          \E n \in Chosen(r) : \E i \in batch[r.file].known + 1 .. Len(ledger) :
            ledger[i].key = r.rows[n].item.key]_importVars
=============================================================================
