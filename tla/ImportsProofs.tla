--------------------------- MODULE ImportsProofs ---------------------------
(***************************************************************************)
(* Proofs about Imports for any files, lines, mappings and values, and any *)
(* finite number of clients: the types; that nothing is imported twice,    *)
(* whatever requests overlap; and, while one client works alone, that a    *)
(* batch accounts for its rows and that an applied batch stays as it is.   *)
(* What holds of every request rests on the comparison with the stored     *)
(* records in the transaction that writes; what holds of one client alone, *)
(* on what its request still knows of the tables when it writes.           *)
(***************************************************************************)
EXTENDS Imports, FiniteSetTheorems, SequenceTheorems, TLAPS

(***************************************************************************)
(* Sequences, and the order in which records are made.                     *)
(***************************************************************************)
IsSeq(s) == \E S : s \in Seq(S)

LEMMA SeqFacts ==
  ASSUME NEW s, IsSeq(s)
  PROVE  Len(s) \in Nat /\ DOMAIN s = 1 .. Len(s)
<1>1. PICK S : s \in Seq(S)
  BY DEF IsSeq
<1> QED BY <1>1, LenProperties

LEMMA FunctionIsSeq ==
  ASSUME NEW n \in Nat, NEW t, t = [i \in 1 .. n |-> t[i]]
  PROVE  IsSeq(t) /\ Len(t) = n
<1> DEFINE S == {t[i] : i \in 1 .. n}
<1>1. t \in [1 .. n -> S]
  OBVIOUS
<1>2. t \in Seq(S)
  BY <1>1, SeqDef
<1>3. Len(t) \in Nat /\ DOMAIN t = 1 .. Len(t)
  BY <1>2, LenProperties
<1>4. DOMAIN t = 1 .. n
  OBVIOUS
<1>5. Len(t) = n
  BY <1>3, <1>4
<1> QED BY <1>2, <1>5 DEF IsSeq

LEMMA Joined ==
  ASSUME NEW s, NEW t, IsSeq(s), IsSeq(t)
  PROVE  /\ IsSeq(s \o t)
         /\ Len(s \o t) = Len(s) + Len(t)
         /\ \A i \in 1 .. Len(s) : (s \o t)[i] = s[i]
         /\ \A i \in 1 .. Len(t) : (s \o t)[Len(s) + i] = t[i]
<1>1. PICK S : s \in Seq(S)
  BY DEF IsSeq
<1>2. PICK T : t \in Seq(T)
  BY DEF IsSeq
<1>3. s \in Seq(S \cup T) /\ t \in Seq(S \cup T)
  BY <1>1, <1>2, SeqMonotonic
<1>4. Len(s) \in Nat /\ Len(t) \in Nat
  BY SeqFacts
<1>5. /\ s \o t \in Seq(S \cup T)
      /\ Len(s \o t) = Len(s) + Len(t)
      /\ \A i \in 1 .. Len(s) + Len(t) :
           (s \o t)[i] = IF i <= Len(s) THEN s[i] ELSE t[i - Len(s)]
  BY <1>3, ConcatProperties
<1>6. \A i \in 1 .. Len(s) : (s \o t)[i] = s[i]
  BY <1>4, <1>5
<1>7. ASSUME NEW i \in 1 .. Len(t) PROVE (s \o t)[Len(s) + i] = t[i]
  <2>1. Len(s) + i \in 1 .. Len(s) + Len(t) /\ ~(Len(s) + i <= Len(s)) /\ (Len(s) + i) - Len(s) = i
    BY <1>4
  <2> QED BY <1>5, <2>1
<1> QED BY <1>5, <1>6, <1>7 DEF IsSeq

\* The places of the rows of S are the numbers up to the size of S, each once.
LEMMA Places ==
  ASSUME NEW S \in SUBSET Nat, IsFiniteSet(S)
  PROVE  /\ Cardinality(S) \in Nat
         /\ \A n \in S : Place(S, n) \in 1 .. Cardinality(S)
         /\ \A n, m \in S : Place(S, n) = Place(S, m) => n = m
         /\ \A k \in 1 .. Cardinality(S) : \E n \in S : Place(S, n) = k
<1> DEFINE Upto(n) == {k \in S : k <= n}
<1>1. Cardinality(S) \in Nat
  BY FS_CardinalityType
<1>2. ASSUME NEW n \in S
      PROVE  /\ IsFiniteSet(Upto(n)) /\ Cardinality(Upto(n)) \in Nat
             /\ Cardinality(Upto(n)) <= Cardinality(S)
             /\ Cardinality(Upto(n)) # 0
  <2>1. Upto(n) \in SUBSET S /\ n \in Upto(n)
    OBVIOUS
  <2>2. IsFiniteSet(Upto(n)) /\ Cardinality(Upto(n)) <= Cardinality(S)
    BY <2>1, FS_Subset
  <2>3. Cardinality(Upto(n)) \in Nat
    BY <2>2, FS_CardinalityType
  <2>4. Cardinality(Upto(n)) # 0
    BY <2>1, <2>2, FS_EmptySet
  <2> QED BY <2>2, <2>3, <2>4
<1>3. ASSUME NEW n \in S, NEW m \in S, n < m
      PROVE  Cardinality(Upto(n)) # Cardinality(Upto(m))
  <2>1. Upto(n) \in SUBSET Upto(m) /\ m \in Upto(m) /\ m \notin Upto(n)
    <3>1. n \in Nat /\ m \in Nat /\ S \subseteq Nat
      OBVIOUS
    <3>2. \A k \in Nat : k <= n => k <= m
      BY <1>3, <3>1
    <3>3. m <= m /\ ~(m <= n)
      BY <1>3, <3>1
    <3> QED BY <3>1, <3>2, <3>3
  <2>2. IsFiniteSet(Upto(m))
    BY <1>2
  <2> QED BY <2>1, <2>2, FS_Subset
<1>4. \A n, m \in S : Cardinality(Upto(n)) = Cardinality(Upto(m)) => n = m
  BY <1>3
<1>5. \A n \in S : Cardinality(Upto(n)) \in 1 .. Cardinality(S)
  BY <1>1, <1>2
<1> DEFINE f == [n \in S |-> Cardinality(Upto(n))]
           T == {Cardinality(Upto(n)) : n \in S}
<1>6. f \in Bijection(S, T)
  <2>1. f \in [S -> T]
    OBVIOUS
  <2>2. \A a, b \in S : f[a] = f[b] => a = b
    BY <1>4
  <2>3. \A t \in T : \E s \in S : f[s] = t
    OBVIOUS
  <2> HIDE DEF f, T
  <2> QED BY <2>1, <2>2, <2>3 DEF Bijection, Injection, Surjection, IsInjective
<1>7. Cardinality(T) = Cardinality(S)
  <2> HIDE DEF f, T
  <2>1. ExistsBijection(S, T)
    BY <1>6 DEF ExistsBijection
  <2> QED BY <2>1, FS_Bijection
<1>8. T = 1 .. Cardinality(S)
  <2>1. T \in SUBSET (1 .. Cardinality(S))
    BY <1>5
  <2>2. IsFiniteSet(1 .. Cardinality(S)) /\ Cardinality(1 .. Cardinality(S)) = Cardinality(S)
    BY <1>1, FS_Interval
  <2> HIDE DEF T
  <2> QED BY <1>7, <2>1, <2>2, FS_Subset
<1>9. \A k \in 1 .. Cardinality(S) : \E n \in S : Cardinality(Upto(n)) = k
  BY <1>8
<1> QED BY <1>1, <1>4, <1>5, <1>9 DEF Place

(***************************************************************************)
(* Types.                                                                  *)
(***************************************************************************)
RowColumns == {"status", "included", "item", "duplicate", "existing", "expected", "made"}

IsRow(row) ==
  /\ DOMAIN row = RowColumns
  /\ row.status \in RowStatus /\ row.included \in BOOLEAN
  /\ row.duplicate \in {None, "exact", "probable"}

\* One row for each line of the file.
RowsOf(f, rs) == DOMAIN rs = DOMAIN Lines[f] /\ \A n \in DOMAIN rs : IsRow(rs[n])

IsBatch(f, b) ==
  /\ DOMAIN b = {"state", "mapped", "imported", "known"}
  /\ b.state \in {"none", "previewed", "applied"}
  /\ b.mapped \in BOOLEAN /\ b.imported \in 0 .. Len(Lines[f])

Entry == {"key", "value", "live", "rev", "edited", "from"}

IsEntry(e) ==
  /\ DOMAIN e = Entry
  /\ e.rev \in Nat /\ e.live \in BOOLEAN /\ e.edited \in BOOLEAN

IsTable(table) == IsSeq(table) /\ \A i \in DOMAIN table : IsEntry(table[i])

Batched(f) ==
  /\ IsBatch(f, batch[f])
  /\ batch[f].state = "none" => batch[f] = NoBatch /\ rows[f] = <<>>
  /\ batch[f].state # "none" => RowsOf(f, rows[f]) /\ copies[f] > 0
  /\ copies[f] \in Nat

\* What a request holds.
Holds(c) ==
  LET r == request[c]
  IN /\ c \notin workload.clients => r = Idle
     /\ \/ r = Idle
        \/ /\ r.op \in {"preview", "map", "select", "apply"}
           /\ r.file \in workload.files /\ r.file \in File
     /\ r.op = "preview" => RowsOf(r.file, r.rows) /\ copies[r.file] > 0
     /\ r.op \in {"map", "select", "apply"} => batch[r.file].state # "none"
     /\ r.op = "map" => /\ RowsOf(r.file, r.rows) /\ IsRow(r.first) /\ r.file \in Csv
                        /\ r.mapping \in Mapping /\ r.save \in Profile \cup {None}
     /\ r.op = "select" => /\ r.row \in DOMAIN Lines[r.file] /\ IsRow(r.read)
                           /\ r.included \in BOOLEAN
     /\ r.op = "apply" => /\ RowsOf(r.file, r.rows) /\ IsBatch(r.file, r.read)
                          /\ r.read.state = "previewed"

Typed ==
  /\ DOMAIN batch = File /\ DOMAIN rows = File /\ DOMAIN copies = File
  /\ DOMAIN request = Clients
  /\ \A f \in File : Batched(f)
  /\ IsTable(ledger) /\ IsTable(events)
  /\ profiles \subseteq Profile /\ open \in BOOLEAN
  /\ workload \in Workloads
  /\ \A c \in Clients : Holds(c)

LEMMA LinesFacts ==
  ASSUME NEW f \in File
  PROVE  /\ Len(Lines[f]) \in Nat /\ DOMAIN Lines[f] = 1 .. Len(Lines[f])
         /\ IsFiniteSet(DOMAIN Lines[f]) /\ Cardinality(DOMAIN Lines[f]) = Len(Lines[f])
<1>1. Len(Lines[f]) \in Nat /\ Lines[f] = [n \in 1 .. Len(Lines[f]) |-> Lines[f][n]]
  BY LinesAssumption
<1>2. DOMAIN Lines[f] = 1 .. Len(Lines[f])
  BY <1>1
<1>3. /\ IsFiniteSet(1 .. Len(Lines[f]))
      /\ Cardinality(1 .. Len(Lines[f])) =
           IF 1 > Len(Lines[f]) THEN 0 ELSE Len(Lines[f]) - 1 + 1
  BY <1>1, FS_Interval
<1> QED BY <1>1, <1>2, <1>3

(***************************************************************************)
(* Writing a record keeps its columns.                                     *)
(***************************************************************************)
LEMMA RowTypes ==
  ASSUME NEW item, NEW account
  PROVE  IsRow(MappedRow(item, account)) /\ IsRow(CalendarRow(item))
<1>1. \A status \in RowStatus, included \in BOOLEAN : \A i, k :
        k \in {None, "exact", "probable"} => IsRow(Row(status, included, i, k))
  BY DEF IsRow, Row, RowColumns
<1>2. FindDuplicate(item) \in {None, "exact", "probable"}
  BY DEF FindDuplicate
<1>3. IsRow(MappedRow(item, account))
  BY <1>1, <1>2 DEF MappedRow, Invalid, RowStatus
<1>4. IsRow(CalendarRow(item))
  <2>1. \A row, i, e : IsRow(row) => IsRow([row EXCEPT !.existing = i])
                                     /\ IsRow([row EXCEPT !.existing = i, !.expected = e])
    BY DEF IsRow, RowColumns
  <2> QED BY <1>1, <2>1 DEF CalendarRow, Invalid, RowStatus
<1> QED BY <1>3, <1>4

LEMMA WrittenRow ==
  ASSUME NEW stored, NEW read, NEW changed, IsRow(stored), IsRow(changed)
  PROVE  IsRow(Written(stored, read, changed))
BY DEF Written, IsRow, RowColumns

(***************************************************************************)
(* What an application writes.                                             *)
(***************************************************************************)
LEMMA ChosenFacts ==
  ASSUME NEW r, r.file \in File, RowsOf(r.file, r.rows)
  PROVE  /\ NewOnes(r) \subseteq Chosen(r) /\ Chosen(r) \subseteq DOMAIN Lines[r.file]
         /\ Chosen(r) \subseteq Nat /\ IsFiniteSet(Chosen(r)) /\ IsFiniteSet(NewOnes(r))
         /\ Cardinality(Chosen(r)) \in 0 .. Len(Lines[r.file])
<1>1. NewOnes(r) \subseteq Chosen(r) /\ Chosen(r) \subseteq DOMAIN Lines[r.file]
  BY DEF NewOnes, Chosen, RowsOf
<1>2. DOMAIN Lines[r.file] \subseteq Nat
  BY LinesFacts
<1>3. IsFiniteSet(Chosen(r)) /\ Cardinality(Chosen(r)) <= Len(Lines[r.file])
  BY <1>1, LinesFacts, FS_Subset
<1>4. IsFiniteSet(NewOnes(r))
  BY <1>1, <1>3, FS_Subset
<1>5. Cardinality(Chosen(r)) \in Nat /\ Len(Lines[r.file]) \in Nat
  BY <1>3, FS_CardinalityType, LinesFacts
<1> QED BY <1>1, <1>2, <1>3, <1>4, <1>5

\* The table to which a file is imported.
TableOf(f) == IF f \in Csv THEN ledger ELSE events

\* Each new row gets an entry of its own after those there are, which says
\* what the row says; and there are no other new entries.
IsAdded(table, added, r) ==
  /\ IsTable(added)
  /\ \A k \in DOMAIN added : \E n \in NewOnes(r) : k = Place(NewOnes(r), n)
  /\ \A n \in NewOnes(r) :
       LET k == Place(NewOnes(r), n)
       IN /\ k \in DOMAIN added
          /\ added[k] = Record(r.rows[n].item, <<r.file, n>>)
          /\ Target(r, n) = Len(table) + k

LEMMA RecordType ==
  ASSUME NEW item, NEW from
  PROVE  /\ IsEntry(Record(item, from))
         /\ Record(item, from).key = item.key /\ Record(item, from).from = from
         /\ Record(item, from).live
BY DEF Record, Entry, IsEntry

LEMMA AddedFacts ==
  ASSUME NEW r, r.file \in File, RowsOf(r.file, r.rows)
  PROVE  IsAdded(TableOf(r.file), Added(r), r)
<1> DEFINE S == NewOnes(r)
           a == Added(r)
           Of(k) == CHOOSE m \in S : Place(S, m) = k
<1>1. S \in SUBSET Nat /\ IsFiniteSet(S)
  BY ChosenFacts
<1>2. /\ Cardinality(S) \in Nat
      /\ \A n \in S : Place(S, n) \in 1 .. Cardinality(S)
      /\ \A n, m \in S : Place(S, n) = Place(S, m) => n = m
      /\ \A k \in 1 .. Cardinality(S) : \E n \in S : Place(S, n) = k
  BY <1>1, Places
<1>3. a = [k \in 1 .. Cardinality(S) |-> Record(r.rows[Of(k)].item, <<r.file, Of(k)>>)]
  BY DEF Added
<1>4. DOMAIN a = 1 .. Cardinality(S) /\ a = [k \in 1 .. Cardinality(S) |-> a[k]]
  BY <1>3
<1>5. IsSeq(a) /\ Len(a) = Cardinality(S)
  BY <1>2, <1>4, FunctionIsSeq
<1>6. \A k \in 1 .. Cardinality(S) : Of(k) \in S /\ Place(S, Of(k)) = k
  BY <1>2
<1>7. \A n \in S : Of(Place(S, n)) = n
  BY <1>2, <1>6
<1>8. ASSUME NEW k \in DOMAIN a PROVE IsEntry(a[k])
  <2>1. a[k] = Record(r.rows[Of(k)].item, <<r.file, Of(k)>>)
    BY <1>3, <1>4
  <2> HIDE DEF a, Of
  <2> QED BY <2>1, RecordType
<1>9. IsTable(a)
  <2> HIDE DEF a
  <2> QED BY <1>5, <1>8 DEF IsTable
<1>10. ASSUME NEW n \in S
       PROVE  /\ Place(S, n) \in DOMAIN a
              /\ a[Place(S, n)] = Record(r.rows[n].item, <<r.file, n>>)
              /\ Target(r, n) = Len(TableOf(r.file)) + Place(S, n)
  <2>1. Place(S, n) \in 1 .. Cardinality(S)
    BY <1>2
  <2>2. a[Place(S, n)] = Record(r.rows[Of(Place(S, n))].item, <<r.file, Of(Place(S, n))>>)
    BY <1>3, <2>1
  <2>3. Target(r, n) = Len(TableOf(r.file)) + Place(S, n)
    BY DEF Target, TableOf
  <2> QED BY <1>4, <1>7, <2>1, <2>2, <2>3
<1>11. \A k \in DOMAIN a : \E n \in S : k = Place(S, n)
  BY <1>4, <1>6
<1> HIDE DEF S, a, Of
<1>12. /\ \A n \in S : LET k == Place(S, n)
                      IN /\ k \in DOMAIN a
                         /\ a[k] = Record(r.rows[n].item, <<r.file, n>>)
                         /\ Target(r, n) = Len(TableOf(r.file)) + k
  BY <1>10
<1> QED BY <1>9, <1>11, <1>12 DEF IsAdded, S, a

\* A table that only grows, and whose entries keep their key and their line.
Grown(table, later) ==
  /\ Len(table) <= Len(later)
  /\ \A i \in DOMAIN table :
       /\ i \in DOMAIN later
       /\ later[i].key = table[i].key /\ later[i].from = table[i].from
       /\ later[i].live => table[i].live

LEMMA GrownOn ==
  ASSUME NEW s, NEW t, NEW u, IsTable(s), IsTable(t), IsTable(u), Grown(s, t), Grown(t, u)
  PROVE  Grown(s, u)
<1>1. Len(s) \in Nat /\ Len(t) \in Nat /\ Len(u) \in Nat
  BY SeqFacts DEF IsTable
<1>2. Len(s) <= Len(u)
  BY <1>1 DEF Grown
<1> QED BY <1>2 DEF Grown

LEMMA StillGrown ==
  ASSUME NEW t, IsTable(t)
  PROVE  Grown(t, t)
<1>1. Len(t) \in Nat
  BY SeqFacts DEF IsTable
<1> QED BY <1>1 DEF Grown

LEMMA TableJoined ==
  ASSUME NEW s, NEW t, IsTable(s), IsTable(t)
  PROVE  IsTable(s \o t) /\ Grown(s, s \o t)
<1>1. /\ Len(s) \in Nat /\ DOMAIN s = 1 .. Len(s) /\ Len(t) \in Nat /\ DOMAIN t = 1 .. Len(t)
  BY SeqFacts DEF IsTable
<1>2. /\ IsSeq(s \o t)
      /\ Len(s \o t) = Len(s) + Len(t)
      /\ \A i \in 1 .. Len(s) : (s \o t)[i] = s[i]
      /\ \A i \in 1 .. Len(t) : (s \o t)[Len(s) + i] = t[i]
  BY Joined DEF IsTable
<1>3. DOMAIN (s \o t) = 1 .. Len(s) + Len(t)
  BY <1>2, SeqFacts
<1>4. ASSUME NEW i \in DOMAIN (s \o t)
      PROVE  \/ i \in DOMAIN s /\ (s \o t)[i] = s[i]
             \/ \E k \in DOMAIN t : i = Len(s) + k /\ (s \o t)[i] = t[k]
  <2>1. CASE i <= Len(s)
    BY <1>1, <1>2, <1>3, <2>1
  <2>2. CASE ~(i <= Len(s))
    <3>1. i - Len(s) \in 1 .. Len(t) /\ i = Len(s) + (i - Len(s))
      BY <1>1, <1>3, <2>2
    <3> QED BY <1>1, <1>2, <3>1
  <2> QED BY <2>1, <2>2
<1>5. IsTable(s \o t)
  BY <1>2, <1>4 DEF IsTable
<1>6. Grown(s, s \o t)
  BY <1>1, <1>2, <1>3 DEF Grown
<1> QED BY <1>5, <1>6

\* An entry that is written in place.
Rewritten(e, w) ==
  /\ IsEntry(w)
  /\ w.key = e.key /\ w.from = e.from
  /\ w.live => e.live

LEMMA EntryWrites ==
  ASSUME NEW e, IsEntry(e)
  PROVE  /\ Rewritten(e, e)
         /\ \A v : Rewritten(e, [e EXCEPT !.value = v])
         /\ \A v : Rewritten(e, [e EXCEPT !.value = v, !.rev = @ + 1, !.edited = FALSE])
         /\ Rewritten(e, [e EXCEPT !.live = FALSE])
         /\ Rewritten(e, [e EXCEPT !.rev = @ + 1, !.edited = TRUE])
         /\ Rewritten(e, [e EXCEPT !.live = FALSE, !.rev = @ + 1])
<1>1. e.rev + 1 \in Nat /\ TRUE \in BOOLEAN /\ FALSE \in BOOLEAN
  BY DEF IsEntry
<1>2. Rewritten(e, e)
  BY DEF Rewritten
<1>3. \A v : Rewritten(e, [e EXCEPT !.value = v])
  BY DEF Rewritten, IsEntry, Entry
<1>4. \A v : Rewritten(e, [e EXCEPT !.value = v, !.rev = @ + 1, !.edited = FALSE])
  BY <1>1 DEF Rewritten, IsEntry, Entry
<1>5. Rewritten(e, [e EXCEPT !.live = FALSE])
  BY <1>1 DEF Rewritten, IsEntry, Entry
<1>6. Rewritten(e, [e EXCEPT !.rev = @ + 1, !.edited = TRUE])
  BY <1>1 DEF Rewritten, IsEntry, Entry
<1>7. Rewritten(e, [e EXCEPT !.live = FALSE, !.rev = @ + 1])
  BY <1>1 DEF Rewritten, IsEntry, Entry
<1> QED BY <1>2, <1>3, <1>4, <1>5, <1>6, <1>7

LEMMA TableWritten ==
  ASSUME NEW s, IsTable(s), NEW t, t = [i \in DOMAIN s |-> t[i]],
         \A i \in DOMAIN s : Rewritten(s[i], t[i])
  PROVE  IsTable(t) /\ Grown(s, t) /\ DOMAIN t = DOMAIN s
<1>1. Len(s) \in Nat /\ DOMAIN s = 1 .. Len(s)
  BY SeqFacts DEF IsTable
<1>2. t = [i \in 1 .. Len(s) |-> t[i]]
  BY <1>1
<1>3. IsSeq(t) /\ Len(t) = Len(s)
  BY <1>1, <1>2, FunctionIsSeq
<1>4. DOMAIN t = DOMAIN s
  OBVIOUS
<1> QED BY <1>1, <1>3, <1>4 DEF IsTable, Grown, Rewritten

LEMMA ChangedTable ==
  ASSUME IsTable(events), NEW r, NEW t, t = [i \in DOMAIN events |-> Changed(r, i)]
  PROVE  IsTable(t) /\ Grown(events, t) /\ DOMAIN t = DOMAIN events
<1>1. ASSUME NEW i \in DOMAIN events PROVE Rewritten(events[i], Changed(r, i))
  <2>1. IsEntry(events[i])
    BY DEF IsTable
  <2>2. \/ Changed(r, i) = events[i]
        \/ \E v : Changed(r, i) =
                    [events[i] EXCEPT !.value = v, !.rev = @ + 1, !.edited = FALSE]
    BY DEF Changed
  <2>3. \A v : Rewritten(events[i],
                       [events[i] EXCEPT !.value = v, !.rev = @ + 1, !.edited = FALSE])
    BY <2>1, EntryWrites
  <2>4. Rewritten(events[i], events[i])
    BY <2>1, EntryWrites
  <2> QED BY <2>2, <2>3, <2>4
<1>2. t = [i \in DOMAIN events |-> t[i]] /\ \A i \in DOMAIN events : t[i] = Changed(r, i)
  OBVIOUS
<1> QED BY <1>1, <1>2, TableWritten

\* A request under way has one of the files of the behaviour.
LEMMA UnderWay ==
  ASSUME Typed, NEW c \in Clients, request[c].op \in {"preview", "map", "select", "apply"}
  PROVE  /\ c \in workload.clients
         /\ request[c].file \in workload.files /\ request[c].file \in File
         /\ request[c].op = "preview" => RowsOf(request[c].file, request[c].rows)
         /\ request[c].op = "map" => RowsOf(request[c].file, request[c].rows)
         /\ request[c].op = "apply" => RowsOf(request[c].file, request[c].rows)
<1>1. request[c] # Idle
  BY DEF Idle
<1>2. Holds(c)
  BY DEF Typed
<1> QED BY <1>1, <1>2 DEF Holds

\* What an application of a batch makes of the tables.
Applied(r, f) ==
  /\ IsTable(ledger') /\ Grown(ledger, ledger')
  /\ IsTable(events') /\ Grown(events, events')
  /\ f \in Csv => events' = events
  /\ f \notin Csv => ledger' = ledger
  /\ \A i \in DOMAIN TableOf(f)' :
       i \in DOMAIN TableOf(f) \/ \E n \in NewOnes(r) : i = Target(r, n)
  /\ \A n \in NewOnes(r) :
       /\ Target(r, n) \in DOMAIN TableOf(f)' /\ Target(r, n) \notin DOMAIN TableOf(f)
       /\ Target(r, n) \in Nat
       /\ TableOf(f)'[Target(r, n)] = Record(r.rows[n].item, <<f, n>>)

LEMMA AppliedTables ==
  ASSUME Typed, NEW c \in Clients, Apply(c), NEW r, r = request[c], NEW f, f = r.file
  PROVE  Applied(r, f)
<1>1. f \in File /\ RowsOf(f, r.rows)
  <2>1. request[c].op = "apply"
    BY DEF Apply
  <2> QED BY <2>1, UnderWay
<1>2. IsTable(ledger) /\ IsTable(events)
  BY DEF Typed
<1>3. IsAdded(TableOf(f), Added(r), r)
  BY <1>1, AddedFacts
<1>4. /\ f \in Csv => ledger' = ledger \o Added(r) /\ events' = events
      /\ f \notin Csv => ledger' = ledger
                         /\ events' = [i \in DOMAIN events |-> Changed(r, i)] \o Added(r)
  BY DEF Apply
<1>5. PICK base : /\ IsTable(base) /\ Grown(TableOf(f), base) /\ DOMAIN base = DOMAIN TableOf(f)
                  /\ TableOf(f)' = base \o Added(r)
  <2>1. CASE f \in Csv
    <3>1. Grown(ledger, ledger)
      BY <1>2, StillGrown
    <3> QED BY <1>2, <1>4, <2>1, <3>1 DEF TableOf
  <2>2. CASE f \notin Csv
    <3> DEFINE base == [i \in DOMAIN events |-> Changed(r, i)]
    <3>1. IsTable(base) /\ Grown(events, base) /\ DOMAIN base = DOMAIN events
      BY <1>2, ChangedTable
    <3>2. events' = base \o Added(r)
      BY <1>4, <2>2
    <3> HIDE DEF base
    <3> QED BY <2>2, <3>1, <3>2 DEF TableOf
  <2> QED BY <2>1, <2>2
<1>6. /\ Len(base) \in Nat /\ DOMAIN base = 1 .. Len(base) /\ Len(Added(r)) \in Nat
      /\ DOMAIN Added(r) = 1 .. Len(Added(r))
      /\ Len(TableOf(f)) \in Nat /\ DOMAIN TableOf(f) = 1 .. Len(TableOf(f))
  BY <1>2, <1>3, <1>5, SeqFacts DEF IsTable, IsAdded, TableOf
<1>7. Len(base) = Len(TableOf(f))
  <2>1. 1 .. Len(base) = 1 .. Len(TableOf(f))
    BY <1>5, <1>6
  <2>2. \A a, b \in Nat : 1 .. a = 1 .. b => a = b
    OBVIOUS
  <2> QED BY <1>6, <2>1, <2>2
<1>8. /\ IsTable(TableOf(f)') /\ Grown(base, TableOf(f)')
      /\ Len(TableOf(f)') = Len(base) + Len(Added(r))
      /\ \A k \in 1 .. Len(Added(r)) : TableOf(f)'[Len(base) + k] = Added(r)[k]
      /\ DOMAIN TableOf(f)' = 1 .. Len(TableOf(f)')
  <2>1. IsSeq(base) /\ IsSeq(Added(r)) /\ IsTable(Added(r))
    BY <1>3, <1>5 DEF IsTable, IsAdded
  <2>2. IsTable(base \o Added(r)) /\ Grown(base, base \o Added(r))
    BY <1>5, <2>1, TableJoined
  <2>3. DOMAIN (base \o Added(r)) = 1 .. Len(base \o Added(r))
    BY <2>2, SeqFacts DEF IsTable
  <2> QED BY <1>5, <2>1, <2>2, <2>3, Joined
<1>9. Grown(TableOf(f), TableOf(f)')
  <2>1. IsTable(TableOf(f))
    BY <1>2 DEF TableOf
  <2> QED BY <1>5, <1>8, <2>1, GrownOn
<1>10. /\ IsTable(ledger') /\ Grown(ledger, ledger')
       /\ IsTable(events') /\ Grown(events, events')
  <2>1. Grown(ledger, ledger) /\ Grown(events, events)
    BY <1>2, StillGrown
  <2>2. CASE f \in Csv
    BY <1>2, <1>4, <1>8, <1>9, <2>1, <2>2 DEF TableOf
  <2>3. CASE f \notin Csv
    BY <1>2, <1>4, <1>8, <1>9, <2>1, <2>3 DEF TableOf
  <2> QED BY <2>2, <2>3
<1>11. ASSUME NEW n \in NewOnes(r)
       PROVE  /\ Target(r, n) \in DOMAIN TableOf(f)' /\ Target(r, n) \notin DOMAIN TableOf(f)
              /\ Target(r, n) \in Nat
              /\ TableOf(f)'[Target(r, n)] = Record(r.rows[n].item, <<f, n>>)
  <2> DEFINE k == Place(NewOnes(r), n)
  <2>1. /\ k \in DOMAIN Added(r)
        /\ Added(r)[k] = Record(r.rows[n].item, <<f, n>>)
        /\ Target(r, n) = Len(TableOf(f)) + k
    BY <1>3 DEF IsAdded
  <2> HIDE DEF k
  <2>2. k \in 1 .. Len(Added(r))
    BY <1>6, <2>1
  <2>3. Target(r, n) = Len(base) + k
    BY <1>7, <2>1
  <2>4. Target(r, n) \in 1 .. Len(base) + Len(Added(r)) /\ ~(Target(r, n) \in 1 .. Len(base))
    BY <1>6, <2>2, <2>3
  <2> QED BY <1>6, <1>7, <1>8, <2>1, <2>2, <2>3, <2>4
<1>12. ASSUME NEW i \in DOMAIN TableOf(f)', i \notin DOMAIN TableOf(f)
       PROVE  \E n \in NewOnes(r) : i = Target(r, n)
  <2>1. i - Len(base) \in DOMAIN Added(r) /\ i = Len(base) + (i - Len(base))
    BY <1>6, <1>7, <1>8, <1>12
  <2>2. PICK n \in NewOnes(r) : i - Len(base) = Place(NewOnes(r), n)
    BY <1>3, <2>1 DEF IsAdded
  <2>3. Target(r, n) = Len(base) + Place(NewOnes(r), n)
    BY <1>3, <1>7 DEF IsAdded
  <2> QED BY <2>1, <2>2, <2>3
<1> QED BY <1>4, <1>10, <1>11, <1>12 DEF Applied

\* What is done by hand touches no batch, and makes no entry with a key.
Hand ==
  /\ UNCHANGED <<batch, rows, copies, request, workload>>
  /\ IsTable(ledger') /\ Grown(ledger, ledger') /\ IsTable(events') /\ Grown(events, events')
  /\ DOMAIN events' = DOMAIN events
  /\ \A i \in DOMAIN ledger' \ DOMAIN ledger : ledger'[i].key = None /\ ledger'[i].from = None

LEMMA HandWrites ==
  ASSUME IsTable(ledger), IsTable(events), profiles \subseteq Profile, open \in BOOLEAN, ByHand
  PROVE  Hand /\ profiles' \subseteq Profile /\ open' \in BOOLEAN
<1>1. Grown(ledger, ledger) /\ Grown(events, events)
  BY StillGrown
<1>2. CASE \E v \in Value : EnterTransaction(v)
  <2>1. PICK v \in Value : EnterTransaction(v)
    BY <1>2
  <2> DEFINE new == Record([key |-> None, value |-> v], None)
  <2>2. ledger' = Append(ledger, new)
    BY <2>1 DEF EnterTransaction
  <2>3. IsEntry(new) /\ new.key = None /\ new.from = None
    BY RecordType
  <2> HIDE DEF new
  <2>4. PICK S : ledger \in Seq(S)
    BY DEF IsTable, IsSeq
  <2>5. ledger \in Seq(S \cup {new})
    BY <2>4, SeqMonotonic
  <2>6. /\ ledger' \in Seq(S \cup {new}) /\ Len(ledger') = Len(ledger) + 1
        /\ \A i \in 1 .. Len(ledger) : ledger'[i] = ledger[i]
        /\ ledger'[Len(ledger) + 1] = new
    BY <2>2, <2>5, AppendProperties
  <2>7. /\ Len(ledger) \in Nat /\ DOMAIN ledger = 1 .. Len(ledger)
        /\ DOMAIN ledger' = 1 .. Len(ledger) + 1
    BY <2>5, <2>6, LenProperties
  <2>8. \A i \in DOMAIN ledger' : i \in DOMAIN ledger \/ i = Len(ledger) + 1
    BY <2>7
  <2>9. IsTable(ledger')
    BY <2>3, <2>6, <2>7, <2>8 DEF IsTable, IsSeq
  <2>10. Grown(ledger, ledger')
    BY <2>6, <2>7 DEF Grown
  <2> QED BY <1>1, <2>1, <2>3, <2>6, <2>8, <2>9, <2>10 DEF EnterTransaction, Hand
<1>3. CASE \E v \in Value : \E i \in DOMAIN ledger : EditTransaction(i, v)
  <2>1. PICK v \in Value, i \in DOMAIN ledger : EditTransaction(i, v)
    BY <1>3
  <2>2. ledger' = [ledger EXCEPT ![i].value = v]
    BY <2>1 DEF EditTransaction
  <2>3. ledger' = [j \in DOMAIN ledger |-> ledger'[j]]
    BY <2>2
  <2>4. \A j \in DOMAIN ledger : ledger'[j] = ledger[j] \/ ledger'[j] = [ledger[j] EXCEPT !.value = v]
    BY <2>2
  <2>5. ASSUME NEW j \in DOMAIN ledger PROVE Rewritten(ledger[j], ledger'[j])
    <3>1. IsEntry(ledger[j])
      BY DEF IsTable
    <3>2. Rewritten(ledger[j], [ledger[j] EXCEPT !.value = v])
      BY <3>1, EntryWrites
    <3>3. Rewritten(ledger[j], ledger[j])
      BY <3>1, EntryWrites
    <3> QED BY <2>4, <3>2, <3>3
  <2>6. IsTable(ledger') /\ Grown(ledger, ledger') /\ DOMAIN ledger' = DOMAIN ledger
    BY <2>3, <2>5, TableWritten
  <2> QED BY <1>1, <2>1, <2>6 DEF EditTransaction, Hand
<1>4. CASE \E i \in DOMAIN ledger : DeleteTransaction(i)
  <2>1. PICK i \in DOMAIN ledger : DeleteTransaction(i)
    BY <1>4
  <2>2. ledger' = [ledger EXCEPT ![i].live = FALSE]
    BY <2>1 DEF DeleteTransaction
  <2>3. ledger' = [j \in DOMAIN ledger |-> ledger'[j]]
    BY <2>2
  <2>4. \A j \in DOMAIN ledger : ledger'[j] = ledger[j] \/ ledger'[j] = [ledger[j] EXCEPT !.live = FALSE]
    BY <2>2
  <2>5. \A j \in DOMAIN ledger : Rewritten(ledger[j], ledger'[j])
    BY <2>4, EntryWrites DEF IsTable
  <2>6. IsTable(ledger') /\ Grown(ledger, ledger') /\ DOMAIN ledger' = DOMAIN ledger
    BY <2>3, <2>5, TableWritten
  <2> QED BY <1>1, <2>1, <2>6 DEF DeleteTransaction, Hand
<1>5. CASE CloseAccount
  BY <1>1, <1>5 DEF CloseAccount, Hand
<1>6. CASE \E i \in DOMAIN events : EditEvent(i)
  <2>1. PICK i \in DOMAIN events : EditEvent(i)
    BY <1>6
  <2>2. events' = [events EXCEPT ![i].rev = @ + 1, ![i].edited = TRUE]
    BY <2>1 DEF EditEvent
  <2>3. events' = [j \in DOMAIN events |-> events'[j]]
    BY <2>2
  <2>4. \A j \in DOMAIN events :
          \/ events'[j] = events[j]
          \/ events'[j] = [events[j] EXCEPT !.rev = @ + 1, !.edited = TRUE]
    BY <2>2
  <2>5. \A j \in DOMAIN events : Rewritten(events[j], events'[j])
    BY <2>4, EntryWrites DEF IsTable
  <2>6. IsTable(events') /\ Grown(events, events') /\ DOMAIN events' = DOMAIN events
    BY <2>3, <2>5, TableWritten
  <2> QED BY <1>1, <2>1, <2>6 DEF EditEvent, Hand
<1>7. CASE \E i \in DOMAIN events : DeleteEvent(i)
  <2>1. PICK i \in DOMAIN events : DeleteEvent(i)
    BY <1>7
  <2>2. events' = [events EXCEPT ![i].live = FALSE, ![i].rev = @ + 1]
    BY <2>1 DEF DeleteEvent
  <2>3. events' = [j \in DOMAIN events |-> events'[j]]
    BY <2>2
  <2>4. \A j \in DOMAIN events :
          \/ events'[j] = events[j]
          \/ events'[j] = [events[j] EXCEPT !.live = FALSE, !.rev = @ + 1]
    BY <2>2
  <2>5. \A j \in DOMAIN events : Rewritten(events[j], events'[j])
    BY <2>4, EntryWrites DEF IsTable
  <2>6. IsTable(events') /\ Grown(events, events') /\ DOMAIN events' = DOMAIN events
    BY <2>3, <2>5, TableWritten
  <2> QED BY <1>1, <2>1, <2>6 DEF DeleteEvent, Hand
<1>8. CASE \E p \in Profile :
             CreateProfile(p) \/ DeleteProfile(p) \/ \E q \in Profile : UpdateProfile(p, q)
  BY <1>1, <1>8 DEF CreateProfile, DeleteProfile, UpdateProfile, Hand, records
<1> QED BY <1>2, <1>3, <1>4, <1>5, <1>6, <1>7, <1>8 DEF ByHand

-----------------------------------------------------------------------------
\* What a step by one request leaves of the others.
LEMMA OthersHold ==
  ASSUME Typed, NEW c \in Clients, \A q \in Clients \ {c} : request'[q] = request[q],
         workload' = workload,
         \A f \in File : batch[f].state # "none" => batch'[f].state # "none",
         \A f \in File : copies[f] > 0 => copies'[f] > 0
  PROVE  \A q \in Clients \ {c} : Holds(q)'
<1> SUFFICES ASSUME NEW q \in Clients \ {c} PROVE Holds(q)'
  OBVIOUS
<1>1. Holds(q) /\ request'[q] = request[q]
  BY DEF Typed
<1>2. \/ request[q] = Idle
      \/ request[q].file \in File /\ request[q].op \in {"preview", "map", "select", "apply"}
  BY <1>1 DEF Holds
<1>3. CASE request[q] = Idle
  <2>1. request'[q] = Idle
    BY <1>1, <1>3
  <2>2. Idle.op = "idle"
    BY DEF Idle
  <2> QED BY <2>1, <2>2 DEF Holds
<1>4. CASE request[q].file \in File
  BY <1>1, <1>4 DEF Holds, RowsOf, IsBatch
<1> QED BY <1>2, <1>3, <1>4

LEMMA IdleHolds ==
  ASSUME NEW c, request'[c] = Idle
  PROVE  Holds(c)'
<1>1. Idle.op = "idle"
  BY DEF Idle
<1> QED BY <1>1 DEF Holds

LEMMA TypedInit == ImportsInit => Typed
<1> SUFFICES ASSUME ImportsInit PROVE Typed
  OBVIOUS
<1>1. IsTable(<<>>)
  <2>1. <<>> \in Seq({})
    BY EmptySeq
  <2> QED BY <2>1 DEF IsTable, IsSeq
<1>2. \A f \in File : Batched(f)
  <2> TAKE f \in File
  <2>1. batch[f] = NoBatch /\ rows[f] = <<>> /\ copies[f] = 0
    BY DEF ImportsInit
  <2>2. IsBatch(f, NoBatch) /\ NoBatch.state = "none"
    BY LinesFacts, CsvAssumption DEF IsBatch, NoBatch
  <2> QED BY <2>1, <2>2 DEF Batched
<1>3. \A c \in Clients : Holds(c)
  BY DEF ImportsInit, Holds, Idle
<1> QED BY <1>1, <1>2, <1>3 DEF ImportsInit, Typed

LEMMA HandTyped == Typed /\ ByHand => Typed'
<1> SUFFICES ASSUME Typed, ByHand PROVE Typed'
  OBVIOUS
<1>1. /\ UNCHANGED <<batch, rows, copies, request, workload>>
      /\ IsTable(ledger') /\ IsTable(events') /\ profiles' \subseteq Profile /\ open' \in BOOLEAN
  BY HandWrites DEF Typed, Hand
<1>2. \A f \in File : Batched(f)'
  BY <1>1 DEF Typed, Batched, IsBatch, RowsOf, IsRow
<1>3. \A c \in Clients : Holds(c)'
  BY <1>1 DEF Typed, Holds, IsBatch, RowsOf, IsRow
<1> QED BY <1>1, <1>2, <1>3 DEF Typed

\* A request that reads changes no table; what it has read fits the tables.
LEMMA ReadsTyped ==
  ASSUME Typed, NEW c \in Clients, NEW read, Reads(c, read),
         UNCHANGED <<batch, rows, ledger, events, open, profiles, workload>>,
         DOMAIN copies' = File, \A f \in File : copies'[f] \in Nat /\ copies'[f] >= copies[f],
         Holds(c)'
  PROVE  Typed'
<1>1. \A f \in File : copies[f] \in Nat
  BY DEF Typed, Batched
<1>2. \A f \in File : copies[f] > 0 => copies'[f] > 0
  BY <1>1
<1>3. \A f \in File : Batched(f)'
  BY <1>2 DEF Typed, Batched, IsBatch, RowsOf, IsRow
<1>4. DOMAIN request' = Clients /\ \A q \in Clients \ {c} : request'[q] = request[q]
  BY DEF Typed, Reads
<1>5. \A q \in Clients : Holds(q)'
  BY <1>2, <1>4, OthersHold
<1> QED BY <1>3, <1>4, <1>5 DEF Typed

LEMMA BeginPreviewTyped ==
  ASSUME Typed, NEW c \in Clients, NEW f \in File, BeginPreview(c, f)
  PROVE  Typed'
<1> DEFINE read == [op |-> "preview", file |-> f,
                    rows |-> [n \in DOMAIN Lines[f] |->
                                IF f \in Csv THEN Row("new", TRUE, None, None)
                                ELSE CalendarRow(NormalizedEvent(f, n))]]
<1>1. Reads(c, read)
  BY DEF BeginPreview
<1>2. RowsOf(f, read.rows)
  <2>1. IsRow(Row("new", TRUE, None, None))
    BY DEF IsRow, Row, RowColumns, RowStatus
  <2> QED BY <2>1, RowTypes DEF RowsOf
<1>3. copies' = [copies EXCEPT ![f] = @ + 1] /\ workload' = workload
  BY DEF BeginPreview
<1>4. /\ DOMAIN copies' = File /\ copies'[f] > 0
      /\ \A g \in File : copies'[g] \in Nat /\ copies'[g] >= copies[g]
  BY <1>3 DEF Typed, Batched
<1>5. Holds(c)'
  <2>1. request'[c] = read /\ c \in workload.clients /\ f \in workload.files
    BY <1>1 DEF Reads, Typed
  <2>2. read.op = "preview" /\ read.file = f
    OBVIOUS
  <2> HIDE DEF read
  <2> QED BY <1>2, <1>3, <1>4, <2>1, <2>2 DEF Holds, RowsOf, IsRow
<1> HIDE DEF read
<1> QED BY <1>1, <1>4, <1>5, ReadsTyped DEF BeginPreview, records

LEMMA BeginMapTyped ==
  ASSUME Typed, NEW c \in Clients, NEW f \in File, NEW m \in Mapping, NEW save \in Saved,
         BeginMap(c, f, m, save)
  PROVE  Typed'
<1> DEFINE read == [op |-> "map", file |-> f, rows |-> rows[f], mapping |-> m, save |-> save,
                    account |-> open, first |-> MappedRow(Normalized(f, 1, m), open)]
<1>1. Reads(c, read) /\ f \in Csv /\ Pending(f)
  BY DEF BeginMap
<1>2. IsRow(read.first)
  BY RowTypes
<1>3. save \in Profile \cup {None}
  BY DEF Saved
<1>4. batch[f].state # "none" /\ RowsOf(f, rows[f])
  BY <1>1 DEF Typed, Batched, Pending
<1>5. UNCHANGED <<batch, rows, copies, ledger, events, open, profiles, workload>>
  BY DEF BeginMap, records
<1>6. Holds(c)'
  <2>1. request'[c] = read /\ c \in workload.clients /\ f \in workload.files
    BY <1>1 DEF Reads, Typed
  <2>2. /\ read.op = "map" /\ read.file = f /\ read.rows = rows[f] /\ read.mapping = m
        /\ read.save = save
    OBVIOUS
  <2> HIDE DEF read
  <2> QED BY <1>1, <1>2, <1>3, <1>4, <1>5, <2>1, <2>2 DEF Holds, RowsOf, IsRow
<1>7. DOMAIN copies' = File /\ \A g \in File : copies'[g] \in Nat /\ copies'[g] >= copies[g]
  BY <1>5 DEF Typed, Batched
<1> HIDE DEF read
<1> QED BY <1>1, <1>5, <1>6, <1>7, ReadsTyped

LEMMA BeginSelectTyped ==
  ASSUME Typed, NEW c \in Clients, NEW f \in File, NEW n \in DOMAIN rows[f], NEW b \in BOOLEAN,
         BeginSelect(c, f, n, b)
  PROVE  Typed'
<1> DEFINE read == [op |-> "select", file |-> f, row |-> n, read |-> rows[f][n],
                    included |-> b]
<1>1. Reads(c, read) /\ Pending(f)
  BY DEF BeginSelect
<1>2. batch[f].state # "none" /\ RowsOf(f, rows[f])
  BY <1>1 DEF Typed, Batched, Pending
<1>3. n \in DOMAIN Lines[f] /\ IsRow(rows[f][n])
  BY <1>2 DEF RowsOf
<1>4. UNCHANGED <<batch, rows, copies, ledger, events, open, profiles, workload>>
  BY DEF BeginSelect, records
<1>5. Holds(c)'
  <2>1. request'[c] = read /\ c \in workload.clients /\ f \in workload.files
    BY <1>1 DEF Reads, Typed
  <2>2. /\ read.op = "select" /\ read.file = f /\ read.row = n /\ read.read = rows[f][n]
        /\ read.included = b
    OBVIOUS
  <2> HIDE DEF read
  <2> QED BY <1>2, <1>3, <1>4, <2>1, <2>2 DEF Holds, IsRow
<1>6. DOMAIN copies' = File /\ \A g \in File : copies'[g] \in Nat /\ copies'[g] >= copies[g]
  BY <1>4 DEF Typed, Batched
<1> HIDE DEF read
<1> QED BY <1>1, <1>4, <1>5, <1>6, ReadsTyped

LEMMA BeginApplyTyped ==
  ASSUME Typed, NEW c \in Clients, NEW f \in File, NEW s, BeginApply(c, f, s)
  PROVE  Typed'
<1> DEFINE read == [op |-> "apply", file |-> f, rows |-> rows[f], selected |-> s,
                    read |-> batch[f]]
<1>1. Reads(c, read) /\ Pending(f)
  BY DEF BeginApply
<1>2. batch[f].state = "previewed" /\ RowsOf(f, rows[f]) /\ IsBatch(f, batch[f])
  BY <1>1 DEF Typed, Batched, Pending
<1>3. UNCHANGED <<batch, rows, copies, ledger, events, open, profiles, workload>>
  BY DEF BeginApply, records
<1>4. Holds(c)'
  <2>1. request'[c] = read /\ c \in workload.clients /\ f \in workload.files
    BY <1>1 DEF Reads, Typed
  <2>2. /\ read.op = "apply" /\ read.file = f /\ read.rows = rows[f] /\ read.read = batch[f]
    OBVIOUS
  <2> HIDE DEF read
  <2> QED BY <1>2, <1>3, <2>1, <2>2 DEF Holds, RowsOf, IsRow, IsBatch
<1>5. DOMAIN copies' = File /\ \A g \in File : copies'[g] \in Nat /\ copies'[g] >= copies[g]
  BY <1>3 DEF Typed, Batched
<1> HIDE DEF read
<1> QED BY <1>1, <1>3, <1>4, <1>5, ReadsTyped

\* A request that writes: its file has a batch with a row for each line.
LEMMA WritesTyped ==
  ASSUME Typed, NEW c \in Clients, Ends(c), NEW f \in File, NEW b, NEW rs,
         DOMAIN batch' = File, batch'[f] = b, \A g \in File \ {f} : batch'[g] = batch[g],
         rows' = [rows EXCEPT ![f] = rs], copies' = copies,
         IsBatch(f, b), b.state # "none", RowsOf(f, rs), copies[f] > 0,
         IsTable(ledger'), IsTable(events'), profiles' \subseteq Profile, open' = open
  PROVE  Typed'
<1>1. \A g \in File : batch[g].state # "none" => batch'[g].state # "none"
  OBVIOUS
<1>2. ASSUME NEW g \in File PROVE Batched(g)'
  <2>1. CASE g = f
    <3>1. batch'[f] = b /\ rows'[f] = rs /\ copies'[f] = copies[f] /\ copies[f] \in Nat
      BY DEF Typed, Batched
    <3> QED BY <2>1, <3>1 DEF Batched, IsBatch, RowsOf, IsRow
  <2>2. CASE g # f
    <3>1. batch'[g] = batch[g] /\ rows'[g] = rows[g] /\ copies'[g] = copies[g]
      BY <2>2 DEF Typed
    <3> QED BY <3>1 DEF Typed, Batched, IsBatch, RowsOf, IsRow
  <2> QED BY <2>1, <2>2
<1>3. /\ DOMAIN request' = Clients /\ request'[c] = Idle
      /\ \A q \in Clients \ {c} : request'[q] = request[q]
  BY DEF Typed, Ends
<1>4. \A q \in Clients : Holds(q)'
  BY <1>1, <1>3, OthersHold, IdleHolds DEF Ends
<1>5. DOMAIN rows' = File /\ DOMAIN copies' = File
  BY DEF Typed
<1> QED BY <1>2, <1>3, <1>4, <1>5 DEF Typed, Ends

LEMMA PreviewTyped ==
  ASSUME Typed, NEW c \in Clients, Preview(c)
  PROVE  Typed'
<1> DEFINE f == request[c].file
           b == [batch[f] EXCEPT !.state = "previewed"]
<1>1. request[c].op = "preview" /\ batch[f].state = "none" /\ Ends(c)
  BY DEF Preview
<1>2. f \in File /\ RowsOf(f, request[c].rows) /\ copies[f] > 0
  BY <1>1, UnderWay DEF Typed, Holds
<1>3. IsBatch(f, b) /\ b.state = "previewed"
  <2>1. IsBatch(f, batch[f])
    BY <1>2 DEF Typed, Batched
  <2> QED BY <2>1 DEF IsBatch
<1>4. batch' = [batch EXCEPT ![f] = b] /\ rows' = [rows EXCEPT ![f] = request[c].rows]
  BY DEF Preview
<1>5. UNCHANGED <<copies, ledger, events, open, profiles>>
  BY DEF Preview, records
<1> HIDE DEF f, b
<1> QED BY <1>1, <1>2, <1>3, <1>4, <1>5, WritesTyped DEF Typed, f

LEMMA MapTyped ==
  ASSUME Typed, NEW c \in Clients, Map(c)
  PROVE  Typed'
<1> DEFINE r == request[c]
           f == r.file
           Mapped(n) == IF n = 1 THEN r.first ELSE MappedRow(Normalized(f, n, r.mapping), r.account)
           b == [batch[f] EXCEPT !.mapped = TRUE, !.known = Len(ledger)]
           rs == [n \in DOMAIN rows[f] |->
                    Written(rows[f][n], r.rows[n], [Mapped(n) EXCEPT !.made = r.rows[n].made])]
<1>1. r.op = "map" /\ Ends(c)
  BY DEF Map
<1>2. /\ f \in File /\ batch[f].state # "none" /\ r.mapping \in Mapping
      /\ r.save \in Profile \cup {None} /\ IsRow(r.first)
  BY <1>1, UnderWay DEF Typed, Holds
<1>3. IsBatch(f, batch[f]) /\ RowsOf(f, rows[f]) /\ copies[f] > 0
  BY <1>2 DEF Typed, Batched
<1>4. IsBatch(f, b) /\ b.state # "none"
  BY <1>2, <1>3 DEF IsBatch
<1>5. RowsOf(f, rs)
  <2>1. \A n : IsRow(Mapped(n))
    BY <1>2, RowTypes
  <2>2. \A row, v : IsRow(row) => IsRow([row EXCEPT !.made = v])
    BY DEF IsRow, RowColumns
  <2>3. \A n \in DOMAIN rows[f] : IsRow(rs[n])
    <3> HIDE DEF Mapped
    <3> QED BY <1>3, <2>1, <2>2, WrittenRow DEF RowsOf
  <2> QED BY <1>3, <2>3 DEF RowsOf
<1>6. /\ batch' = [batch EXCEPT ![f] = b] /\ rows' = [rows EXCEPT ![f] = rs]
      /\ profiles' \subseteq Profile
  <2>1. batch' = [batch EXCEPT ![f] = b]
    BY DEF Map
  <2>2. rows' = [rows EXCEPT ![f] = rs]
    BY DEF Map
  <2>3. profiles' = profiles \cup ({r.save} \ {None})
    BY DEF Map
  <2> QED BY <1>2, <2>1, <2>2, <2>3 DEF Typed
<1>7. UNCHANGED <<copies, ledger, events, open>>
  BY DEF Map, records
<1> HIDE DEF r, f, b, rs, Mapped
<1> QED BY <1>1, <1>2, <1>3, <1>4, <1>5, <1>6, <1>7, WritesTyped DEF Typed

LEMMA SelectTyped ==
  ASSUME Typed, NEW c \in Clients, Select(c)
  PROVE  Typed'
<1> DEFINE r == request[c]
           f == r.file
           rs == [rows[f] EXCEPT ![r.row] =
                    Written(rows[f][r.row], r.read, [r.read EXCEPT !.included = r.included])]
<1>1. r.op = "select" /\ Ends(c)
  BY DEF Select
<1>2. /\ f \in File /\ batch[f].state # "none" /\ r.row \in DOMAIN Lines[f]
      /\ IsRow(r.read) /\ r.included \in BOOLEAN
  BY <1>1, UnderWay DEF Typed, Holds
<1>3. IsBatch(f, batch[f]) /\ RowsOf(f, rows[f]) /\ copies[f] > 0
  BY <1>2 DEF Typed, Batched
<1>4. RowsOf(f, rs)
  <2>1. IsRow([r.read EXCEPT !.included = r.included])
    BY <1>2 DEF IsRow, RowColumns
  <2>2. IsRow(Written(rows[f][r.row], r.read, [r.read EXCEPT !.included = r.included]))
    BY <1>2, <1>3, <2>1, WrittenRow DEF RowsOf
  <2> QED BY <1>2, <1>3, <2>2 DEF RowsOf
<1>5. /\ rows' = [rows EXCEPT ![f] = rs]
      /\ UNCHANGED <<batch, copies, ledger, events, open, profiles>>
  <2>1. rows' = [rows EXCEPT ![f] = rs]
    BY DEF Select
  <2>2. UNCHANGED <<batch, copies, ledger, events, open, profiles>>
    BY DEF Select, records
  <2> QED BY <2>1, <2>2
<1> HIDE DEF r, f, rs
<1> QED BY <1>1, <1>2, <1>3, <1>4, <1>5, WritesTyped DEF Typed

LEMMA ApplyTyped ==
  ASSUME Typed, NEW c \in Clients, Apply(c)
  PROVE  Typed'
<1> DEFINE r == request[c]
           f == r.file
           changed == [r.read EXCEPT !.state = "applied", !.imported = Cardinality(Chosen(r))]
           b == Written(batch[f], r.read, changed)
           rs == [n \in DOMAIN rows[f] |-> Written(rows[f][n], r.rows[n], Outcome(r, n))]
<1>1. r.op = "apply" /\ Ends(c)
  BY DEF Apply
<1>2. /\ f \in File /\ batch[f].state # "none" /\ RowsOf(f, r.rows) /\ IsBatch(f, r.read)
      /\ r.read.state = "previewed"
  BY <1>1, UnderWay DEF Typed, Holds
<1>3. IsBatch(f, batch[f]) /\ RowsOf(f, rows[f]) /\ copies[f] > 0
  BY <1>2 DEF Typed, Batched
<1>4. IsBatch(f, b) /\ b.state # "none"
  <2>1. Cardinality(Chosen(r)) \in 0 .. Len(Lines[f])
    BY <1>2, ChosenFacts
  <2>2. IsBatch(f, changed)
    BY <1>2, <2>1 DEF IsBatch
  <2>3. changed.state = "applied"
    BY <1>2 DEF IsBatch
  <2>4. \A x \in DOMAIN batch[f] : b[x] = IF changed[x] = r.read[x] THEN batch[f][x] ELSE changed[x]
    BY DEF Written
  <2>5. DOMAIN b = DOMAIN batch[f]
    BY DEF Written
  <2> HIDE DEF b, changed
  <2>6. b.state = "applied"
    BY <1>2, <1>3, <2>3, <2>4 DEF IsBatch
  <2>7. b.mapped \in BOOLEAN /\ b.imported \in 0 .. Len(Lines[f])
    BY <1>3, <2>2, <2>4 DEF IsBatch
  <2> QED BY <1>3, <2>5, <2>6, <2>7 DEF IsBatch
<1>5. RowsOf(f, rs)
  <2>1. \A row, v : IsRow(row) => IsRow([row EXCEPT !.status = "imported", !.made = v])
                                  /\ IsRow([row EXCEPT !.status = "excluded"])
    BY DEF IsRow, RowColumns, RowStatus
  <2>2. \A n \in DOMAIN rows[f] : IsRow(Outcome(r, n))
    BY <1>2, <1>3, <2>1 DEF RowsOf, Outcome
  <2>3. \A n \in DOMAIN rows[f] : IsRow(rs[n])
    BY <1>3, <2>2, WrittenRow DEF RowsOf
  <2> QED BY <1>3, <2>3 DEF RowsOf
<1>6. batch' = [batch EXCEPT ![f] = b] /\ rows' = [rows EXCEPT ![f] = rs]
  BY DEF Apply
<1>7. IsTable(ledger') /\ IsTable(events')
  <2>1. \E x, y : x = request[c] /\ y = x.file
    OBVIOUS
  <2> QED BY <2>1, AppliedTables DEF Applied
<1>8. UNCHANGED <<copies, open, profiles>>
  BY DEF Apply
<1> HIDE DEF r, f, b, rs, changed
<1> QED BY <1>1, <1>2, <1>3, <1>4, <1>5, <1>6, <1>7, <1>8, WritesTyped DEF Typed

LEMMA RefusedTyped ==
  ASSUME Typed, NEW c \in Clients, Refused(c)
  PROVE  Typed'
<1>1. UNCHANGED <<batch, rows, copies, ledger, events, open, profiles, workload>> /\ Ends(c)
  BY DEF Refused, records, Ends
<1>2. /\ DOMAIN request' = Clients /\ request'[c] = Idle
      /\ \A q \in Clients \ {c} : request'[q] = request[q]
  BY <1>1 DEF Typed, Ends
<1>3. \A q \in Clients : Holds(q)'
  BY <1>1, <1>2, OthersHold, IdleHolds
<1>4. \A f \in File : Batched(f)'
  BY <1>1 DEF Typed, Batched, IsBatch, RowsOf, IsRow
<1> QED BY <1>1, <1>2, <1>3, <1>4 DEF Typed

Reading(c) ==
  \E f \in File :
    \/ BeginPreview(c, f)
    \/ \E m \in Mapping, save \in Saved : BeginMap(c, f, m, save)
    \/ \E n \in DOMAIN rows[f], b \in BOOLEAN : BeginSelect(c, f, n, b)
    \/ \E s \in {None} \cup SUBSET DOMAIN rows[f] : BeginApply(c, f, s)

LEMMA ReadsOnly ==
  ASSUME NEW c, Reading(c)
  PROVE  UNCHANGED <<batch, rows, ledger, events, open, profiles, workload>>
BY DEF Reading, BeginPreview, BeginMap, BeginSelect, BeginApply, records

LEMMA TypedStep == Typed /\ [ImportsNext]_importVars => Typed'
<1> SUFFICES ASSUME Typed, [ImportsNext]_importVars PROVE Typed'
  OBVIOUS
<1>1. CASE UNCHANGED importVars
  <2>1. UNCHANGED <<batch, rows, copies, ledger, events, open, profiles, request, workload>>
    BY <1>1 DEF importVars, records
  <2>2. \A f \in File : Batched(f)'
    BY <2>1 DEF Typed, Batched, IsBatch, RowsOf, IsRow
  <2>3. \A c \in Clients : Holds(c)'
    BY <2>1 DEF Typed, Holds, IsBatch, RowsOf, IsRow
  <2> QED BY <2>1, <2>2, <2>3 DEF Typed
<1>2. CASE ByHand
  BY <1>2, HandTyped
<1>3. ASSUME NEW c \in Clients, Reading(c) PROVE Typed'
  <2>1. PICK f \in File :
          \/ BeginPreview(c, f)
          \/ \E m \in Mapping, save \in Saved : BeginMap(c, f, m, save)
          \/ \E n \in DOMAIN rows[f], b \in BOOLEAN : BeginSelect(c, f, n, b)
          \/ \E s \in {None} \cup SUBSET DOMAIN rows[f] : BeginApply(c, f, s)
    BY <1>3 DEF Reading
  <2>2. CASE BeginPreview(c, f)
    BY <2>2, BeginPreviewTyped
  <2>3. ASSUME NEW m \in Mapping, NEW save \in Saved, BeginMap(c, f, m, save) PROVE Typed'
    BY <2>3, BeginMapTyped
  <2>4. ASSUME NEW n \in DOMAIN rows[f], NEW b \in BOOLEAN, BeginSelect(c, f, n, b) PROVE Typed'
    BY <2>4, BeginSelectTyped
  <2>5. ASSUME NEW s, BeginApply(c, f, s) PROVE Typed'
    BY <2>5, BeginApplyTyped
  <2> QED BY <2>1, <2>2, <2>3, <2>4, <2>5
<1>4. ASSUME NEW c \in Clients, Preview(c) \/ Map(c) \/ Select(c) \/ Apply(c) \/ Refused(c)
      PROVE  Typed'
  BY <1>4, PreviewTyped, MapTyped, SelectTyped, ApplyTyped, RefusedTyped
<1> QED BY <1>1, <1>2, <1>3, <1>4 DEF ImportsNext, ImportRequest, Reading

-----------------------------------------------------------------------------
(* Keys.                                                                   *)

KeysOnce ==
  /\ \A i, j \in DOMAIN ledger :
       i # j => ledger[i].key = None \/ ledger[i].key # ledger[j].key
  /\ \A i, j \in LiveIn(events) : i # j => events[i].key # events[j].key

LEMMA KeysApply ==
  ASSUME Typed, KeysOnce, NEW c \in Clients, Apply(c), NEW r, r = request[c], NEW f, f = r.file
  PROVE  KeysOnce'
<1> DEFINE T == TableOf(f)
           U == TableOf(f)'
<1>1. GoesThrough(r)
  BY DEF Apply
<1>2. /\ Grown(ledger, ledger') /\ Grown(events, events')
      /\ f \in Csv => events' = events
      /\ f \notin Csv => ledger' = ledger
      /\ \A i \in DOMAIN U : i \in DOMAIN T \/ \E n \in NewOnes(r) : i = Target(r, n)
      /\ \A n \in NewOnes(r) :
           U[Target(r, n)] = Record(r.rows[n].item, <<f, n>>)
  <2>1. Applied(r, f)
    BY AppliedTables
  <2> QED BY <2>1 DEF Applied
<1>3. ASSUME NEW n \in NewOnes(r) PROVE U[Target(r, n)].key = r.rows[n].item.key
  <2>1. Record(r.rows[n].item, <<f, n>>).key = r.rows[n].item.key
    BY RecordType
  <2> HIDE DEF U
  <2> QED BY <1>2, <2>1
<1>4. ASSUME NEW n \in NewOnes(r), NEW m \in NewOnes(r), n # m
      PROVE  r.rows[n].item.key # r.rows[m].item.key
  BY <1>1, <1>4 DEF GoesThrough, Stale, SharesKey, NewOnes
<1>5. \A i \in DOMAIN T : i \in DOMAIN U /\ U[i].key = T[i].key /\ (U[i].live => T[i].live)
  BY <1>2 DEF Grown, TableOf
<1>6. CASE f \in Csv
  <2>1. \A n \in NewOnes(r), i \in DOMAIN ledger : ledger[i].key # r.rows[n].item.key
    BY <1>1, <1>6 DEF GoesThrough, Stale, NewOnes
  <2>2. T = ledger /\ U = ledger'
    BY <1>6 DEF TableOf
  <2> HIDE DEF T, U
  <2>3. ASSUME NEW i \in DOMAIN U, NEW j \in DOMAIN U, i # j
        PROVE  U[i].key = None \/ U[i].key # U[j].key
    <3>1. CASE i \in DOMAIN T /\ j \in DOMAIN T
      BY <1>5, <2>2, <2>3, <3>1 DEF KeysOnce
    <3>2. CASE i \in DOMAIN T /\ j \notin DOMAIN T
      BY <1>2, <1>3, <1>5, <2>1, <2>2, <3>2
    <3>3. CASE i \notin DOMAIN T /\ j \in DOMAIN T
      BY <1>2, <1>3, <1>5, <2>1, <2>2, <3>3
    <3>4. CASE i \notin DOMAIN T /\ j \notin DOMAIN T
      BY <1>2, <1>3, <1>4, <2>3, <3>4
    <3> QED BY <3>1, <3>2, <3>3, <3>4
  <2>4. LiveIn(events)' = LiveIn(events) /\ events' = events
    BY <1>2, <1>6 DEF LiveIn
  <2> QED BY <2>2, <2>3, <2>4 DEF KeysOnce
<1>7. CASE f \notin Csv
  <2>1. \A n \in NewOnes(r) : ExistingEvent(r.rows[n].item.key) = {}
    <3> SUFFICES ASSUME NEW n \in NewOnes(r) PROVE ExistingEvent(r.rows[n].item.key) = {}
      OBVIOUS
    <3>1. n \in Chosen(r) /\ r.rows[n].status # "changed" /\ Eligible(f, r.rows[n])
      BY DEF NewOnes, Chosen
    <3>2. r.rows[n].status = "new"
      BY <1>7, <3>1 DEF Eligible
    <3> QED BY <1>1, <1>7, <3>1, <3>2 DEF GoesThrough, Stale
  <2>2. T = events /\ U = events'
    BY <1>7 DEF TableOf
  <2>3. \A n \in NewOnes(r), i \in LiveIn(events) : events[i].key # r.rows[n].item.key
    BY <2>1 DEF ExistingEvent
  <2> HIDE DEF T, U
  <2>4. ASSUME NEW i \in DOMAIN U, NEW j \in DOMAIN U, i # j, U[i].live, U[j].live
        PROVE  U[i].key # U[j].key
    <3>1. CASE i \in DOMAIN T /\ j \in DOMAIN T
      BY <1>5, <2>2, <2>4, <3>1 DEF KeysOnce, LiveIn
    <3>2. CASE i \in DOMAIN T /\ j \notin DOMAIN T
      <4>1. i \in LiveIn(events)
        BY <1>5, <2>2, <2>4, <3>2 DEF LiveIn
      <4> QED BY <1>2, <1>3, <1>5, <2>2, <2>3, <3>2, <4>1
    <3>3. CASE i \notin DOMAIN T /\ j \in DOMAIN T
      <4>1. j \in LiveIn(events)
        BY <1>5, <2>2, <2>4, <3>3 DEF LiveIn
      <4> QED BY <1>2, <1>3, <1>5, <2>2, <2>3, <3>3, <4>1
    <3>4. CASE i \notin DOMAIN T /\ j \notin DOMAIN T
      BY <1>2, <1>3, <1>4, <2>4, <3>4
    <3> QED BY <3>1, <3>2, <3>3, <3>4
  <2>5. ledger' = ledger
    BY <1>2, <1>7
  <2> QED BY <2>2, <2>4, <2>5 DEF KeysOnce, LiveIn
<1> QED BY <1>6, <1>7

LEMMA KeysStep == Typed /\ KeysOnce /\ [ImportsNext]_importVars => KeysOnce'
<1> SUFFICES ASSUME Typed, KeysOnce, [ImportsNext]_importVars PROVE KeysOnce'
  OBVIOUS
<1>1. CASE UNCHANGED <<ledger, events>>
  BY <1>1 DEF KeysOnce, LiveIn
<1>2. CASE ByHand
  <2>1. Hand
    BY <1>2, HandWrites DEF Typed
  <2>2. \A i, j \in DOMAIN ledger' :
          i # j => ledger'[i].key = None \/ ledger'[i].key # ledger'[j].key
    <3> SUFFICES ASSUME NEW i \in DOMAIN ledger', NEW j \in DOMAIN ledger', i # j,
                        ledger'[i].key # None
                 PROVE  ledger'[i].key # ledger'[j].key
      OBVIOUS
    <3>1. i \in DOMAIN ledger /\ ledger[i].key = ledger'[i].key
      BY <2>1 DEF Hand, Grown
    <3>2. j \in DOMAIN ledger => ledger[j].key = ledger'[j].key
      BY <2>1 DEF Hand, Grown
    <3>3. j \notin DOMAIN ledger => ledger'[j].key = None
      BY <2>1 DEF Hand
    <3> QED BY <3>1, <3>2, <3>3 DEF KeysOnce
  <2>3. \A i \in LiveIn(events)' : i \in LiveIn(events) /\ events'[i].key = events[i].key
    BY <2>1 DEF Hand, Grown, LiveIn
  <2> QED BY <2>2, <2>3 DEF KeysOnce
<1>3. ASSUME NEW c \in Clients, Reading(c) PROVE KeysOnce'
  BY <1>1, <1>3, ReadsOnly
<1>4. ASSUME NEW c \in Clients, Preview(c) \/ Map(c) \/ Select(c) \/ Refused(c) PROVE KeysOnce'
  BY <1>1, <1>4 DEF Preview, Map, Select, Refused, records
<1>5. ASSUME NEW c \in Clients, Apply(c) PROVE KeysOnce'
  <2>1. \E r, f : r = request[c] /\ f = r.file
    OBVIOUS
  <2> QED BY <1>5, <2>1, KeysApply
<1>6. CASE UNCHANGED importVars
  BY <1>1, <1>6 DEF importVars, records
<1> QED BY <1>2, <1>3, <1>4, <1>5, <1>6 DEF ImportsNext, ImportRequest, Reading

(***************************************************************************)
(* One client at a time.                                                   *)
(***************************************************************************)
\* A row that nothing has been made of.
Fresh(row) ==
  /\ row.status \notin {"imported", "excluded"} /\ row.made = None
  /\ row.included => row.status # "invalid" /\ row.duplicate # "exact"

\* What the only request knows is what the tables hold.
Knows(c) ==
  LET r == request[c]
      f == r.file
  IN /\ r.op = "preview" => \A n \in DOMAIN r.rows : Fresh(r.rows[n])
     /\ r.op \in {"map", "select", "apply"} => Pending(f)
     /\ r.op = "map" => r.rows = rows[f] /\ Fresh(r.first)
     /\ r.op = "select" => /\ r.read = rows[f][r.row]
                           /\ r.read.status # "invalid" /\ r.read.duplicate # "exact"
     /\ r.op = "apply" => r.rows = rows[f] /\ r.read = batch[f]

Imported(f) == {n \in DOMAIN rows[f] : rows[f][n].status = "imported"}

Accounted(f) ==
  /\ \A n \in DOMAIN rows[f] : RowAccounted(f, n)
  /\ \A n \in Imported(f) : rows[f][n].made \in DOMAIN TableOf(f)
  /\ batch[f].imported = Cardinality(Imported(f))

\* Each imported entry of a table has a row that says so.
Traced(table, files) ==
  \A i \in DOMAIN table : table[i].from # None =>
    \E g \in files : \E n \in DOMAIN rows[g] :
      table[i].from = <<g, n>> /\ rows[g][n].made = i

StoredOnce(f) ==
  /\ copies[f] <= 1
  /\ copies[f] = 1 /\ batch[f].state = "none" =>
       \E c \in Clients : request[c].op = "preview" /\ request[c].file = f

SoloBody ==
  /\ \A c \in Clients : Knows(c)
  /\ \A f \in File : Accounted(f) /\ StoredOnce(f)
  /\ Traced(ledger, Csv) /\ Traced(events, File \ Csv)

SoloInv == Alone => SoloBody

LEMMA FreshRows ==
  ASSUME NEW item, NEW account
  PROVE  Fresh(MappedRow(item, account)) /\ Fresh(CalendarRow(item))
<1>2. Fresh(MappedRow(item, account))
  <2>1. \A d : Fresh(Row("duplicate", FALSE, item, d))
    BY DEF Fresh, Row
  <2>2. Fresh(Row("new", TRUE, item, None)) /\ Fresh(Invalid)
    BY NoneAssumption DEF Fresh, Row, Invalid
  <2> QED BY <2>1, <2>2 DEF MappedRow
<1>3. Fresh(CalendarRow(item))
  <2>1. Fresh(Row("new", TRUE, item, None)) /\ Fresh(Invalid)
    BY NoneAssumption DEF Fresh, Row, Invalid
  <2>2. \A i : Fresh([Row("duplicate", FALSE, item, "exact") EXCEPT !.existing = i])
    BY DEF Fresh, Row
  <2>3. \A i, e : Fresh([Row("changed", TRUE, item, None) EXCEPT !.existing = i, !.expected = e])
    BY NoneAssumption DEF Fresh, Row
  <2> QED BY <2>1, <2>2, <2>3 DEF CalendarRow
<1> QED BY <1>2, <1>3

LEMMA Sole ==
  ASSUME Typed, Alone, NEW c \in workload.clients
  PROVE  workload.clients = {c} /\ \A q \in Clients \ {c} : request[q] = Idle
<1>1. IsFiniteSet(workload.clients)
  BY WorkloadAssumption DEF Typed
<1>2. \E x : workload.clients = {x}
  BY <1>1, FS_Singleton DEF Alone
<1>3. workload.clients = {c}
  BY <1>2
<1>4. \A q \in Clients \ {c} : request[q] = Idle
  BY <1>3 DEF Typed, Holds
<1> QED BY <1>3, <1>4

\* Before the application no row has been imported.
LEMMA PendingFresh ==
  ASSUME Typed, SoloBody, NEW f \in File, Pending(f)
  PROVE  /\ \A n \in DOMAIN rows[f] : Fresh(rows[f][n])
         /\ Imported(f) = {} /\ batch[f].imported = 0
<1>1. \A n \in DOMAIN rows[f] : RowAccounted(f, n)
  BY DEF SoloBody, Accounted
<1>2. batch[f].state = "previewed"
  BY DEF Pending
<1>3. \A n \in DOMAIN rows[f] : Fresh(rows[f][n])
  BY <1>1, <1>2 DEF RowAccounted, Fresh
<1>4. Imported(f) = {}
  BY <1>3 DEF Imported, Fresh
<1>5. batch[f].imported = 0
  BY <1>4, FS_EmptySet DEF SoloBody, Accounted
<1> QED BY <1>3, <1>4, <1>5

\* A file whose rows are all fresh is accounted for.
LEMMA FreshAccounted ==
  ASSUME NEW f, batch'[f].state = "previewed", batch'[f].imported = 0,
         \A n \in DOMAIN rows'[f] : Fresh(rows'[f][n])
  PROVE  Accounted(f)'
<1>1. Imported(f)' = {}
  BY DEF Imported, Fresh
<1>2. Cardinality(Imported(f)') = 0
  BY <1>1, FS_EmptySet
<1>3. \A n \in DOMAIN rows'[f] : RowAccounted(f, n)'
  BY DEF RowAccounted, Fresh
<1> QED BY <1>1, <1>2, <1>3 DEF Accounted

\* A file that a step leaves alone stays accounted for while tables grow.
LEMMA StaysAccounted ==
  ASSUME NEW f, Accounted(f), rows'[f] = rows[f], batch'[f] = batch[f],
         Grown(ledger, ledger'), Grown(events, events')
  PROVE  Accounted(f)'
<1>1. Imported(f)' = Imported(f)
  BY DEF Imported
<1>2. \A i \in DOMAIN TableOf(f) : i \in DOMAIN TableOf(f)' /\ TableOf(f)'[i].key = TableOf(f)[i].key
  BY DEF TableOf, Grown
<1>3. ASSUME NEW n \in DOMAIN rows[f] PROVE RowAccounted(f, n)'
  <2>1. RowAccounted(f, n)
    BY DEF Accounted
  <2>2. rows[f][n].status = "imported" => MadeOf(f, rows[f][n])'.key = MadeOf(f, rows[f][n]).key
    <3> SUFFICES ASSUME rows[f][n].status = "imported"
                 PROVE  MadeOf(f, rows[f][n])'.key = MadeOf(f, rows[f][n]).key
      OBVIOUS
    <3>1. rows[f][n].made \in DOMAIN TableOf(f)
      BY DEF Accounted, Imported
    <3> QED BY <1>2, <3>1 DEF MadeOf, TableOf
  <2> QED BY <2>1, <2>2 DEF RowAccounted, Eligible, MadeOf
<1>4. \A n \in Imported(f)' : rows'[f][n].made \in DOMAIN TableOf(f)'
  BY <1>1, <1>2 DEF Accounted
<1> QED BY <1>1, <1>3, <1>4 DEF Accounted

TracedThen(later, files) ==
  \A i \in DOMAIN later : later[i].from # None =>
    \E g \in files : \E n \in DOMAIN rows'[g] :
      later[i].from = <<g, n>> /\ rows'[g][n].made = i

LEMMA StaysTraced ==
  ASSUME NEW table, NEW files, Traced(table, files),
         \A g \in files : \A n \in DOMAIN rows[g] :
           n \in DOMAIN rows'[g] /\ rows'[g][n].made = rows[g][n].made,
         NEW later, Grown(table, later),
         \A i \in DOMAIN later \ DOMAIN table : later[i].from = None
  PROVE  TracedThen(later, files)
BY DEF Traced, TracedThen, Grown

LEMMA SoloInit == ImportsInit => SoloBody
<1> SUFFICES ASSUME ImportsInit PROVE SoloBody
  OBVIOUS
<1>1. \A c \in Clients : Knows(c)
  BY DEF ImportsInit, Knows, Idle
<1>2. ASSUME NEW f \in File PROVE Accounted(f) /\ StoredOnce(f)
  <2>1. batch[f] = NoBatch /\ rows[f] = <<>> /\ copies[f] = 0
    BY DEF ImportsInit
  <2>2. Imported(f) = {}
    BY <2>1 DEF Imported
  <2>3. Cardinality(Imported(f)) = 0
    BY <2>2, FS_EmptySet
  <2> QED BY <2>1, <2>2, <2>3 DEF Accounted, StoredOnce, NoBatch
<1>3. Traced(ledger, Csv) /\ Traced(events, File \ Csv)
  BY DEF ImportsInit, Traced
<1> QED BY <1>1, <1>2, <1>3 DEF SoloBody

LEMMA KnowsStays ==
  ASSUME NEW c, Knows(c), UNCHANGED <<batch, rows, request>>
  PROVE  Knows(c)'
BY DEF Knows, Pending, Fresh

LEMMA SoloHand ==
  ASSUME Typed, SoloBody, ByHand
  PROVE  SoloBody'
<1>1. Hand /\ copies' = copies
  BY HandWrites DEF Typed, Hand
<1>2. \A c \in Clients : Knows(c)'
  BY <1>1, KnowsStays DEF Hand, SoloBody
<1>3. \A f \in File : Accounted(f)' /\ StoredOnce(f)'
  <2>1. \A f \in File : Accounted(f)'
    BY <1>1, StaysAccounted DEF Hand, SoloBody
  <2>2. \A f \in File : StoredOnce(f)'
    BY <1>1 DEF Hand, SoloBody, StoredOnce
  <2> QED BY <2>1, <2>2
<1>4. Traced(ledger, Csv)'
  <2>1. TracedThen(ledger', Csv)
    BY <1>1, StaysTraced DEF SoloBody, Hand
  <2> QED BY <2>1 DEF Traced, TracedThen
<1>5. Traced(events, File \ Csv)'
  <2>1. TracedThen(events', File \ Csv)
    BY <1>1, StaysTraced DEF SoloBody, Hand
  <2> QED BY <2>1 DEF Traced, TracedThen
<1> QED BY <1>2, <1>3, <1>4, <1>5 DEF SoloBody

\* The only request reads.
LEMMA SoloReads ==
  ASSUME Typed, SoloBody, Alone, NEW c \in Clients, NEW read, Reads(c, read),
         UNCHANGED <<batch, rows, ledger, events>>, Knows(c)',
         \A f \in File : \/ copies'[f] = copies[f]
                         \/ /\ copies'[f] = copies[f] + 1
                            /\ read.op = "preview" /\ read.file = f /\ batch[f].state = "none"
  PROVE  SoloBody'
<1>1. c \in workload.clients /\ request[c] = Idle /\ request' = [request EXCEPT ![c] = read]
  BY DEF Reads
<1>2. \A q \in Clients \ {c} : request[q] = Idle
  BY <1>1, Sole
<1>3. \A q \in Clients : request[q].op = "idle"
  BY <1>1, <1>2 DEF Idle
<1>4. ASSUME NEW q \in Clients \ {c} PROVE Knows(q)'
  <2>1. request'[q].op = "idle"
    BY <1>1, <1>3 DEF Typed
  <2> QED BY <2>1 DEF Knows
<1>5. \A f \in File : Accounted(f)'
  BY StaysAccounted, StillGrown DEF SoloBody, Typed
<1>6. ASSUME NEW f \in File PROVE StoredOnce(f)'
  <2>1. /\ copies[f] \in Nat /\ copies[f] <= 1
        /\ copies[f] = 1 => batch[f].state # "none"
    BY <1>3 DEF SoloBody, StoredOnce, Typed, Batched
  <2>2. request'[c] = read
    BY <1>1 DEF Typed
  <2> QED BY <2>1, <2>2 DEF StoredOnce
<1>7. Traced(ledger, Csv)' /\ Traced(events, File \ Csv)'
  BY DEF SoloBody, Traced
<1> QED BY <1>4, <1>5, <1>6, <1>7 DEF SoloBody

\* The only request ends, and has written its file or nothing.
LEMMA SoloEnds ==
  ASSUME Typed, SoloBody, Alone, NEW c \in Clients, Ends(c),
         NEW f \in File, f = request[c].file, c \in workload.clients,
         \A g \in File \ {f} : batch'[g] = batch[g] /\ rows'[g] = rows[g],
         batch'[f].state # "none", copies' = copies,
         Grown(ledger, ledger'), Grown(events, events'), Accounted(f)',
         Traced(ledger, Csv)', Traced(events, File \ Csv)'
  PROVE  SoloBody'
<1>1. \A q \in Clients \ {c} : request[q] = Idle
  BY Sole
<1>2. \A q \in Clients : request'[q] = Idle
  BY <1>1 DEF Ends, Typed
<1>3. \A q \in Clients : Knows(q)'
  BY <1>2 DEF Knows, Idle
<1>4. \A g \in File : Accounted(g)'
  BY StaysAccounted DEF SoloBody
<1>5. ASSUME NEW g \in File PROVE StoredOnce(g)'
  <2>1. CASE g = f
    BY <2>1 DEF SoloBody, StoredOnce
  <2>2. CASE g # f
    <3>1. batch'[g] = batch[g] /\ copies'[g] = copies[g]
      BY <2>2
    <3>2. \A q \in Clients : ~(request[q].op = "preview" /\ request[q].file = g)
      BY <1>1, <2>2 DEF Idle
    <3> QED BY <3>1, <3>2 DEF SoloBody, StoredOnce
  <2> QED BY <2>1, <2>2
<1> QED BY <1>3, <1>4, <1>5 DEF SoloBody

LEMMA SoloReading ==
  ASSUME Typed, SoloBody, Alone, NEW c \in Clients, Reading(c)
  PROVE  SoloBody'
<1>1. UNCHANGED <<batch, rows, ledger, events>>
  BY ReadsOnly
<1>2. PICK f \in File :
        \/ BeginPreview(c, f)
        \/ \E m \in Mapping, save \in Saved : BeginMap(c, f, m, save)
        \/ \E n \in DOMAIN rows[f], b \in BOOLEAN : BeginSelect(c, f, n, b)
        \/ \E s \in {None} \cup SUBSET DOMAIN rows[f] : BeginApply(c, f, s)
  BY DEF Reading
<1>3. CASE BeginPreview(c, f)
  <2> DEFINE read == [op |-> "preview", file |-> f,
                      rows |-> [n \in DOMAIN Lines[f] |->
                                  IF f \in Csv THEN Row("new", TRUE, None, None)
                                  ELSE CalendarRow(NormalizedEvent(f, n))]]
  <2>1. Reads(c, read) /\ copies' = [copies EXCEPT ![f] = @ + 1] /\ FindSource(f) = {}
    BY <1>3 DEF BeginPreview
  <2>2. batch[f].state = "none"
    BY <2>1 DEF FindSource
  <2>3. \A n \in DOMAIN read.rows : Fresh(read.rows[n])
    <3>1. Fresh(Row("new", TRUE, None, None))
      BY NoneAssumption DEF Fresh, Row
    <3> QED BY <3>1, FreshRows
  <2>4. read.op = "preview" /\ read.file = f
    OBVIOUS
  <2> HIDE DEF read
  <2>5. request'[c] = read
    BY <2>1 DEF Reads, Typed
  <2>6. Knows(c)'
    BY <2>3, <2>4, <2>5 DEF Knows, Fresh
  <2>7. \A g \in File : \/ copies'[g] = copies[g]
                        \/ copies'[g] = copies[g] + 1 /\ g = f
    BY <2>1 DEF Typed
  <2> QED BY <1>1, <2>1, <2>2, <2>4, <2>6, <2>7, SoloReads
<1>4. ASSUME NEW m \in Mapping, NEW save \in Saved, BeginMap(c, f, m, save) PROVE SoloBody'
  <2> DEFINE read == [op |-> "map", file |-> f, rows |-> rows[f], mapping |-> m, save |-> save,
                      account |-> open, first |-> MappedRow(Normalized(f, 1, m), open)]
  <2>1. Reads(c, read) /\ Pending(f) /\ copies' = copies
    BY <1>4 DEF BeginMap
  <2>2. read.op = "map" /\ read.file = f /\ read.rows = rows[f] /\ Fresh(read.first)
    BY FreshRows
  <2> HIDE DEF read
  <2>3. request'[c] = read
    BY <2>1 DEF Reads, Typed
  <2>4. Knows(c)'
    BY <1>1, <2>1, <2>2, <2>3 DEF Knows, Fresh, Pending
  <2> QED BY <1>1, <2>1, <2>4, SoloReads
<1>5. ASSUME NEW n \in DOMAIN rows[f], NEW b \in BOOLEAN, BeginSelect(c, f, n, b) PROVE SoloBody'
  <2> DEFINE read == [op |-> "select", file |-> f, row |-> n, read |-> rows[f][n],
                      included |-> b]
  <2>1. /\ Reads(c, read) /\ Pending(f) /\ copies' = copies
        /\ rows[f][n].status # "invalid" /\ rows[f][n].duplicate # "exact"
    BY <1>5 DEF BeginSelect
  <2>2. read.op = "select" /\ read.file = f /\ read.row = n /\ read.read = rows[f][n]
    OBVIOUS
  <2> HIDE DEF read
  <2>3. request'[c] = read
    BY <2>1 DEF Reads, Typed
  <2>4. Knows(c)'
    BY <1>1, <2>1, <2>2, <2>3 DEF Knows, Pending
  <2> QED BY <1>1, <2>1, <2>4, SoloReads
<1>6. ASSUME NEW s, BeginApply(c, f, s) PROVE SoloBody'
  <2> DEFINE read == [op |-> "apply", file |-> f, rows |-> rows[f], selected |-> s,
                      read |-> batch[f]]
  <2>1. Reads(c, read) /\ Pending(f) /\ copies' = copies
    BY <1>6 DEF BeginApply
  <2>2. read.op = "apply" /\ read.file = f /\ read.rows = rows[f] /\ read.read = batch[f]
    OBVIOUS
  <2> HIDE DEF read
  <2>3. request'[c] = read
    BY <2>1 DEF Reads, Typed
  <2>4. Knows(c)'
    BY <1>1, <2>1, <2>2, <2>3 DEF Knows, Pending
  <2> QED BY <1>1, <2>1, <2>4, SoloReads
<1> QED BY <1>2, <1>3, <1>4, <1>5, <1>6

\* When nothing was changed meanwhile, a request writes what it means to write.
LEMMA WrittenAsMeant ==
  ASSUME NEW read, NEW changed
  PROVE  /\ DOMAIN Written(read, read, changed) = DOMAIN read
         /\ \A x \in DOMAIN read : Written(read, read, changed)[x] = changed[x]
BY DEF Written

\* The file of the only request gets fresh rows, and nothing else is written.
LEMMA SoloRows ==
  ASSUME Typed, SoloBody, Alone, NEW c \in Clients, Ends(c),
         NEW f \in File, f = request[c].file, c \in workload.clients,
         NEW rs, rows' = [rows EXCEPT ![f] = rs], \A n \in DOMAIN rs : Fresh(rs[n]),
         \A n \in DOMAIN rows[f] : n \in DOMAIN rs /\ rs[n].made = rows[f][n].made,
         \A g \in File \ {f} : batch'[g] = batch[g],
         batch'[f].state = "previewed", batch'[f].imported = 0,
         UNCHANGED <<ledger, events, copies>>
  PROVE  SoloBody'
<1>1. rows'[f] = rs /\ \A g \in File \ {f} : rows'[g] = rows[g]
  BY DEF Typed
<1>2. Accounted(f)'
  BY <1>1, FreshAccounted
<1>3. Grown(ledger, ledger') /\ Grown(events, events')
  BY StillGrown DEF Typed
<1>4. \A g \in File : \A n \in DOMAIN rows[g] :
        n \in DOMAIN rows'[g] /\ rows'[g][n].made = rows[g][n].made
  BY <1>1
<1>5. Csv \subseteq File
  BY CsvAssumption
<1>6. Traced(ledger, Csv)'
  <2>1. TracedThen(ledger', Csv)
    BY <1>3, <1>4, <1>5, StaysTraced DEF SoloBody
  <2> QED BY <2>1 DEF Traced, TracedThen
<1>7. Traced(events, File \ Csv)'
  <2>1. TracedThen(events', File \ Csv)
    BY <1>3, <1>4, <1>5, StaysTraced DEF SoloBody
  <2> QED BY <2>1 DEF Traced, TracedThen
<1> QED BY <1>1, <1>2, <1>3, <1>6, <1>7, SoloEnds

LEMMA SoloPreview ==
  ASSUME Typed, SoloBody, Alone, NEW c \in Clients, Preview(c),
         NEW f, f = request[c].file, NEW rs, rs = request[c].rows
  PROVE  SoloBody'
<1>1. request[c].op = "preview" /\ batch[f].state = "none" /\ Ends(c)
  BY DEF Preview
<1>2. f \in File /\ c \in workload.clients
  BY <1>1, UnderWay
<1>3. \A n \in DOMAIN rs : Fresh(rs[n])
  BY <1>1 DEF SoloBody, Knows
<1>4. /\ batch' = [batch EXCEPT ![f].state = "previewed"] /\ rows' = [rows EXCEPT ![f] = rs]
      /\ UNCHANGED <<ledger, events, copies>>
  BY DEF Preview, records
<1>5. batch[f] = NoBatch /\ rows[f] = <<>>
  BY <1>1, <1>2 DEF Typed, Batched
<1>6. /\ batch'[f].state = "previewed" /\ batch'[f].imported = 0
      /\ \A g \in File \ {f} : batch'[g] = batch[g]
  BY <1>2, <1>4, <1>5 DEF Typed, NoBatch
<1>7. DOMAIN rows[f] = {}
  BY <1>5
<1> QED BY <1>1, <1>2, <1>3, <1>4, <1>6, <1>7, SoloRows

LEMMA SoloMap ==
  ASSUME Typed, SoloBody, Alone, NEW c \in Clients, Map(c),
         NEW r, r = request[c], NEW f, f = r.file
  PROVE  SoloBody'
<1> DEFINE Mapped(n) == IF n = 1 THEN r.first ELSE MappedRow(Normalized(f, n, r.mapping), r.account)
           changed(n) == [Mapped(n) EXCEPT !.made = r.rows[n].made]
           rs == [n \in DOMAIN rows[f] |-> Written(rows[f][n], r.rows[n], changed(n))]
<1>1. r.op = "map" /\ Ends(c)
  BY DEF Map
<1>2. f \in File /\ c \in workload.clients /\ IsRow(r.first)
  BY <1>1, UnderWay DEF Typed, Holds
<1>3. Pending(f) /\ r.rows = rows[f] /\ Fresh(r.first)
  BY <1>1 DEF SoloBody, Knows
<1>4. /\ \A n \in DOMAIN rows[f] : Fresh(rows[f][n]) /\ IsRow(rows[f][n])
      /\ batch[f].imported = 0 /\ batch[f].state = "previewed"
      /\ DOMAIN batch[f] = {"state", "mapped", "imported", "known"}
  BY <1>2, <1>3, PendingFresh DEF Typed, Batched, Pending, RowsOf, IsBatch
<1>5. ASSUME NEW n \in DOMAIN rs PROVE Fresh(rs[n]) /\ rs[n].made = rows[f][n].made
  <2>1. Fresh(Mapped(n)) /\ IsRow(Mapped(n))
    BY <1>2, <1>3, FreshRows, RowTypes
  <2>2. rows[f][n].made = None /\ DOMAIN rows[f][n] = RowColumns
    BY <1>4 DEF Fresh, IsRow
  <2> HIDE DEF Mapped
  <2>3. /\ changed(n).made = None /\ changed(n).status = Mapped(n).status
        /\ changed(n).included = Mapped(n).included /\ changed(n).duplicate = Mapped(n).duplicate
    BY <1>3, <2>1, <2>2 DEF IsRow, RowColumns
  <2> HIDE DEF changed
  <2>4. rs[n] = Written(rows[f][n], rows[f][n], changed(n))
    BY <1>3
  <2>5. \A x \in RowColumns : rs[n][x] = changed(n)[x]
    BY <2>2, <2>4, WrittenAsMeant
  <2>6. /\ rs[n].made = None /\ rs[n].status = Mapped(n).status
        /\ rs[n].included = Mapped(n).included /\ rs[n].duplicate = Mapped(n).duplicate
    BY <2>3, <2>5 DEF RowColumns
  <2> QED BY <2>1, <2>2, <2>6 DEF Fresh
<1>6. rows' = [rows EXCEPT ![f] = rs]
  BY DEF Map
<1>7. batch' = [batch EXCEPT ![f].mapped = TRUE, ![f].known = Len(ledger)]
  BY DEF Map
<1>8. /\ batch'[f].state = "previewed" /\ batch'[f].imported = 0
      /\ \A g \in File \ {f} : batch'[g] = batch[g]
  BY <1>2, <1>4, <1>7 DEF Typed
<1>9. UNCHANGED <<ledger, events, copies>>
  BY DEF Map, records
<1>10. \A n \in DOMAIN rows[f] : n \in DOMAIN rs
  OBVIOUS
<1> HIDE DEF rs
<1> QED BY <1>1, <1>2, <1>5, <1>6, <1>8, <1>9, <1>10, SoloRows

LEMMA SoloSelect ==
  ASSUME Typed, SoloBody, Alone, NEW c \in Clients, Select(c),
         NEW r, r = request[c], NEW f, f = r.file
  PROVE  SoloBody'
<1> DEFINE changed == [r.read EXCEPT !.included = r.included]
           w == Written(rows[f][r.row], r.read, changed)
           rs == [rows[f] EXCEPT ![r.row] = w]
<1>1. r.op = "select" /\ Ends(c)
  BY DEF Select
<1>2. f \in File /\ c \in workload.clients
  BY <1>1, UnderWay
<1>3. /\ Pending(f) /\ r.read = rows[f][r.row]
      /\ r.read.status # "invalid" /\ r.read.duplicate # "exact"
  BY <1>1 DEF SoloBody, Knows
<1>4. /\ \A n \in DOMAIN rows[f] : Fresh(rows[f][n]) /\ IsRow(rows[f][n])
      /\ batch[f].imported = 0 /\ batch[f].state = "previewed"
      /\ r.row \in DOMAIN rows[f]
  <2>1. r.row \in DOMAIN Lines[f]
    BY <1>1 DEF Typed, Holds
  <2> QED BY <1>2, <1>3, <2>1, PendingFresh DEF Typed, Batched, Pending, RowsOf
<1>5. Fresh(w) /\ w.made = rows[f][r.row].made
  <2>1. DOMAIN r.read = RowColumns /\ Fresh(r.read)
    BY <1>3, <1>4 DEF IsRow
  <2>2. /\ changed.status = r.read.status /\ changed.duplicate = r.read.duplicate
        /\ changed.made = r.read.made
    BY <2>1 DEF RowColumns
  <2>3. w = Written(r.read, r.read, changed)
    BY <1>3
  <2> HIDE DEF changed, w
  <2>4. \A x \in RowColumns : w[x] = changed[x]
    BY <2>1, <2>3, WrittenAsMeant
  <2>5. w.status = r.read.status /\ w.duplicate = r.read.duplicate /\ w.made = r.read.made
    BY <2>2, <2>4 DEF RowColumns
  <2> QED BY <1>3, <2>1, <2>5 DEF Fresh
<1>6. rows' = [rows EXCEPT ![f] = rs]
  BY DEF Select
<1>7. UNCHANGED <<batch, ledger, events, copies>>
  BY DEF Select, records
<1> HIDE DEF w
<1>8. \A n \in DOMAIN rs : Fresh(rs[n]) /\ n \in DOMAIN rows[f] /\ rs[n].made = rows[f][n].made
  BY <1>4, <1>5
<1>9. DOMAIN rs = DOMAIN rows[f]
  OBVIOUS
<1> HIDE DEF rs
<1>10. /\ \A n \in DOMAIN rs : Fresh(rs[n])
       /\ \A n \in DOMAIN rows[f] : n \in DOMAIN rs /\ rs[n].made = rows[f][n].made
  BY <1>8, <1>9
<1>11. /\ batch'[f].state = "previewed" /\ batch'[f].imported = 0
       /\ \A g \in File \ {f} : batch'[g] = batch[g]
  BY <1>4, <1>7
<1>12. UNCHANGED <<ledger, events, copies>>
  BY <1>7
<1> QED BY <1>1, <1>2, <1>6, <1>10, <1>11, <1>12, SoloRows

\* The record of a chosen row is in the table after the application, and has
\* its key.
LEMMA TargetFound ==
  ASSUME Typed, NEW r, NEW f \in File, f = r.file, Applied(r, f), GoesThrough(r),
         NEW n \in Chosen(r)
  PROVE  /\ Target(r, n) \in Nat /\ Target(r, n) \in DOMAIN TableOf(f)'
         /\ TableOf(f)'[Target(r, n)].key = r.rows[n].item.key
<1> DEFINE i == Target(r, n)
<1>1. CASE n \in NewOnes(r)
  <2>1. /\ i \in Nat /\ i \in DOMAIN TableOf(f)'
        /\ TableOf(f)'[i] = Record(r.rows[n].item, <<f, n>>)
    BY <1>1 DEF Applied
  <2>2. Record(r.rows[n].item, <<f, n>>).key = r.rows[n].item.key
    BY RecordType
  <2> QED BY <2>1, <2>2, Zenon DEF i
<1>2. CASE n \notin NewOnes(r)
  <2>1. r.rows[n].status = "changed" /\ Eligible(f, r.rows[n])
    BY <1>2 DEF NewOnes, Chosen
  <2>2. f \notin Csv
    BY <2>1 DEF Eligible
  <2>3. ExistingEvent(r.rows[n].item.key) # {}
    BY <2>1, <2>2 DEF GoesThrough, Stale
  <2>4. i \in ExistingEvent(r.rows[n].item.key)
    BY <1>2, <2>3 DEF Target
  <2> HIDE DEF i
  <2>5. i \in DOMAIN events /\ events[i].key = r.rows[n].item.key
    BY <2>4 DEF ExistingEvent, LiveIn
  <2>6. i \in DOMAIN events' /\ events'[i].key = events[i].key
    BY <2>5 DEF Applied, Grown
  <2>7. i \in Nat
    <3>1. DOMAIN events = 1 .. Len(events) /\ Len(events) \in Nat
      BY SeqFacts DEF Typed, IsTable
    <3> QED BY <2>5, <3>1
  <2>8. TableOf(f)' = events'
    BY <2>2 DEF TableOf
  <2> QED BY <2>5, <2>6, <2>7, <2>8 DEF i
<1> QED BY <1>1, <1>2

LEMMA SoloApply ==
  ASSUME Typed, SoloBody, Alone, NEW c \in Clients, Apply(c),
         NEW r, r = request[c], NEW f, f = r.file
  PROVE  SoloBody'
<1>1. r.op = "apply" /\ Ends(c) /\ GoesThrough(r)
  BY DEF Apply
<1>2. f \in File /\ c \in workload.clients /\ RowsOf(f, r.rows)
  BY <1>1, UnderWay DEF Typed, Holds
<1>3. Pending(f) /\ r.rows = rows[f] /\ r.read = batch[f]
  BY <1>1 DEF SoloBody, Knows
<1>4. /\ \A n \in DOMAIN rows[f] : Fresh(rows[f][n]) /\ DOMAIN rows[f][n] = RowColumns
      /\ batch[f].state = "previewed"
      /\ DOMAIN batch[f] = {"state", "mapped", "imported", "known"}
  BY <1>2, <1>3, PendingFresh DEF Typed, Batched, Pending, RowsOf, IsRow, IsBatch
<1>5. Applied(r, f)
  BY AppliedTables
<1>6. Chosen(r) \subseteq DOMAIN rows[f]
  BY <1>3 DEF Chosen
\* The rows.
<1>7. /\ DOMAIN rows'[f] = DOMAIN rows[f]
      /\ \A g \in File \ {f} : rows'[g] = rows[g]
      /\ \A n \in DOMAIN rows[f] : \A x \in RowColumns : rows'[f][n][x] = Outcome(r, n)[x]
  <2> DEFINE rs == [n \in DOMAIN rows[f] |-> Written(rows[f][n], r.rows[n], Outcome(r, n))]
  <2>1. rows' = [rows EXCEPT ![f] = rs]
    BY DEF Apply
  <2>2. rows'[f] = rs /\ \A g \in File \ {f} : rows'[g] = rows[g]
    BY <1>2, <2>1 DEF Typed
  <2>3. \A n \in DOMAIN rows[f] : rs[n] = Written(rows[f][n], rows[f][n], Outcome(r, n))
    BY <1>3
  <2>4. DOMAIN rs = DOMAIN rows[f]
    OBVIOUS
  <2> HIDE DEF rs
  <2> QED BY <1>4, <2>2, <2>3, <2>4, WrittenAsMeant
<1>8. ASSUME NEW n \in DOMAIN rows[f]
      PROVE  /\ n \in Chosen(r) => /\ rows'[f][n].status = "imported"
                                   /\ rows'[f][n].made = Target(r, n)
             /\ n \notin Chosen(r) =>
                  /\ rows'[f][n].made = None
                  /\ \/ rows'[f][n].status = "excluded"
                     \/ rows'[f][n].status = rows[f][n].status /\ ~Eligible(f, rows[f][n])
             /\ rows'[f][n].item = rows[f][n].item
             /\ rows'[f][n].included = rows[f][n].included
             /\ rows'[f][n].duplicate = rows[f][n].duplicate
  <2>1. \A x \in RowColumns : rows'[f][n][x] = Outcome(r, n)[x]
    BY <1>7
  <2>2. /\ rows'[f][n].status = Outcome(r, n).status /\ rows'[f][n].made = Outcome(r, n).made
        /\ rows'[f][n].item = Outcome(r, n).item
        /\ rows'[f][n].included = Outcome(r, n).included
        /\ rows'[f][n].duplicate = Outcome(r, n).duplicate
    BY <2>1 DEF RowColumns
  <2>3. Fresh(rows[f][n]) /\ DOMAIN rows[f][n] = RowColumns /\ r.rows[n] = rows[f][n]
    BY <1>3, <1>4
  <2>4. CASE n \in Chosen(r)
    <3>1. Outcome(r, n) = [rows[f][n] EXCEPT !.status = "imported", !.made = Target(r, n)]
      BY <2>3, <2>4 DEF Outcome
    <3> QED BY <2>2, <2>3, <2>4, <3>1 DEF RowColumns
  <2>5. CASE n \notin Chosen(r) /\ Eligible(f, rows[f][n])
    <3>1. Outcome(r, n) = [rows[f][n] EXCEPT !.status = "excluded"]
      BY <2>3, <2>5 DEF Outcome
    <3> QED BY <2>2, <2>3, <2>5, <3>1 DEF RowColumns, Fresh
  <2>6. CASE n \notin Chosen(r) /\ ~Eligible(f, rows[f][n])
    <3>1. Outcome(r, n) = rows[f][n]
      BY <2>3, <2>6 DEF Outcome
    <3> QED BY <2>2, <2>3, <2>6, <3>1 DEF Fresh
  <2> QED BY <2>4, <2>5, <2>6
<1>9. /\ batch'[f].state = "applied" /\ batch'[f].imported = Cardinality(Chosen(r))
      /\ \A g \in File \ {f} : batch'[g] = batch[g]
  <2> DEFINE changed == [r.read EXCEPT !.state = "applied", !.imported = Cardinality(Chosen(r))]
             b == Written(batch[f], r.read, changed)
  <2>1. batch' = [batch EXCEPT ![f] = b]
    BY DEF Apply
  <2>2. changed.state = "applied" /\ changed.imported = Cardinality(Chosen(r))
    BY <1>3, <1>4
  <2>3. b = Written(batch[f], batch[f], changed)
    BY <1>3
  <2> HIDE DEF b, changed
  <2>4. b.state = changed.state /\ b.imported = changed.imported
    BY <1>4, <2>3, WrittenAsMeant
  <2> QED BY <1>2, <2>1, <2>2, <2>4 DEF Typed
<1>10. \A n \in Chosen(r) : /\ Target(r, n) \in Nat /\ Target(r, n) \in DOMAIN TableOf(f)'
                            /\ TableOf(f)'[Target(r, n)].key = rows[f][n].item.key
  BY <1>1, <1>2, <1>3, <1>5, TargetFound
<1>11. Imported(f)' = Chosen(r)
  <2>1. \A n \in DOMAIN rows[f] : rows'[f][n].status = "imported" <=> n \in Chosen(r)
    BY <1>4, <1>8 DEF Fresh
  <2> QED BY <1>6, <1>7, <2>1 DEF Imported
<1>12. Accounted(f)'
  <2>1. \A n \in Imported(f)' : rows'[f][n].made \in DOMAIN TableOf(f)'
    BY <1>6, <1>8, <1>10, <1>11
  <2>2. ASSUME NEW n \in DOMAIN rows'[f] PROVE RowAccounted(f, n)'
    <3>1. n \in DOMAIN rows[f] /\ Fresh(rows[f][n])
      BY <1>4, <1>7
    <3>2. CASE n \in Chosen(r)
      <4>1. rows'[f][n].status = "imported" /\ rows'[f][n].made = Target(r, n)
        BY <1>8, <3>1, <3>2
      <4>2. rows'[f][n].made # None
        BY <1>10, <3>2, <4>1, NoneAssumption
      <4>3. MadeOf(f, rows[f][n])'.key = rows'[f][n].item.key
        <5>1. TableOf(f)'[rows'[f][n].made].key = rows[f][n].item.key
          BY <1>10, <3>2, <4>1
        <5>2. rows'[f][n].item = rows[f][n].item
          BY <1>8, <3>1
        <5> QED BY <5>1, <5>2 DEF MadeOf, TableOf
      <4>4. rows'[f][n].included = rows[f][n].included /\ rows'[f][n].duplicate = rows[f][n].duplicate
        BY <1>8, <3>1
      <4> QED BY <1>9, <3>1, <4>1, <4>2, <4>3, <4>4 DEF RowAccounted, Eligible, Fresh, MadeOf
    <3>3. CASE n \notin Chosen(r)
      <4>1. /\ rows'[f][n].made = None
            /\ \/ rows'[f][n].status = "excluded"
               \/ rows'[f][n].status = rows[f][n].status /\ ~Eligible(f, rows[f][n])
            /\ rows'[f][n].included = rows[f][n].included
            /\ rows'[f][n].duplicate = rows[f][n].duplicate
        BY <1>8, <3>1, <3>3
      <4>2. rows'[f][n].status # "imported" /\ ~Eligible(f, rows'[f][n])
        BY <3>1, <4>1 DEF Fresh, Eligible
      <4> QED BY <1>9, <3>1, <4>1, <4>2 DEF RowAccounted, Eligible, Fresh
    <3> QED BY <3>2, <3>3
  <2> QED BY <1>9, <1>11, <2>1, <2>2 DEF Accounted
\* The lines entries were made of.
<1>13. Csv \subseteq File
  BY CsvAssumption
<1>14. ASSUME NEW i \in Nat, NEW g \in File, NEW n \in DOMAIN rows[g], rows[g][n].made = i
       PROVE  n \in DOMAIN rows'[g] /\ rows'[g][n].made = i
  <2>1. g # f
    BY <1>4, <1>14, NoneAssumption DEF Fresh
  <2> QED BY <1>7, <1>14, <2>1
<1>15. ASSUME NEW files \in SUBSET File, Traced(TableOf(f), files), f \in files
       PROVE  TracedThen(TableOf(f)', files)
  <2> SUFFICES ASSUME NEW i \in DOMAIN TableOf(f)', TableOf(f)'[i].from # None
               PROVE  \E g \in files : \E n \in DOMAIN rows'[g] :
                        TableOf(f)'[i].from = <<g, n>> /\ rows'[g][n].made = i
    BY DEF TracedThen
  <2>1. CASE i \in DOMAIN TableOf(f)
    <3>1. TableOf(f)'[i].from = TableOf(f)[i].from
      BY <1>5, <2>1 DEF Applied, Grown, TableOf
    <3>2. PICK g \in files : \E n \in DOMAIN rows[g] :
            TableOf(f)[i].from = <<g, n>> /\ rows[g][n].made = i
      BY <1>15, <2>1, <3>1 DEF Traced
    <3>3. PICK n \in DOMAIN rows[g] : TableOf(f)[i].from = <<g, n>> /\ rows[g][n].made = i
      BY <3>2
    <3>4. i \in Nat
      <4>1. IsTable(TableOf(f))
        BY DEF Typed, TableOf
      <4>2. DOMAIN TableOf(f) = 1 .. Len(TableOf(f)) /\ Len(TableOf(f)) \in Nat
        BY <4>1, SeqFacts DEF IsTable
      <4> QED BY <2>1, <4>2
    <3>5. n \in DOMAIN rows'[g] /\ rows'[g][n].made = i
      BY <1>14, <3>3, <3>4
    <3> QED BY <3>1, <3>3, <3>5
  <2>2. CASE i \notin DOMAIN TableOf(f)
    <3>1. PICK n \in NewOnes(r) : i = Target(r, n)
      BY <1>5, <2>2 DEF Applied
    <3>2. n \in Chosen(r) /\ n \in DOMAIN rows[f]
      BY <1>6, <3>1 DEF NewOnes
    <3>3. TableOf(f)'[i] = Record(r.rows[n].item, <<f, n>>)
      BY <1>5, <3>1 DEF Applied
    <3>4. TableOf(f)'[i].from = <<f, n>>
      BY <3>3, RecordType
    <3>5. n \in DOMAIN rows'[f] /\ rows'[f][n].made = i
      BY <1>7, <1>8, <3>1, <3>2
    <3> QED BY <1>15, <3>4, <3>5
  <2> QED BY <2>1, <2>2
<1>16. Traced(ledger, Csv)' /\ Traced(events, File \ Csv)'
  <2>1. CASE f \in Csv
    <3>1. TracedThen(ledger', Csv)
      BY <1>13, <1>15, <2>1 DEF SoloBody, TableOf
    <3>2. events' = events /\ \A g \in File \ Csv : rows'[g] = rows[g]
      BY <1>5, <1>7, <2>1 DEF Applied
    <3> QED BY <3>1, <3>2 DEF SoloBody, Traced, TracedThen
  <2>2. CASE f \notin Csv
    <3>1. TracedThen(events', File \ Csv)
      BY <1>2, <1>15, <2>2 DEF SoloBody, TableOf
    <3>2. ledger' = ledger /\ \A g \in Csv : rows'[g] = rows[g]
      BY <1>5, <1>7, <1>13, <2>2 DEF Applied
    <3> QED BY <3>1, <3>2 DEF SoloBody, Traced, TracedThen
  <2> QED BY <2>1, <2>2
<1>17. copies' = copies /\ Grown(ledger, ledger') /\ Grown(events, events')
  BY <1>5 DEF Apply, Applied
<1> QED BY <1>1, <1>2, <1>7, <1>9, <1>12, <1>16, <1>17, SoloEnds

LEMMA SoloRefused ==
  ASSUME Typed, SoloBody, Alone, NEW c \in Clients, Refused(c), NEW f, f = request[c].file
  PROVE  SoloBody'
<1>1. /\ request[c].op \in {"preview", "map", "apply"} /\ Ends(c)
      /\ request[c].op = "preview" => batch[f].state # "none"
      /\ UNCHANGED <<batch, rows, copies, ledger, events>>
  BY DEF Refused, records
<1>2. f \in File /\ c \in workload.clients /\ batch[f].state # "none"
  BY <1>1, UnderWay DEF Typed, Holds
<1>3. Grown(ledger, ledger') /\ Grown(events, events')
  BY <1>1, StillGrown DEF Typed
<1>4. Accounted(f)'
  BY <1>1, <1>2, <1>3, StaysAccounted DEF SoloBody
<1>5. Traced(ledger, Csv)' /\ Traced(events, File \ Csv)'
  BY <1>1 DEF SoloBody, Traced
<1> QED BY <1>1, <1>2, <1>3, <1>4, <1>5, SoloEnds

LEMMA SoloStep == Typed /\ SoloInv /\ [ImportsNext]_importVars => SoloInv'
<1> SUFFICES ASSUME Typed, SoloInv, [ImportsNext]_importVars PROVE SoloInv'
  OBVIOUS
<1>1. CASE UNCHANGED importVars
  <2>1. UNCHANGED <<batch, rows, copies, ledger, events, open, profiles, request, workload>>
    BY <1>1 DEF importVars, records
  <2>2. SUFFICES ASSUME SoloBody PROVE SoloBody'
    BY <2>1 DEF SoloInv, Alone
  <2>3. \A c \in Clients : Knows(c)'
    BY <2>1, <2>2, KnowsStays DEF SoloBody
  <2>4. Grown(ledger, ledger') /\ Grown(events, events')
    BY <2>1, StillGrown DEF Typed
  <2>5. \A f \in File : Accounted(f)'
    BY <2>1, <2>2, <2>4, StaysAccounted DEF SoloBody
  <2>6. (\A f \in File : StoredOnce(f)') /\ Traced(ledger, Csv)' /\ Traced(events, File \ Csv)'
    BY <2>1, <2>2 DEF SoloBody, StoredOnce, Traced
  <2> QED BY <2>3, <2>5, <2>6 DEF SoloBody
<1>2. CASE ByHand
  <2>1. workload' = workload
    BY <1>2, HandWrites DEF Typed, Hand
  <2> QED BY <1>2, <2>1, SoloHand DEF SoloInv, Alone
<1>3. ASSUME NEW c \in Clients, Reading(c) PROVE SoloInv'
  <2>1. workload' = workload
    BY <1>3, ReadsOnly
  <2> QED BY <1>3, <2>1, SoloReading DEF SoloInv, Alone
<1>4. ASSUME NEW c \in Clients, Preview(c) \/ Map(c) \/ Select(c) \/ Apply(c) \/ Refused(c)
      PROVE  SoloInv'
  <2>1. workload' = workload
    BY <1>4 DEF Preview, Map, Select, Apply, Refused, Ends
  <2>2. SUFFICES ASSUME Alone, SoloBody PROVE SoloBody'
    BY <2>1 DEF SoloInv, Alone
  <2>3. \E r, f, rs : r = request[c] /\ f = r.file /\ rs = r.rows
    OBVIOUS
  <2> QED BY <1>4, <2>2, <2>3, SoloPreview, SoloMap, SoloSelect, SoloApply, SoloRefused
<1> QED BY <1>1, <1>2, <1>3, <1>4 DEF ImportsNext, ImportRequest, Reading

LEMMA ImportsInductive == ImportsSpec => [](Typed /\ KeysOnce /\ SoloInv)
<1>1. ImportsInit => Typed /\ KeysOnce /\ SoloInv
  <2>1. ImportsInit => KeysOnce
    BY DEF ImportsInit, KeysOnce, LiveIn
  <2> QED BY <2>1, TypedInit, SoloInit DEF SoloInv
<1>2. Typed /\ KeysOnce /\ SoloInv /\ [ImportsNext]_importVars => (Typed /\ KeysOnce /\ SoloInv)'
  BY TypedStep, KeysStep, SoloStep
<1> QED BY <1>1, <1>2, PTL DEF ImportsSpec

(***************************************************************************)
(* Theorems.                                                               *)
(***************************************************************************)
\* Batches, rows, tables and requests always have their types, a batch has a
\* row for each line, and one client that works alone stores a file once.
THEOREM ImportsTypes == ImportsSpec => []ImportsTypeOK
<1>1. Typed /\ KeysOnce /\ SoloInv => ImportsTypeOK
  <2> SUFFICES ASSUME Typed, SoloInv PROVE ImportsTypeOK
    OBVIOUS
  <2>1. ASSUME NEW f \in File
        PROVE  /\ batch[f].state \in {"none", "previewed", "applied"}
               /\ batch[f].mapped \in BOOLEAN /\ batch[f].imported \in 0 .. Len(Lines[f])
               /\ batch[f].state = "none" => batch[f] = NoBatch /\ rows[f] = <<>>
               /\ batch[f].state # "none" => DOMAIN rows[f] = DOMAIN Lines[f] /\ copies[f] > 0
               /\ Alone => copies[f] <= 1
               /\ \A n \in DOMAIN rows[f] :
                    /\ rows[f][n].status \in RowStatus /\ rows[f][n].included \in BOOLEAN
                    /\ rows[f][n].duplicate \in {None, "exact", "probable"}
    <3>1. Batched(f) /\ (Alone => StoredOnce(f))
      BY DEF Typed, SoloInv, SoloBody
    <3>2. rows[f] = <<>> => DOMAIN rows[f] = {}
      OBVIOUS
    <3> QED BY <3>1, <3>2 DEF Batched, IsBatch, RowsOf, IsRow, StoredOnce
  <2>2. \A table \in {ledger, events} : \A i \in DOMAIN table :
          table[i].rev \in Nat /\ table[i].live \in BOOLEAN /\ table[i].edited \in BOOLEAN
    BY DEF Typed, IsTable, IsEntry
  <2>3. \A c \in Clients : request[c] = Idle \/ request[c].file \in workload.files
    BY DEF Typed, Holds
  <2>4. profiles \subseteq Profile /\ open \in BOOLEAN
    BY DEF Typed
  <2> QED BY <2>1, <2>2, <2>3, <2>4 DEF ImportsTypeOK
<1> QED BY <1>1, ImportsInductive, PTL

\* Whatever files, mappings and requests overlap, a fingerprint is imported
\* once and for good, and a UID is that of one active event: each row is
\* compared with the table in the transaction that writes it.  And while one
\* client works alone a line becomes one record.
THEOREM ImportedOnceTheorem == ImportsSpec => []ImportedOnce
<1>1. Typed /\ KeysOnce /\ SoloInv => ImportedOnce
  <2> SUFFICES ASSUME Typed, KeysOnce, SoloInv PROVE ImportedOnce
    OBVIOUS
  <2>1. ASSUME Alone, NEW table, NEW files, Traced(table, files), NEW i \in DOMAIN table,
               NEW j \in DOMAIN table, i # j, table[i].from # None
        PROVE  table[i].from # table[j].from
    <3> SUFFICES ASSUME table[i].from = table[j].from PROVE FALSE
      OBVIOUS
    <3>1. PICK g \in files : \E n \in DOMAIN rows[g] :
            table[i].from = <<g, n>> /\ rows[g][n].made = i
      BY <2>1 DEF Traced
    <3>2. PICK n \in DOMAIN rows[g] : table[i].from = <<g, n>> /\ rows[g][n].made = i
      BY <3>1
    <3>3. PICK h \in files : \E m \in DOMAIN rows[h] :
            table[j].from = <<h, m>> /\ rows[h][m].made = j
      BY <2>1 DEF Traced
    <3>4. PICK m \in DOMAIN rows[h] : table[j].from = <<h, m>> /\ rows[h][m].made = j
      BY <3>3
    <3>5. <<g, n>> = <<h, m>>
      BY <3>2, <3>4
    <3>6. g = h /\ n = m
      BY <3>5
    <3> QED BY <2>1, <3>2, <3>4, <3>6
  <2>2. Alone => Traced(ledger, Csv) /\ Traced(events, File \ Csv)
    BY DEF SoloInv, SoloBody
  <2>3. Alone => \A table \in {ledger, events} : \A i, j \in DOMAIN table :
          i # j => table[i].from = None \/ table[i].from # table[j].from
    BY <2>1, <2>2
  <2> QED BY <2>3 DEF KeysOnce, ImportedOnce
<1> QED BY <1>1, ImportsInductive, PTL

\* While one client works alone, an applied batch says of every row what
\* became of it, and every imported record has the row that it is of.
THEOREM BatchTheorem == ImportsSpec => []BatchAccounted
<1>1. Typed /\ KeysOnce /\ SoloInv => BatchAccounted
  <2> SUFFICES ASSUME Typed, SoloInv, Alone
               PROVE  /\ \A f \in File :
                           /\ \A n \in DOMAIN rows[f] : RowAccounted(f, n)
                           /\ batch[f].imported = Cardinality(Imported(f))
                      /\ \A table \in {ledger, events} : \A i \in DOMAIN table :
                           table[i].from # None =>
                             rows[table[i].from[1]][table[i].from[2]].made = i
    BY DEF BatchAccounted, Imported
  <2>1. SoloBody
    BY DEF SoloInv
  <2>2. ASSUME NEW table, NEW files, Traced(table, files), NEW i \in DOMAIN table,
               table[i].from # None
        PROVE  rows[table[i].from[1]][table[i].from[2]].made = i
    <3>1. PICK g \in files : \E n \in DOMAIN rows[g] :
            table[i].from = <<g, n>> /\ rows[g][n].made = i
      BY <2>2 DEF Traced
    <3>2. PICK n \in DOMAIN rows[g] : table[i].from = <<g, n>> /\ rows[g][n].made = i
      BY <3>1
    <3>3. table[i].from[1] = g /\ table[i].from[2] = n
      BY <3>2
    <3> QED BY <3>2, <3>3
  <2> QED BY <2>1, <2>2 DEF SoloBody, Accounted
<1> QED BY <1>1, ImportsInductive, PTL

\* docs/imports.md:41: "applying an already-applied batch is a no-op".  While
\* one client works alone nothing of an applied batch changes and nothing more
\* is imported from it.
THEOREM AppliedTheorem == ImportsSpec => AppliedForGood
<1> DEFINE Final ==
      \A f \in File : batch[f].state = "applied" =>
        /\ batch'[f] = batch[f] /\ rows'[f] = rows[f]
        /\ \A i \in DOMAIN ledger' \ DOMAIN ledger : ledger'[i].from \notin {f} \X Nat
        /\ \A i \in DOMAIN events' \ DOMAIN events : events'[i].from \notin {f} \X Nat
<1>1. Typed /\ KeysOnce /\ SoloInv /\ [ImportsNext]_importVars => [Alone => Final]_importVars
  <2> SUFFICES ASSUME Typed, SoloBody, Alone, ImportsNext PROVE Final
    BY DEF SoloInv
  <2>1. CASE ByHand
    <3>1. Hand
      BY <2>1, HandWrites DEF Typed
    <3>2. \A f \in File : None \notin {f} \X Nat
      BY NoneAssumption
    <3> QED BY <3>1, <3>2 DEF Hand
  <2>2. ASSUME NEW c \in Clients, Reading(c) PROVE Final
    BY <2>2, ReadsOnly
  <2>3. ASSUME NEW c \in Clients, Refused(c) PROVE Final
    BY <2>3 DEF Refused, records
  <2>4. ASSUME NEW c \in Clients, Preview(c) \/ Map(c) \/ Select(c),
               NEW g, g = request[c].file
        PROVE  Final
    <3>1. request[c].op \in {"preview", "map", "select"}
      BY <2>4 DEF Preview, Map, Select
    <3>2. batch[g].state # "applied"
      BY <2>4, <3>1 DEF Preview, SoloBody, Knows, Pending, Map, Select
    <3>3. \A f \in File \ {g} : batch'[f] = batch[f] /\ rows'[f] = rows[f]
      BY <2>4 DEF Preview, Map, Select, Typed
    <3>4. ledger' = ledger /\ events' = events
      BY <2>4 DEF Preview, Map, Select, records
    <3> QED BY <3>2, <3>3, <3>4
  <2>5. ASSUME NEW c \in Clients, Apply(c), NEW r, r = request[c], NEW g, g = r.file
        PROVE  Final
    <3>1. batch[g].state # "applied"
      BY <2>5 DEF Apply, SoloBody, Knows, Pending
    <3>2. \A f \in File \ {g} : batch'[f] = batch[f] /\ rows'[f] = rows[f]
      BY <2>5 DEF Apply, Typed
    <3>3. Applied(r, g)
      BY <2>5, AppliedTables
    <3>4. ASSUME NEW f \in File \ {g}, NEW i \in DOMAIN TableOf(g)', i \notin DOMAIN TableOf(g)
          PROVE  TableOf(g)'[i].from \notin {f} \X Nat
      <4>1. PICK n \in NewOnes(r) : i = Target(r, n)
        BY <3>3, <3>4 DEF Applied
      <4>2. TableOf(g)'[i] = Record(r.rows[n].item, <<g, n>>)
        BY <3>3, <4>1 DEF Applied
      <4>3. TableOf(g)'[i].from = <<g, n>>
        BY <4>2, RecordType
      <4> QED BY <4>3
    <3>5. CASE g \in Csv
      <4>1. TableOf(g) = ledger /\ TableOf(g)' = ledger' /\ events' = events
        BY <3>3, <3>5 DEF TableOf, Applied
      <4> QED BY <3>1, <3>2, <3>4, <4>1
    <3>6. CASE g \notin Csv
      <4>1. TableOf(g) = events /\ TableOf(g)' = events' /\ ledger' = ledger
        BY <3>3, <3>6 DEF TableOf, Applied
      <4> QED BY <3>1, <3>2, <3>4, <4>1
    <3> QED BY <3>5, <3>6
  <2>6. \A c \in Clients : \E r, g : r = request[c] /\ g = r.file
    OBVIOUS
  <2> HIDE DEF Final
  <2> QED BY <2>1, <2>2, <2>3, <2>4, <2>5, <2>6 DEF ImportsNext, ImportRequest, Reading
<1> QED BY <1>1, ImportsInductive, PTL DEF ImportsSpec, AppliedForGood
=============================================================================
