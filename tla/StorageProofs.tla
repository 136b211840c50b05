--------------------------- MODULE StorageProofs ---------------------------
(***************************************************************************)
(* The two stores agree in the server, for any number of requests and      *)
(* attachments, whichever calls of Storage raise and whenever the process  *)
(* dies, but for what a delete-all leaves aside that is killed or cannot   *)
(* put it back.  With the demo data and the backup command they do not     *)
(* agree; what holds of all operations, the lock and that no bytes are     *)
(* left behind, comes last.                                                *)
(***************************************************************************)
EXTENDS Storage, TLAPS

ServerOperations == {"upload", "delete", "backup", "delete_all"}

(***************************************************************************)
(* The inductive invariant: a request at a step inside the lock has the    *)
(* lock, to itself or with other uploads, and then the rows and the files  *)
(* are as its own steps have left them.                                    *)
(***************************************************************************)
PhaseOf(op) ==
  CASE op = "upload" -> {"idle", "want", "read", "rename", "commit", "cleanup", "done", "killed"}
    [] op = "delete" -> {"want", "commit", "unlink", "done", "killed"}
    [] op = "backup" -> {"want", "snapshot", "list", "archive", "done", "killed"}
    [] op = "delete_all" -> {"want", "stage", "root", "others", "commit", "clear", "putback",
                             "purge", "done", "stranded", "killed"}

Placed ==
  \A r \in Request : /\ request[r].op \in ServerOperations
                     /\ request[r].phase \in PhaseOf(request[r].op)

LockHeld == \A r \in Request : r \in holders <=> request[r].phase \in Locked

LockExclusive == \A h, k \in holders : h = k \/ (OnLoop(h) /\ OnLoop(k))

Uploading(r) == request[r].op = "upload" /\ UnderWay(r)

\* The identifier of an upload is no row yet, and nobody else's.
OwnIdentifier ==
  \A r \in Request : Uploading(r) =>
    /\ request[r].id \in Id
    /\ row[request[r].id] = "none"
    /\ \A q \in Request \ {r} : request[q].id # request[r].id

Deletions ==
  \A r \in Request :
    /\ request[r].op = "delete" /\ UnderWay(r) => request[r].id \in Id
    /\ At(r, "delete", "unlink") => request[r].id \notin Active

Emptied == \A r \in Request : At(r, "delete_all", "purge") => Active = {}

LockInv ==
  /\ StorageTypeOK /\ Placed
  /\ LockHeld /\ LockExclusive
  /\ OwnIdentifier /\ Deletions /\ Emptied

Emptying(r) == request[r].op = "delete_all" /\ request[r].phase \in MayPutBack

Lost(r) == request[r].op = "delete_all" /\ request[r].phase \in {"stranded", "killed"}

\* Unless delete-all is about to empty the database, rows have their files.
InPlace ==
  \/ Active \subseteq file \cup LeftAside
  \/ \E r \in Request : Emptying(r)

Aside == \A r \in Request : Emptying(r) => Active \subseteq staged[r].file \cup LeftAside

Renamed == \A r \in Request : At(r, "upload", "commit") => request[r].id \in file

BackedUp ==
  /\ \A r \in Request : At(r, "backup", "list") => request[r].rows \subseteq Active
  /\ \A r \in Request :
       At(r, "backup", "archive") => request[r].rows \subseteq request[r].files \cup LeftAside
  /\ \A b \in backup : b.rows \subseteq b.files \cup LeftAside

FilesInv == InPlace /\ Aside /\ Renamed /\ BackedUp

StorageInv == LockInv /\ FilesInv

-----------------------------------------------------------------------------

(* What a step does to the request that takes it. *)

Moved(r, op, phase) ==
  /\ request' \in [Request -> RequestRecord]
  /\ request'[r].op = op /\ request'[r].phase = phase
  /\ \A q \in Request \ {r} : request'[q] = request[q]

Kept(r) == request'[r].id = request[r].id

LEMMA IdleType == Idle \in RequestRecord
  BY DEF Idle, RequestRecord, Operations, Phases

LEMMA GotoMoves ==
  ASSUME StorageTypeOK, NEW r \in Request, NEW phase \in Phases, Goto(r, phase)
  PROVE  Moved(r, request[r].op, phase) /\ Kept(r)
<1>1. request[r] \in RequestRecord
  BY DEF StorageTypeOK
<1>2. [request[r] EXCEPT !.phase = phase] \in RequestRecord
  BY <1>1 DEF RequestRecord
<1> QED
  BY <1>1, <1>2 DEF Goto, Moved, Kept, StorageTypeOK, RequestRecord

LEMMA FinishMoves ==
  ASSUME StorageTypeOK, NEW r \in Request, Finish(r)
  PROVE  Moved(r, request[r].op, "done") /\ request'[r].id = Null
<1> DEFINE done == [Idle EXCEPT !.op = request[r].op, !.phase = "done"]
<1>1. request[r].op \in Operations
  BY DEF StorageTypeOK, RequestRecord
<1>2. /\ done \in RequestRecord
      /\ done.op = request[r].op /\ done.phase = "done" /\ done.id = Null
  BY <1>1, IdleType DEF RequestRecord, Phases, Idle
<1>3. request' = [request EXCEPT ![r] = done]
  BY DEF Finish
<1> HIDE DEF done
<1> QED
  BY <1>2, <1>3 DEF Moved, StorageTypeOK

LEMMA StrandMoves ==
  ASSUME StorageTypeOK, NEW r \in Request, Strand(r)
  PROVE  Moved(r, request[r].op, "stranded") /\ request'[r].id = Null
<1> DEFINE over == [Idle EXCEPT !.op = request[r].op, !.phase = "stranded"]
<1>1. request[r].op \in Operations
  BY DEF StorageTypeOK, RequestRecord
<1>2. /\ over \in RequestRecord
      /\ over.op = request[r].op /\ over.phase = "stranded" /\ over.id = Null
  BY <1>1, IdleType DEF RequestRecord, Phases, Idle
<1>3. request' = [request EXCEPT ![r] = over]
  BY DEF Strand
<1> HIDE DEF over
<1> QED
  BY <1>2, <1>3 DEF Moved, StorageTypeOK

\* A request that begins.
LEMMA BeginMoves ==
  ASSUME StorageTypeOK, NEW r \in Request, NEW op \in Operations, NEW phase \in Phases,
         NEW i \in Id \cup {Null},
         request' = [request EXCEPT ![r] = [Idle EXCEPT !.op = op, !.phase = phase, !.id = i]]
  PROVE  Moved(r, op, phase) /\ request'[r].id = i
<1> DEFINE begun == [Idle EXCEPT !.op = op, !.phase = phase, !.id = i]
<1>1. /\ begun \in RequestRecord
      /\ begun.op = op /\ begun.phase = phase /\ begun.id = i
  BY IdleType DEF RequestRecord, Idle
<1>2. request' = [request EXCEPT ![r] = begun]
  OBVIOUS
<1> HIDE DEF begun
<1> QED
  BY <1>1, <1>2 DEF Moved, StorageTypeOK

-----------------------------------------------------------------------------
(* The lock. *)

\* Whoever is inside the lock without being an upload is alone there.
LEMMA AloneInside ==
  ASSUME LockInv, NEW r \in Request, request[r].phase \in Locked
  PROVE  \A q \in Request \ {r} : request[q].phase \in Locked =>
           request[r].op = "upload" /\ request[q].op = "upload"
BY DEF LockInv, LockHeld, LockExclusive, OnLoop

\* A request takes the lock, leaves it, or stays where it is.
LEMMA LockStep ==
  ASSUME LockInv, NEW r \in Request, NEW op, NEW phase, Moved(r, op, phase),
         \/ /\ op = request[r].op /\ MayEnter(r)
            /\ phase \in Locked /\ holders' = holders \cup {r}
         \/ phase \notin Locked /\ holders' = holders \ {r}
         \/ /\ op = request[r].op /\ holders' = holders
            /\ phase \in Locked <=> request[r].phase \in Locked
  PROVE  /\ LockHeld' /\ LockExclusive'
         /\ holders' \subseteq {q \in Request : request'[q].phase \in Locked}
<1>1. holders \subseteq Request /\ LockHeld /\ LockExclusive
  BY DEF LockInv, StorageTypeOK
<1>2. LockHeld'
  BY <1>1 DEF LockHeld, Moved
<1>3. LockExclusive'
  BY <1>1 DEF LockExclusive, LockHeld, OnLoop, Moved, MayEnter
<1>4. holders' \subseteq Request
  BY <1>1
<1> QED
  BY <1>2, <1>3, <1>4 DEF LockHeld

\* Identifiers stay apart when a request keeps its own or gives it back.
LEMMA IdentifierStep ==
  ASSUME LockInv, NEW r \in Request, NEW op, NEW phase, Moved(r, op, phase),
         request'[r].id \in {request[r].id, Null},
         Uploading(r)' => Uploading(r) /\ request'[r].id = request[r].id,
         \A q \in Request : Uploading(q)' => row'[request[q].id] = "none"
  PROVE  OwnIdentifier'
<1>1. \A q \in Request \ {r} : Uploading(q)' => Uploading(q)
  BY DEF Moved, Uploading, UnderWay
<1>2. Null \notin Id
  BY StorageAssumption DEF Id
<1> QED
  BY <1>1, <1>2 DEF LockInv, OwnIdentifier, Moved

-----------------------------------------------------------------------------
(* What the steps have in common. *)

TypedStores ==
  /\ row \in [Id -> {"none", "active", "deleted"}]
  /\ folder \in BOOLEAN /\ file \subseteq Id /\ temp \subseteq Id
  /\ staged \in [Request -> Directory]
  /\ backup \subseteq [rows : SUBSET Id, files : SUBSET Id]
  /\ loop \in Request \cup {Null}

\* A step of a request under way that makes no row active.
LEMMA LockInvStep ==
  ASSUME LockInv, NEW r \in Request, UnderWay(r),
         NEW phase \in PhaseOf(request[r].op), phase # "idle",
         Moved(r, request[r].op, phase),
         Kept(r) \/ (phase \in {"done", "stranded"} /\ request'[r].id = Null),
         TypedStores',
         \/ MayEnter(r) /\ phase \in Locked /\ holders' = holders \cup {r}
         \/ phase \notin Locked /\ holders' = holders \ {r}
         \/ holders' = holders /\ (phase \in Locked <=> request[r].phase \in Locked),
         \A i \in Id : /\ row[i] = "none" => row'[i] = "none"
                       /\ row'[i] = "active" => row[i] = "active",
         phase = "unlink" => request[r].id \notin Active',
         phase = "purge" => Active' = {}
  PROVE  LockInv'
<1>1. /\ LockHeld' /\ LockExclusive'
      /\ holders' \subseteq {q \in Request : request'[q].phase \in Locked}
  BY LockStep
<1>2. StorageTypeOK'
  BY <1>1 DEF StorageTypeOK, TypedStores, Moved
<1>3. Placed'
  BY DEF LockInv, Placed, Moved
<1>4. OwnIdentifier'
  <2>1. request'[r].id \in {request[r].id, Null}
    BY DEF Kept
  <2>2. Uploading(r)' => Uploading(r) /\ request'[r].id = request[r].id
    BY DEF Uploading, UnderWay, Moved, Kept
  <2>3. \A q \in Request : Uploading(q)' => row'[request[q].id] = "none"
    BY <2>2 DEF LockInv, OwnIdentifier, Uploading, UnderWay, Moved
  <2> QED
    BY <2>1, <2>2, <2>3, IdentifierStep
<1>5. Deletions'
  <2>1. Active' \subseteq Active
    BY DEF Active
  <2>2. ASSUME NEW q \in Request \ {r}
        PROVE  /\ (request[q].op = "delete" /\ UnderWay(q))' => request'[q].id \in Id
               /\ At(q, "delete", "unlink")' => request'[q].id \notin Active'
    BY <2>1 DEF LockInv, Deletions, UnderWay, At, Moved
  <2>3. /\ (request[r].op = "delete" /\ UnderWay(r))' => request'[r].id \in Id
        /\ At(r, "delete", "unlink")' => request'[r].id \notin Active'
    BY DEF LockInv, Deletions, UnderWay, At, Moved, Kept
  <2> QED
    BY <2>2, <2>3 DEF Deletions
<1>6. Emptied'
  <2>1. Active' \subseteq Active
    BY DEF Active
  <2> QED
    BY <2>1 DEF LockInv, Emptied, At, Moved
<1> QED
  BY <1>1, <1>2, <1>3, <1>4, <1>5, <1>6 DEF LockInv

\* What was left aside stays there: nobody looks for it.
LEMMA LeftAsideStays ==
  ASSUME NEW r \in Request, UnderWay(r) \/ request[r].phase = "idle",
         NEW op, NEW phase, Moved(r, op, phase),
         \A q \in Request \ {r} : staged'[q] = staged[q]
  PROVE  LeftAside \subseteq LeftAside'
<1> SUFFICES ASSUME NEW q \in Request, Lost(q), NEW i \in staged[q].file
             PROVE  i \in LeftAside'
  BY DEF LeftAside, AsideIn, Lost
<1>1. q # r
  BY DEF Lost, UnderWay
<1>2. staged'[q] = staged[q] /\ request'[q] = request[q]
  BY <1>1 DEF Moved
<1> QED
  BY <1>2 DEF LeftAside, AsideIn, Lost

\* The steps the agreement of rows and files is about.
Critical ==
  {<<"upload", "commit">>, <<"backup", "list">>, <<"backup", "archive">>}
    \cup {<<"delete_all", phase>> : phase \in MayPutBack}

LEMMA FilesStay ==
  ASSUME FilesInv, NEW r \in Request, UnderWay(r) \/ request[r].phase = "idle",
         NEW op, NEW phase, Moved(r, op, phase),
         row' = row, file' = file, staged' = staged, backup' = backup,
         ~Emptying(r), <<op, phase>> \notin Critical
  PROVE  FilesInv'
<1>1. \A q \in Request, o \in {"upload", "backup"}, p \in {"commit", "list", "archive"} :
        <<o, p>> \in Critical /\ At(q, o, p)' => q # r /\ At(q, o, p)
  BY DEF At, Moved
<1>2. Active' = Active /\ LeftAside \subseteq LeftAside'
  BY LeftAsideStays DEF Active
<1>3. \A q \in Request : Emptying(q)' <=> q # r /\ Emptying(q)
  BY DEF Emptying, Moved, Critical
<1>4. InPlace'
  BY <1>2, <1>3 DEF FilesInv, InPlace
<1>5. Aside'
  BY <1>2, <1>3 DEF FilesInv, Aside
<1>6. Renamed'
  BY <1>1 DEF FilesInv, Renamed, At, Moved, Critical
<1>7. BackedUp'
  BY <1>1, <1>2 DEF FilesInv, BackedUp, At, Moved, Critical
<1> QED
  BY <1>4, <1>5, <1>6, <1>7 DEF FilesInv

\* A step of a request that neither is nor becomes a delete-all that may put
\* back, and takes no file of an active row away.
LEMMA PlaceStays ==
  ASSUME FilesInv, NEW r \in Request, UnderWay(r), request[r].op # "delete_all",
         NEW phase, Moved(r, request[r].op, phase), staged' = staged,
         \/ Active' \subseteq Active /\ Active' \cap file \subseteq file'
         \/ /\ \A q \in Request : ~Emptying(q)
            /\ Active' \subseteq Active \cup file' /\ file \subseteq file'
  PROVE  InPlace' /\ Aside' /\ LeftAside \subseteq LeftAside'
<1>1. LeftAside \subseteq LeftAside'
  BY LeftAsideStays
<1>2. \A q \in Request : Emptying(q)' <=> Emptying(q)
  BY DEF Emptying, Moved
<1> QED
  BY <1>1, <1>2 DEF FilesInv, InPlace, Aside

-----------------------------------------------------------------------------
(* Requests begin. *)

LEMMA UploadBegins ==
  ASSUME StorageInv, NEW r \in Request, BeginUpload(r)
  PROVE  StorageInv'
<1>0. LockInv /\ StorageTypeOK /\ Placed
  BY DEF StorageInv, LockInv
<1>1. PICK i \in Attachment :
        /\ Fresh(i)
        /\ request' = [request EXCEPT ![r] =
             [Idle EXCEPT !.op = "upload", !.phase = "want", !.id = i]]
  BY DEF BeginUpload
<1>2. /\ Moved(r, "upload", "want") /\ request'[r].id = i
      /\ i \in Id
  <2>1. i \in Id /\ "upload" \in Operations /\ "want" \in Phases
    BY DEF Id, Operations, Phases
  <2> QED
    BY <1>0, <1>1, <2>1, BeginMoves
<1>3. /\ request[r].phase = "idle" /\ request[r].op = "upload"
      /\ UNCHANGED <<row, file, temp, staged, backup, holders, loop>> /\ folder' = TRUE
  BY <1>0 DEF BeginUpload, Placed, PhaseOf, ServerOperations
<1>4. LockInv'
  <2>1. /\ LockHeld' /\ LockExclusive'
        /\ holders' \subseteq {q \in Request : request'[q].phase \in Locked}
    BY <1>0, <1>2, <1>3, LockStep DEF Locked
  <2>2. StorageTypeOK'
    BY <1>0, <1>2, <1>3, <2>1 DEF StorageTypeOK, Moved
  <2>3. Placed'
    BY <1>0, <1>2 DEF Placed, Moved, PhaseOf, ServerOperations
  <2>4. OwnIdentifier'
    BY <1>0, <1>1, <1>2, <1>3 DEF LockInv, OwnIdentifier, Fresh, Uploading, UnderWay, Moved
  <2>5. Deletions'
    BY <1>0, <1>2, <1>3 DEF LockInv, Deletions, UnderWay, At, Moved, Active
  <2>6. Emptied'
    BY <1>0, <1>2, <1>3 DEF LockInv, Emptied, At, Moved, Active
  <2> QED
    BY <2>1, <2>2, <2>3, <2>4, <2>5, <2>6 DEF LockInv
<1>5. FilesInv => FilesInv'
  BY <1>2, <1>3, FilesStay DEF Emptying, Critical
<1> QED
  BY <1>4, <1>5 DEF StorageInv

LEMMA WorkerBegins ==
  ASSUME StorageInv, NEW r \in Request,
         NEW op \in {"delete", "backup", "delete_all"}, NEW i \in Id \cup {Null},
         i \in Active \/ (i = Null /\ op # "delete"),
         BeginWorker(r, op, "want", i)
  PROVE  StorageInv'
<1>0. LockInv /\ StorageTypeOK /\ Placed
  BY DEF StorageInv, LockInv
<1>1. Moved(r, op, "want") /\ request'[r].id = i
  BY <1>0, BeginMoves DEF BeginWorker, Operations, WorkerOperations, Phases
<1>2. /\ request[r].phase = "idle"
      /\ UNCHANGED <<row, folder, file, temp, staged, backup, holders, loop>>
  BY DEF BeginWorker, Files
<1>3. LockInv'
  <2>1. /\ LockHeld' /\ LockExclusive'
        /\ holders' \subseteq {q \in Request : request'[q].phase \in Locked}
    <3>1. r \notin holders
      BY <1>0, <1>2 DEF LockInv, LockHeld, Locked
    <3>2. holders' = holders \ {r} /\ "want" \notin Locked
      BY <1>2, <3>1 DEF Locked
    <3> QED
      BY <1>0, <1>1, <3>2, LockStep
  <2>2. StorageTypeOK'
    BY <1>0, <1>1, <1>2, <2>1 DEF StorageTypeOK, Moved
  <2>3. Placed'
    BY <1>0, <1>1 DEF Placed, Moved, PhaseOf, ServerOperations
  <2>4. OwnIdentifier'
    <3>1. i \in Active => row[i] = "active"
      BY DEF Active
    <3>2. Null \notin Id
      BY StorageAssumption DEF Id
    <3> QED
      BY <1>0, <1>1, <1>2, <3>1, <3>2 DEF LockInv, OwnIdentifier, Uploading, UnderWay, Moved
  <2>5. Deletions'
    BY <1>0, <1>1, <1>2 DEF LockInv, Deletions, UnderWay, At, Moved, Active
  <2>6. Emptied'
    BY <1>0, <1>1, <1>2 DEF LockInv, Emptied, At, Moved, Active
  <2> QED
    BY <2>1, <2>2, <2>3, <2>4, <2>5, <2>6 DEF LockInv
<1>4. FilesInv => FilesInv'
  BY <1>1, <1>2, FilesStay DEF Emptying, Critical, MayPutBack
<1> QED
  BY <1>3, <1>4 DEF StorageInv

\* A step that leaves rows and files alone and is none of the critical ones.
LEMMA QuietStep ==
  ASSUME StorageInv, NEW r \in Request, UnderWay(r),
         NEW phase \in PhaseOf(request[r].op), phase \notin {"idle", "unlink", "purge"},
         Moved(r, request[r].op, phase),
         Kept(r) \/ (phase \in {"done", "stranded"} /\ request'[r].id = Null),
         UNCHANGED <<row, folder, file, staged, backup>>,
         temp' \subseteq Id, loop' \in Request \cup {Null},
         \/ MayEnter(r) /\ phase \in Locked /\ holders' = holders \cup {r}
         \/ phase \notin Locked /\ holders' = holders \ {r}
         \/ holders' = holders /\ (phase \in Locked <=> request[r].phase \in Locked),
         ~Emptying(r), <<request[r].op, phase>> \notin Critical
  PROVE  StorageInv'
<1>1. LockInv'
  <2>1. TypedStores'
    BY DEF StorageInv, LockInv, StorageTypeOK, TypedStores
  <2>2. LockInv
    BY DEF StorageInv
  <2> QED
    BY <2>1, <2>2, LockInvStep
<1>2. FilesInv'
  BY FilesStay DEF StorageInv
<1> QED
  BY <1>1, <1>2 DEF StorageInv

\* A request that raises, or finds nothing to do, is over.
LEMMA QuietFinish ==
  ASSUME StorageInv, NEW r \in Request, UnderWay(r), Finish(r),
         UNCHANGED <<row, folder, file, temp, staged, backup, loop>>,
         ~Emptying(r)
  PROVE  StorageInv'
<1>1. StorageTypeOK /\ Placed
  BY DEF StorageInv, LockInv
<1>2. Moved(r, request[r].op, "done") /\ request'[r].id = Null /\ holders' = holders \ {r}
  BY <1>1, FinishMoves DEF Finish
<1>3. "done" \in PhaseOf(request[r].op)
  BY <1>1 DEF Placed, PhaseOf, ServerOperations
<1>4. temp' \subseteq Id /\ loop' \in Request \cup {Null}
  BY <1>1 DEF StorageTypeOK
<1> QED
  BY <1>2, <1>3, <1>4, QuietStep DEF Critical, MayPutBack, Locked

\* A request takes the lock.
LEMMA EnterStep ==
  ASSUME StorageInv, NEW r \in Request, NEW op, NEW phase,
         <<op, phase>> \in {<<"delete", "commit">>, <<"backup", "snapshot">>, <<"delete_all", "stage">>},
         Enter(r, op, phase)
  PROVE  StorageInv'
<1>1. StorageTypeOK
  BY DEF StorageInv, LockInv
<1>2. /\ request[r].op = op /\ request[r].phase = "want" /\ MayEnter(r)
      /\ holders' = holders \cup {r} /\ Goto(r, phase)
      /\ UNCHANGED <<row, folder, file, temp, staged, backup, loop>>
  BY DEF Enter, At, Files
<1>3. UnderWay(r) /\ ~Emptying(r)
  BY <1>2 DEF UnderWay, Emptying, MayPutBack
<1>4. /\ phase \in PhaseOf(request[r].op) /\ phase \in Locked /\ phase \in Phases
      /\ phase \notin {"idle", "unlink", "purge"}
      /\ <<request[r].op, phase>> \notin Critical
  BY <1>2 DEF PhaseOf, Locked, Critical, MayPutBack, Phases
<1>5. Moved(r, request[r].op, phase) /\ Kept(r)
  BY <1>1, <1>2, <1>4, GotoMoves
<1>6. temp' \subseteq Id /\ loop' \in Request \cup {Null}
  BY <1>1, <1>2 DEF StorageTypeOK
<1> QED
  BY <1>2, <1>3, <1>4, <1>5, <1>6, QuietStep

-----------------------------------------------------------------------------
(* Uploads. *)

LEMMA WaitOnLoopStep ==
  ASSUME StorageInv, NEW r \in Request, WaitOnLoop(r)
  PROVE  StorageInv'
<1>1. StorageTypeOK
  BY DEF StorageInv, LockInv
<1>2. /\ request[r].op = "upload" /\ request[r].phase = "want" /\ loop' = r
      /\ UNCHANGED <<row, folder, file, temp, staged, backup, holders, request>>
  BY DEF WaitOnLoop, At, Files
<1>3. UnderWay(r) /\ ~Emptying(r)
  BY <1>2 DEF UnderWay, Emptying, MayPutBack
<1>4. "want" \in PhaseOf(request[r].op) /\ <<request[r].op, "want">> \notin Critical
  BY <1>2 DEF PhaseOf, Critical
<1>5. Moved(r, request[r].op, "want") /\ Kept(r)
  BY <1>1, <1>2 DEF Moved, Kept, StorageTypeOK
<1>6. temp' \subseteq Id /\ loop' \in Request \cup {Null}
  BY <1>1, <1>2 DEF StorageTypeOK
<1> QED
  BY <1>2, <1>3, <1>4, <1>5, <1>6, QuietStep

LEMMA OpenUploadStep ==
  ASSUME StorageInv, NEW r \in Request, OpenUpload(r)
  PROVE  StorageInv'
<1>1. StorageTypeOK /\ LockInv
  BY DEF StorageInv, LockInv
<1>2. /\ request[r].op = "upload" /\ request[r].phase = "want" /\ MayEnter(r)
      /\ UNCHANGED <<row, folder, file, staged, backup>>
      /\ loop' \in Request \cup {Null}
  BY DEF OpenUpload, At
<1>3. UnderWay(r) /\ ~Emptying(r)
  BY <1>2 DEF UnderWay, Emptying, MayPutBack
<1>4. CASE /\ temp' = temp \cup {request[r].id} /\ holders' = holders \cup {r}
           /\ Goto(r, "read")
  <2>1. temp' \subseteq Id
    BY <1>1, <1>2, <1>3, <1>4 DEF StorageTypeOK, LockInv, OwnIdentifier, Uploading
  <2>2. Moved(r, request[r].op, "read") /\ Kept(r)
    BY <1>1, <1>4, GotoMoves DEF Phases
  <2>3. "read" \in PhaseOf(request[r].op) /\ <<request[r].op, "read">> \notin Critical
    BY <1>2 DEF PhaseOf, Critical
  <2> QED
    BY <1>2, <1>3, <1>4, <2>1, <2>2, <2>3, QuietStep DEF Locked
<1>5. CASE Goto(r, "cleanup") /\ UNCHANGED <<temp, holders>>
  <2>1. temp' \subseteq Id
    BY <1>1, <1>5 DEF StorageTypeOK
  <2>2. Moved(r, request[r].op, "cleanup") /\ Kept(r)
    BY <1>1, <1>5, GotoMoves DEF Phases
  <2>3. "cleanup" \in PhaseOf(request[r].op) /\ <<request[r].op, "cleanup">> \notin Critical
    BY <1>2 DEF PhaseOf, Critical
  <2>4. "cleanup" \in Locked <=> request[r].phase \in Locked
    BY <1>2 DEF Locked
  <2> QED
    BY <1>2, <1>3, <1>5, <2>1, <2>2, <2>3, <2>4, QuietStep
<1> QED
  BY <1>4, <1>5 DEF OpenUpload

LEMMA RaiseUploadStep ==
  ASSUME StorageInv, NEW r \in Request, request[r].op = "upload", UnderWay(r), RaiseUpload(r)
  PROVE  StorageInv'
<1>1. StorageTypeOK
  BY DEF StorageInv, LockInv
<1>2. /\ Goto(r, "cleanup") /\ holders' = holders \ {r}
      /\ UNCHANGED <<row, folder, file, temp, staged, backup, loop>>
  BY DEF RaiseUpload, Files
<1>3. Moved(r, request[r].op, "cleanup") /\ Kept(r)
  BY <1>1, <1>2, GotoMoves DEF Phases
<1>4. /\ "cleanup" \in PhaseOf(request[r].op) /\ <<request[r].op, "cleanup">> \notin Critical
      /\ "cleanup" \notin Locked /\ ~Emptying(r)
  BY DEF PhaseOf, Critical, Locked, Emptying
<1>5. temp' \subseteq Id /\ loop' \in Request \cup {Null}
  BY <1>1, <1>2 DEF StorageTypeOK
<1> QED
  BY <1>2, <1>3, <1>4, <1>5, QuietStep

LEMMA ReadUploadStep ==
  ASSUME StorageInv, NEW r \in Request, ReadUpload(r)
  PROVE  StorageInv'
<1>1. StorageTypeOK
  BY DEF StorageInv, LockInv
<1>2. request[r].op = "upload" /\ request[r].phase = "read" /\ UnderWay(r)
  BY DEF ReadUpload, At, UnderWay
<1>3. CASE Goto(r, "rename") /\ UNCHANGED <<row, Files, backup, holders, loop>>
  <2>1. Moved(r, request[r].op, "rename") /\ Kept(r)
    BY <1>1, <1>3, GotoMoves DEF Phases
  <2>2. /\ "rename" \in PhaseOf(request[r].op) /\ <<request[r].op, "rename">> \notin Critical
        /\ "rename" \in Locked <=> request[r].phase \in Locked
        /\ ~Emptying(r)
    BY <1>2 DEF PhaseOf, Critical, Locked, Emptying
  <2>3. temp' \subseteq Id /\ loop' \in Request \cup {Null}
    BY <1>1, <1>3 DEF StorageTypeOK, Files
  <2>4. UNCHANGED <<row, folder, file, staged, backup, holders>>
    BY <1>3 DEF Files
  <2> QED
    BY <1>2, <2>1, <2>2, <2>3, <2>4, QuietStep
<1> QED
  BY <1>2, <1>3, RaiseUploadStep DEF ReadUpload

LEMMA RenameUploadStep ==
  ASSUME StorageInv, NEW r \in Request, RenameUpload(r)
  PROVE  StorageInv'
<1>1. StorageTypeOK /\ LockInv
  BY DEF StorageInv, LockInv
<1>2. /\ request[r].op = "upload" /\ request[r].phase = "rename" /\ UnderWay(r)
      /\ temp' = temp \ {request[r].id} /\ file' = file \cup {request[r].id}
      /\ UNCHANGED <<row, folder, staged, backup, holders, loop>> /\ Goto(r, "commit")
  BY DEF RenameUpload, At, UnderWay
<1>3. Moved(r, request[r].op, "commit") /\ Kept(r)
  BY <1>1, <1>2, GotoMoves DEF Phases
<1>4. request[r].id \in Id
  BY <1>1, <1>2 DEF LockInv, OwnIdentifier, Uploading
<1>5. LockInv'
  <2>1. TypedStores'
    BY <1>1, <1>2, <1>4 DEF StorageTypeOK, TypedStores
  <2>2. "commit" \in PhaseOf(request[r].op) /\ ("commit" \in Locked <=> request[r].phase \in Locked)
    BY <1>2 DEF PhaseOf, Locked
  <2> QED
    BY <1>1, <1>2, <1>3, <2>1, <2>2, LockInvStep
<1>6. FilesInv => FilesInv'
  <2> SUFFICES ASSUME FilesInv PROVE FilesInv'
    OBVIOUS
  <2>1. Active' = Active
    BY <1>2 DEF Active
  <2>2. InPlace' /\ Aside' /\ LeftAside \subseteq LeftAside'
    BY <1>2, <1>3, <2>1, PlaceStays
  <2>3. Renamed'
    BY <1>2, <1>3 DEF FilesInv, Renamed, At, Moved, Kept
  <2>4. BackedUp'
    BY <1>2, <1>3, <2>1, <2>2 DEF FilesInv, BackedUp, At, Moved
  <2> QED
    BY <2>2, <2>3, <2>4 DEF FilesInv
<1> QED
  BY <1>5, <1>6 DEF StorageInv

\* Nobody else is inside the lock but uploads: delete-all does not empty the
\* database and no delete is between its commit and its unlink.
LEMMA CommitUploadStep ==
  ASSUME StorageInv, NEW r \in Request, CommitUpload(r)
  PROVE  StorageInv'
<1>1. StorageTypeOK /\ LockInv
  BY DEF StorageInv, LockInv
<1>2. request[r].op = "upload" /\ request[r].phase = "commit" /\ UnderWay(r)
  BY DEF CommitUpload, At, UnderWay
<1>3. CASE /\ row' = [row EXCEPT ![request[r].id] = "active"]
           /\ Finish(r) /\ UNCHANGED <<Files, backup, loop>>
  <2>1. Moved(r, "upload", "done") /\ request'[r].id = Null /\ holders' = holders \ {r}
    BY <1>1, <1>2, <1>3, FinishMoves DEF Finish
  <2>2. request[r].id \in Id /\ \A q \in Request \ {r} : request[q].id # request[r].id
    BY <1>1, <1>2 DEF LockInv, OwnIdentifier, Uploading
  <2>3. UNCHANGED <<folder, file, temp, staged, backup, loop>>
    BY <1>3 DEF Files
  <2>4. Active' = Active \cup {request[r].id}
    BY <1>1, <1>3, <2>2 DEF Active, StorageTypeOK
  <2>5. \A q \in Request \ {r} : request[q].phase \in Locked => request[q].op = "upload"
    BY <1>1, <1>2, AloneInside DEF Locked
  <2>6. LockInv'
    <3>1. /\ LockHeld' /\ LockExclusive'
          /\ holders' \subseteq {q \in Request : request'[q].phase \in Locked}
      BY <1>1, <2>1, LockStep DEF Locked
    <3>2. row' \in [Id -> {"none", "active", "deleted"}]
      BY <1>1, <1>3 DEF StorageTypeOK
    <3>3. StorageTypeOK'
      BY <1>1, <2>1, <2>3, <3>1, <3>2 DEF StorageTypeOK, Moved
    <3>4. Placed'
      BY <1>1, <2>1 DEF LockInv, Placed, Moved, PhaseOf, ServerOperations
    <3>5. OwnIdentifier'
      <4>1. \A q \in Request : Uploading(q)' => q # r /\ Uploading(q) /\ request'[q] = request[q]
        BY <2>1 DEF Uploading, UnderWay, Moved
      <4>2. \A q \in Request : Uploading(q)' => row'[request[q].id] = "none"
        BY <1>1, <1>3, <2>2, <4>1 DEF LockInv, OwnIdentifier, StorageTypeOK
      <4>3. Null \notin Id
        BY StorageAssumption DEF Id
      <4> QED
        BY <1>1, <2>1, <4>1, <4>2, <4>3 DEF LockInv, OwnIdentifier, Moved
    <3>6. Deletions'
      BY <1>1, <2>1, <2>5 DEF LockInv, Deletions, UnderWay, At, Moved, Locked
    <3>7. Emptied'
      BY <2>1, <2>5 DEF Emptied, At, Moved, Locked
    <3> QED
      BY <3>1, <3>3, <3>4, <3>5, <3>6, <3>7 DEF LockInv
  <2>7. FilesInv => FilesInv'
    <3> SUFFICES ASSUME FilesInv PROVE FilesInv'
      OBVIOUS
    <3>1. \A q \in Request : ~Emptying(q)
      BY <1>2, <2>5 DEF Emptying, MayPutBack, Locked
    <3>2. request[r].id \in file
      BY <1>2 DEF FilesInv, Renamed, At
    <3>3. InPlace' /\ Aside' /\ LeftAside \subseteq LeftAside'
      BY <1>2, <2>1, <2>3, <2>4, <3>1, <3>2, PlaceStays
    <3>4. Renamed'
      BY <2>1, <2>3 DEF FilesInv, Renamed, At, Moved
    <3>5. BackedUp'
      BY <1>3, <2>1, <2>4, <3>3 DEF FilesInv, BackedUp, At, Moved
    <3> QED
      BY <3>3, <3>4, <3>5 DEF FilesInv
  <2> QED
    BY <2>6, <2>7 DEF StorageInv
<1> QED
  BY <1>2, <1>3, RaiseUploadStep DEF CommitUpload

LEMMA CleanupUploadStep ==
  ASSUME StorageInv, NEW r \in Request, CleanupUpload(r)
  PROVE  StorageInv'
<1>1. StorageTypeOK /\ LockInv
  BY DEF StorageInv, LockInv
<1>2. /\ request[r].op = "upload" /\ request[r].phase = "cleanup" /\ UnderWay(r)
      /\ temp' \subseteq temp /\ file' \in {file \ {request[r].id}, file}
      /\ UNCHANGED <<row, folder, staged, backup, loop>> /\ Finish(r)
  BY DEF CleanupUpload, At, UnderWay
<1>3. Moved(r, request[r].op, "done") /\ request'[r].id = Null /\ holders' = holders \ {r}
  BY <1>1, <1>2, FinishMoves DEF Finish
<1>4. /\ request[r].id \notin Active
      /\ \A q \in Request \ {r} : request[q].id # request[r].id
  BY <1>1, <1>2 DEF LockInv, OwnIdentifier, Uploading, Active
<1>5. LockInv'
  <2>1. TypedStores'
    BY <1>1, <1>2 DEF StorageTypeOK, TypedStores
  <2>2. "done" \in PhaseOf(request[r].op) /\ "done" \notin Locked
    BY <1>2 DEF PhaseOf, Locked
  <2> QED
    BY <1>1, <1>2, <1>3, <2>1, <2>2, LockInvStep
<1>6. FilesInv => FilesInv'
  <2> SUFFICES ASSUME FilesInv PROVE FilesInv'
    OBVIOUS
  <2>1. Active' = Active
    BY <1>2 DEF Active
  <2>2. InPlace' /\ Aside' /\ LeftAside \subseteq LeftAside'
    BY <1>2, <1>3, <1>4, <2>1, PlaceStays
  <2>3. Renamed'
    BY <1>2, <1>3, <1>4 DEF FilesInv, Renamed, At, Moved
  <2>4. BackedUp'
    BY <1>2, <1>3, <2>1, <2>2 DEF FilesInv, BackedUp, At, Moved
  <2> QED
    BY <2>2, <2>3, <2>4 DEF FilesInv
<1> QED
  BY <1>5, <1>6 DEF StorageInv

-----------------------------------------------------------------------------
(* Deletes. *)

\* Nobody else is inside the lock: no backup is between its copy of the
\* database and its list of the files.
LEMMA CommitDeleteStep ==
  ASSUME StorageInv, NEW r \in Request, CommitDelete(r)
  PROVE  StorageInv'
<1>1. StorageTypeOK /\ LockInv
  BY DEF StorageInv, LockInv
<1>2. /\ request[r].op = "delete" /\ request[r].phase = "commit" /\ UnderWay(r)
      /\ UNCHANGED <<folder, file, temp, staged, backup, loop>>
  BY DEF CommitDelete, At, UnderWay, Files
<1>3. CASE /\ request[r].id \in Active
           /\ row' = [row EXCEPT ![request[r].id] = "deleted"]
           /\ Goto(r, "unlink") /\ UNCHANGED holders
  <2>1. Moved(r, request[r].op, "unlink") /\ Kept(r)
    BY <1>1, <1>3, GotoMoves DEF Phases
  <2>2. Active' = Active \ {request[r].id}
    BY <1>1, <1>3 DEF Active, StorageTypeOK
  <2>3. LockInv'
    <3>1. TypedStores'
      BY <1>1, <1>2, <1>3 DEF StorageTypeOK, TypedStores
    <3>2. "unlink" \in PhaseOf(request[r].op) /\ ("unlink" \in Locked <=> request[r].phase \in Locked)
      BY <1>2 DEF PhaseOf, Locked
    <3>3. \A i \in Id : /\ row[i] = "none" => row'[i] = "none"
                        /\ row'[i] = "active" => row[i] = "active"
      BY <1>1, <1>3 DEF StorageTypeOK, Active
    <3> QED
      BY <1>1, <1>2, <1>3, <2>1, <2>2, <3>1, <3>2, <3>3, LockInvStep
  <2>4. FilesInv => FilesInv'
    <3> SUFFICES ASSUME FilesInv PROVE FilesInv'
      OBVIOUS
    <3>1. \A q \in Request \ {r} : request[q].phase \notin Locked
      BY <1>1, <1>2, AloneInside DEF Locked
    <3>2. InPlace' /\ Aside' /\ LeftAside \subseteq LeftAside'
      BY <1>2, <2>1, <2>2, PlaceStays
    <3>3. Renamed'
      BY <1>2, <2>1, <3>1 DEF FilesInv, Renamed, At, Moved, Locked
    <3>4. BackedUp'
      BY <1>2, <2>1, <3>1, <3>2 DEF FilesInv, BackedUp, At, Moved, Locked
    <3> QED
      BY <3>2, <3>3, <3>4 DEF FilesInv
  <2> QED
    BY <2>3, <2>4 DEF StorageInv
<1>4. CASE Finish(r) /\ UNCHANGED row
  BY <1>2, <1>4, QuietFinish DEF Emptying
<1> QED
  BY <1>3, <1>4 DEF CommitDelete

LEMMA UnlinkDeletedStep ==
  ASSUME StorageInv, NEW r \in Request, UnlinkDeleted(r)
  PROVE  StorageInv'
<1>1. StorageTypeOK /\ LockInv
  BY DEF StorageInv, LockInv
<1>2. /\ request[r].op = "delete" /\ request[r].phase = "unlink" /\ UnderWay(r)
      /\ file' \in {file \ {request[r].id}, file}
      /\ UNCHANGED <<row, folder, temp, staged, backup, loop>> /\ Finish(r)
  BY DEF UnlinkDeleted, At, UnderWay
<1>3. Moved(r, request[r].op, "done") /\ request'[r].id = Null /\ holders' = holders \ {r}
  BY <1>1, <1>2, FinishMoves DEF Finish
<1>4. request[r].id \notin Active
  BY <1>1, <1>2 DEF LockInv, Deletions, At
<1>5. LockInv'
  <2>1. TypedStores'
    BY <1>1, <1>2 DEF StorageTypeOK, TypedStores
  <2>2. "done" \in PhaseOf(request[r].op) /\ "done" \notin Locked
    BY <1>2 DEF PhaseOf, Locked
  <2> QED
    BY <1>1, <1>2, <1>3, <2>1, <2>2, LockInvStep
<1>6. FilesInv => FilesInv'
  <2> SUFFICES ASSUME FilesInv PROVE FilesInv'
    OBVIOUS
  <2>1. Active' = Active
    BY <1>2 DEF Active
  <2>2. \A q \in Request \ {r} : request[q].phase \notin Locked
    BY <1>1, <1>2, AloneInside DEF Locked
  <2>3. InPlace' /\ Aside' /\ LeftAside \subseteq LeftAside'
    BY <1>2, <1>3, <1>4, <2>1, PlaceStays
  <2>4. Renamed'
    BY <1>2, <1>3, <2>2 DEF FilesInv, Renamed, At, Moved, Locked
  <2>5. BackedUp'
    BY <1>2, <1>3, <2>2, <2>3 DEF FilesInv, BackedUp, At, Moved, Locked
  <2> QED
    BY <2>3, <2>4, <2>5 DEF FilesInv
<1> QED
  BY <1>5, <1>6 DEF StorageInv

-----------------------------------------------------------------------------
(* Backups. *)

\* Whoever makes a backup is alone in the lock.
LEMMA BackupAlone ==
  ASSUME StorageInv, NEW r \in Request, NEW phase \in {"snapshot", "list", "archive"},
         BackingUp(r, phase)
  PROVE  /\ request[r].op = "backup" /\ request[r].phase = phase /\ UnderWay(r)
         /\ \A q \in Request \ {r} : request[q].phase \notin Locked
         /\ \A q \in Request : ~Emptying(q)
<1>1. LockInv /\ Placed
  BY DEF StorageInv, LockInv
<1>2. request[r].op = "backup" /\ request[r].phase = phase
  BY <1>1 DEF BackingUp, At, Placed, ServerOperations
<1>3. UnderWay(r)
  BY <1>2 DEF UnderWay
<1>4. \A q \in Request \ {r} : request[q].phase \notin Locked
  BY <1>1, <1>2, AloneInside DEF Locked
<1>5. \A q \in Request : ~Emptying(q)
  BY <1>2, <1>4 DEF Emptying, MayPutBack, Locked
<1> QED
  BY <1>2, <1>3, <1>4, <1>5

LEMMA SnapshotStep ==
  ASSUME StorageInv, NEW r \in Request, Snapshot(r)
  PROVE  StorageInv'
<1>1. StorageTypeOK /\ LockInv
  BY DEF StorageInv, LockInv
<1>2. /\ request[r].op = "backup" /\ request[r].phase = "snapshot" /\ UnderWay(r)
      /\ \A q \in Request \ {r} : request[q].phase \notin Locked
      /\ \A q \in Request : ~Emptying(q)
  BY BackupAlone DEF Snapshot
<1>3. /\ UNCHANGED <<row, folder, file, temp, staged, backup, holders, loop>>
      /\ request' = [request EXCEPT ![r].phase = "list", ![r].rows = Active]
  BY DEF Snapshot, Files
<1>4. Moved(r, request[r].op, "list") /\ Kept(r) /\ request'[r].rows = Active
  <2> DEFINE next == [request[r] EXCEPT !.phase = "list", !.rows = Active]
  <2>1. request[r] \in RequestRecord /\ Active \subseteq Id
    BY <1>1 DEF StorageTypeOK, Active
  <2>2. /\ next \in RequestRecord /\ next.op = request[r].op /\ next.phase = "list"
        /\ next.id = request[r].id /\ next.rows = Active
    BY <2>1 DEF RequestRecord, Phases
  <2>3. request' = [request EXCEPT ![r] = next]
    BY <1>1, <1>3 DEF StorageTypeOK, RequestRecord
  <2> HIDE DEF next
  <2> QED
    BY <1>1, <2>2, <2>3 DEF Moved, Kept, StorageTypeOK
<1>5. LockInv'
  <2>1. TypedStores'
    BY <1>1, <1>3 DEF StorageTypeOK, TypedStores
  <2>2. "list" \in PhaseOf(request[r].op) /\ ("list" \in Locked <=> request[r].phase \in Locked)
    BY <1>2 DEF PhaseOf, Locked
  <2> QED
    BY <1>1, <1>2, <1>3, <1>4, <2>1, <2>2, LockInvStep
<1>6. FilesInv => FilesInv'
  <2> SUFFICES ASSUME FilesInv PROVE FilesInv'
    OBVIOUS
  <2>1. Active' = Active
    BY <1>3 DEF Active
  <2>2. InPlace' /\ Aside' /\ LeftAside \subseteq LeftAside'
    BY <1>2, <1>3, <1>4, <2>1, PlaceStays
  <2>3. Renamed'
    BY <1>2, <1>3, <1>4 DEF FilesInv, Renamed, At, Moved
  <2>4. BackedUp'
    BY <1>2, <1>3, <1>4, <2>1, <2>2 DEF FilesInv, BackedUp, At, Moved
  <2> QED
    BY <2>2, <2>3, <2>4 DEF FilesInv
<1> QED
  BY <1>5, <1>6 DEF StorageInv

\* The rows that were copied are active still, and have their files.
LEMMA ListFilesStep ==
  ASSUME StorageInv, NEW r \in Request, ListFiles(r)
  PROVE  StorageInv'
<1>1. StorageTypeOK /\ LockInv
  BY DEF StorageInv, LockInv
<1>2. /\ request[r].op = "backup" /\ request[r].phase = "list" /\ UnderWay(r)
      /\ \A q \in Request \ {r} : request[q].phase \notin Locked
      /\ \A q \in Request : ~Emptying(q)
  BY BackupAlone DEF ListFiles
<1>3. /\ UNCHANGED <<row, folder, file, temp, staged, backup, holders, loop>>
      /\ request' = [request EXCEPT ![r].phase = "archive", ![r].files = file]
  BY DEF ListFiles, Files
<1>4. /\ Moved(r, request[r].op, "archive") /\ Kept(r)
      /\ request'[r].rows = request[r].rows /\ request'[r].files = file
  <2> DEFINE next == [request[r] EXCEPT !.phase = "archive", !.files = file]
  <2>1. request[r] \in RequestRecord /\ file \subseteq Id
    BY <1>1 DEF StorageTypeOK
  <2>2. /\ next \in RequestRecord /\ next.op = request[r].op /\ next.phase = "archive"
        /\ next.id = request[r].id /\ next.rows = request[r].rows /\ next.files = file
    BY <2>1 DEF RequestRecord, Phases
  <2>3. request' = [request EXCEPT ![r] = next]
    BY <1>1, <1>3 DEF StorageTypeOK, RequestRecord
  <2> HIDE DEF next
  <2> QED
    BY <1>1, <2>2, <2>3 DEF Moved, Kept, StorageTypeOK
<1>5. LockInv'
  <2>1. TypedStores'
    BY <1>1, <1>3 DEF StorageTypeOK, TypedStores
  <2>2. "archive" \in PhaseOf(request[r].op) /\ ("archive" \in Locked <=> request[r].phase \in Locked)
    BY <1>2 DEF PhaseOf, Locked
  <2> QED
    BY <1>1, <1>2, <1>3, <1>4, <2>1, <2>2, LockInvStep
<1>6. FilesInv => FilesInv'
  <2> SUFFICES ASSUME FilesInv PROVE FilesInv'
    OBVIOUS
  <2>1. Active' = Active
    BY <1>3 DEF Active
  <2>2. request[r].rows \subseteq file \cup LeftAside
    BY <1>2 DEF FilesInv, InPlace, BackedUp, At
  <2>3. InPlace' /\ Aside' /\ LeftAside \subseteq LeftAside'
    BY <1>2, <1>3, <1>4, <2>1, PlaceStays
  <2>4. Renamed'
    BY <1>2, <1>3, <1>4 DEF FilesInv, Renamed, At, Moved
  <2>5. BackedUp'
    BY <1>2, <1>3, <1>4, <2>1, <2>2, <2>3 DEF FilesInv, BackedUp, At, Moved
  <2> QED
    BY <2>3, <2>4, <2>5 DEF FilesInv
<1> QED
  BY <1>5, <1>6 DEF StorageInv

LEMMA ArchiveStep ==
  ASSUME StorageInv, NEW r \in Request, Archive(r)
  PROVE  StorageInv'
<1>1. StorageTypeOK /\ LockInv
  BY DEF StorageInv, LockInv
<1>2. /\ request[r].op = "backup" /\ request[r].phase = "archive" /\ UnderWay(r)
      /\ \A q \in Request : ~Emptying(q)
  BY BackupAlone DEF Archive
<1>3. /\ Finish(r) /\ UNCHANGED <<row, folder, file, temp, staged, loop>>
      /\ backup' \in {backup, backup \cup {[rows |-> request[r].rows, files |-> request[r].files]}}
  BY DEF Archive, Files
<1>4. Moved(r, request[r].op, "done") /\ request'[r].id = Null /\ holders' = holders \ {r}
  BY <1>1, <1>3, FinishMoves DEF Finish
<1>5. LockInv'
  <2>1. TypedStores'
    BY <1>1, <1>3 DEF StorageTypeOK, TypedStores, RequestRecord
  <2>2. "done" \in PhaseOf(request[r].op) /\ "done" \notin Locked
    BY <1>2 DEF PhaseOf, Locked
  <2> QED
    BY <1>1, <1>2, <1>3, <1>4, <2>1, <2>2, LockInvStep
<1>6. FilesInv => FilesInv'
  <2> SUFFICES ASSUME FilesInv PROVE FilesInv'
    OBVIOUS
  <2>1. Active' = Active
    BY <1>3 DEF Active
  <2>2. request[r].rows \subseteq request[r].files \cup LeftAside
    BY <1>2 DEF FilesInv, BackedUp, At
  <2>3. InPlace' /\ Aside' /\ LeftAside \subseteq LeftAside'
    BY <1>2, <1>3, <1>4, <2>1, PlaceStays
  <2>4. Renamed'
    BY <1>2, <1>3, <1>4 DEF FilesInv, Renamed, At, Moved
  <2>5. BackedUp'
    BY <1>3, <1>4, <2>1, <2>2, <2>3 DEF FilesInv, BackedUp, At, Moved
  <2> QED
    BY <2>3, <2>4, <2>5 DEF FilesInv
<1> QED
  BY <1>5, <1>6 DEF StorageInv

-----------------------------------------------------------------------------
(* Delete-all. *)

\* Nobody else is inside the lock.
LEMMA DeleteAllAlone ==
  ASSUME StorageInv, NEW r \in Request, request[r].op = "delete_all", request[r].phase \in Locked
  PROVE  /\ UnderWay(r)
         /\ \A q \in Request \ {r} : request[q].phase \notin Locked /\ ~Emptying(q)
<1>1. \A q \in Request \ {r} : request[q].phase \notin Locked
  BY AloneInside DEF StorageInv
<1>2. MayPutBack \subseteq Locked
  BY DEF MayPutBack, Locked
<1> QED
  BY <1>1, <1>2 DEF Emptying, UnderWay, Locked

\* What others inside the lock would be about does not concern a delete-all.
LEMMA OthersStay ==
  ASSUME FilesInv, NEW r \in Request, NEW phase, Moved(r, "delete_all", phase),
         \A q \in Request \ {r} : request[q].phase \notin Locked,
         backup' = backup, LeftAside \subseteq LeftAside'
  PROVE  Renamed' /\ BackedUp'
<1>1. \A q \in Request, o \in {"upload", "backup"}, p \in {"commit", "list", "archive"} :
        ~At(q, o, p)'
  BY DEF At, Moved, Locked
<1>2. Renamed'
  BY <1>1 DEF Renamed, At
<1>3. \A b \in backup : b.rows \subseteq b.files \cup LeftAside
  BY DEF FilesInv, BackedUp
<1>4. BackedUp'
  BY <1>1, <1>3 DEF BackedUp, At
<1> QED
  BY <1>2, <1>4

\* As long as the staged directory stays, the bytes of the rows are in it,
\* whatever becomes of the new one.
LEMMA EmptyingStep ==
  ASSUME StorageInv, NEW r \in Request, Emptying(r),
         NEW phase \in MayPutBack \cup {"stranded"}, Moved(r, "delete_all", phase),
         Kept(r) \/ (phase = "stranded" /\ request'[r].id = Null),
         UNCHANGED <<row, staged, backup, loop>>,
         folder' \in BOOLEAN, file' \subseteq Id, temp' \subseteq Id,
         \/ phase # "stranded" /\ holders' = holders
         \/ phase = "stranded" /\ holders' = holders \ {r}
  PROVE  StorageInv'
<1>1. StorageTypeOK /\ LockInv
  BY DEF StorageInv, LockInv
<1>2. /\ request[r].op = "delete_all" /\ request[r].phase \in Locked /\ UnderWay(r)
      /\ \A q \in Request \ {r} : request[q].phase \notin Locked /\ ~Emptying(q)
  <2>1. request[r].op = "delete_all" /\ request[r].phase \in Locked
    BY DEF Emptying, MayPutBack, Locked
  <2> QED
    BY <2>1, DeleteAllAlone
<1>3. LockInv'
  <2>1. TypedStores'
    BY <1>1 DEF StorageTypeOK, TypedStores
  <2>2. /\ phase \in PhaseOf(request[r].op) /\ phase \notin {"idle", "unlink", "purge"}
        /\ phase \in Locked <=> phase # "stranded"
    BY <1>2 DEF PhaseOf, MayPutBack, Locked
  <2>3. \/ phase \notin Locked /\ holders' = holders \ {r}
        \/ holders' = holders /\ (phase \in Locked <=> request[r].phase \in Locked)
    BY <1>2, <2>2
  <2>4. \A i \in Id : /\ row[i] = "none" => row'[i] = "none"
                      /\ row'[i] = "active" => row[i] = "active"
    OBVIOUS
  <2>5. Kept(r) \/ (phase \in {"done", "stranded"} /\ request'[r].id = Null)
    OBVIOUS
  <2> QED
    BY <1>1, <1>2, <2>1, <2>2, <2>3, <2>4, <2>5, LockInvStep
<1>4. FilesInv => FilesInv'
  <2> SUFFICES ASSUME FilesInv PROVE FilesInv'
    OBVIOUS
  <2>1. Active' = Active /\ Active \subseteq staged[r].file \cup LeftAside
    BY DEF FilesInv, Aside, Active
  <2>2. LeftAside \subseteq LeftAside'
    BY <1>2, LeftAsideStays
  <2>3. CASE phase \in MayPutBack
    <3>1. \A q \in Request : Emptying(q)' <=> q = r
      BY <1>2, <2>3 DEF Emptying, Moved
    <3> QED
      BY <1>2, <2>1, <2>2, <3>1, OthersStay DEF FilesInv, InPlace, Aside
  <2>4. CASE phase = "stranded"
    <3>1. \A q \in Request : ~Emptying(q)'
      BY <1>2, <2>4 DEF Emptying, Moved, MayPutBack
    <3>2. staged'[r].file \subseteq LeftAside'
      BY <2>4 DEF LeftAside, AsideIn, Moved
    <3> QED
      BY <1>2, <2>1, <2>2, <3>1, <3>2, OthersStay DEF FilesInv, InPlace, Aside
  <2> QED
    BY <2>3, <2>4
<1> QED
  BY <1>3, <1>4 DEF StorageInv

LEMMA StageDirectoryStep ==
  ASSUME StorageInv, NEW r \in Request, StageDirectory(r)
  PROVE  StorageInv'
<1>1. StorageTypeOK /\ LockInv
  BY DEF StorageInv, LockInv
<1>2. /\ request[r].op = "delete_all" /\ request[r].phase = "stage" /\ UnderWay(r)
      /\ ~Emptying(r) /\ UNCHANGED <<row, backup, loop>>
  BY DEF StageDirectory, At, UnderWay, Emptying, MayPutBack
<1>3. \A q \in Request \ {r} : request[q].phase \notin Locked /\ ~Emptying(q)
  BY <1>2, DeleteAllAlone DEF Locked
<1>4. CASE Move(r) /\ Goto(r, "root") /\ UNCHANGED holders
  <2>1. Moved(r, request[r].op, "root") /\ Kept(r)
    BY <1>1, <1>4, GotoMoves DEF Phases
  <2>2. /\ staged' = [staged EXCEPT ![r] = [folder |-> folder, file |-> file, temp |-> temp]]
        /\ folder' = FALSE /\ file' = {} /\ temp' = {}
    BY <1>4 DEF Move
  <2>3. staged'[r].file = file /\ \A q \in Request \ {r} : staged'[q] = staged[q]
    BY <1>1, <2>2 DEF StorageTypeOK
  <2>4. LockInv'
    <3>1. TypedStores'
      BY <1>1, <1>2, <2>2 DEF StorageTypeOK, TypedStores, Directory
    <3>2. "root" \in PhaseOf(request[r].op) /\ ("root" \in Locked <=> request[r].phase \in Locked)
      BY <1>2 DEF PhaseOf, Locked
    <3> QED
      BY <1>1, <1>2, <1>4, <2>1, <3>1, <3>2, LockInvStep
  <2>5. FilesInv => FilesInv'
    <3> SUFFICES ASSUME FilesInv PROVE FilesInv'
      OBVIOUS
    <3>1. Active' = Active /\ Active \subseteq file \cup LeftAside
      BY <1>2, <1>3 DEF FilesInv, InPlace, Active
    <3>2. LeftAside \subseteq LeftAside'
      BY <1>2, <2>1, <2>3, LeftAsideStays
    <3>3. \A q \in Request : Emptying(q)' <=> q = r
      BY <1>2, <1>3, <2>1 DEF Emptying, Moved, MayPutBack
    <3>4. InPlace' /\ Aside'
      BY <2>3, <3>1, <3>2, <3>3 DEF InPlace, Aside
    <3>5. Renamed' /\ BackedUp'
      BY <1>2, <1>3, <2>1, <3>2, OthersStay
    <3> QED
      BY <3>4, <3>5 DEF FilesInv
  <2> QED
    BY <2>4, <2>5 DEF StorageInv
<1>5. CASE Finish(r) /\ UNCHANGED Files
  BY <1>2, <1>5, QuietFinish DEF Files
<1> QED
  BY <1>4, <1>5 DEF StageDirectory

\* A step that moves to another phase of a delete-all that may put back.
LEMMA EmptyingGoes ==
  ASSUME StorageInv, NEW r \in Request, Emptying(r),
         NEW phase \in MayPutBack, Goto(r, phase),
         UNCHANGED <<row, staged, backup, loop, holders>>,
         folder' \in BOOLEAN, file' \subseteq Id, temp' \subseteq Id
  PROVE  StorageInv'
<1>1. phase \in Phases /\ phase # "stranded"
  BY DEF MayPutBack, Phases
<1>2. Moved(r, "delete_all", phase) /\ Kept(r)
  BY <1>1, GotoMoves DEF StorageInv, LockInv, Emptying
<1> QED
  BY <1>1, <1>2, EmptyingStep

\* One that gives up.
LEMMA EmptyingStrands ==
  ASSUME StorageInv, NEW r \in Request, Emptying(r), Strand(r),
         UNCHANGED <<row, Files, backup, loop>>
  PROVE  StorageInv'
<1>1. StorageTypeOK
  BY DEF StorageInv, LockInv
<1>2. Moved(r, "delete_all", "stranded") /\ request'[r].id = Null /\ holders' = holders \ {r}
  BY <1>1, StrandMoves DEF Emptying, Strand
<1>3. /\ UNCHANGED <<row, staged, backup, loop>>
      /\ folder' \in BOOLEAN /\ file' \subseteq Id /\ temp' \subseteq Id
  BY <1>1 DEF Files, StorageTypeOK
<1> QED
  BY <1>2, <1>3, EmptyingStep

LEMMA MakeRootStep ==
  ASSUME StorageInv, NEW r \in Request, MakeRoot(r)
  PROVE  StorageInv'
<1>1. Emptying(r) /\ UNCHANGED <<row, Files, backup, loop>>
  BY DEF MakeRoot, At, Emptying, MayPutBack
<1>2. CASE Goto(r, "others") /\ UNCHANGED holders
  BY <1>1, <1>2, EmptyingGoes DEF MayPutBack, Files, StorageInv, LockInv, StorageTypeOK
<1>3. CASE Strand(r)
  BY <1>1, <1>3, EmptyingStrands
<1> QED
  BY <1>2, <1>3 DEF MakeRoot

LEMMA StageOthersStep ==
  ASSUME StorageInv, NEW r \in Request, StageOthers(r)
  PROVE  StorageInv'
<1>1. /\ Emptying(r) /\ UNCHANGED <<row, Files, backup, holders, loop>>
      /\ \E phase \in {"commit", "clear"} : Goto(r, phase)
  BY DEF StageOthers, At, Emptying, MayPutBack
<1> QED
  BY <1>1, EmptyingGoes DEF MayPutBack, Files, StorageInv, LockInv, StorageTypeOK

LEMMA CommitDeleteAllStep ==
  ASSUME StorageInv, NEW r \in Request, CommitDeleteAll(r)
  PROVE  StorageInv'
<1>1. StorageTypeOK /\ LockInv
  BY DEF StorageInv, LockInv
<1>2. /\ request[r].op = "delete_all" /\ request[r].phase = "commit" /\ Emptying(r)
      /\ UNCHANGED <<folder, file, temp, staged, backup, holders, loop>>
  BY DEF CommitDeleteAll, At, Emptying, MayPutBack, Files
<1>3. UnderWay(r) /\ \A q \in Request \ {r} : request[q].phase \notin Locked /\ ~Emptying(q)
  BY <1>2, DeleteAllAlone DEF Locked
<1>4. CASE row' = [i \in Id |-> "none"] /\ Goto(r, "purge")
  <2>1. Moved(r, request[r].op, "purge") /\ Kept(r)
    BY <1>1, <1>4, GotoMoves DEF Phases
  <2>2. Active' = {}
    BY <1>4 DEF Active
  <2>3. LockInv'
    <3>1. TypedStores'
      BY <1>1, <1>2, <1>4 DEF StorageTypeOK, TypedStores
    <3>2. "purge" \in PhaseOf(request[r].op) /\ ("purge" \in Locked <=> request[r].phase \in Locked)
      BY <1>2 DEF PhaseOf, Locked
    <3> QED
      BY <1>1, <1>2, <1>3, <1>4, <2>1, <2>2, <3>1, <3>2, LockInvStep
  <2>4. FilesInv => FilesInv'
    <3>1. LeftAside \subseteq LeftAside'
      BY <1>2, <1>3, <2>1, LeftAsideStays
    <3>2. InPlace' /\ Aside'
      BY <2>2 DEF InPlace, Aside
    <3> QED
      BY <1>2, <1>3, <2>1, <3>1, <3>2, OthersStay DEF FilesInv
  <2> QED
    BY <2>3, <2>4 DEF StorageInv
<1>5. CASE Goto(r, "clear") /\ UNCHANGED row
  BY <1>1, <1>2, <1>5, EmptyingGoes DEF MayPutBack, StorageTypeOK
<1> QED
  BY <1>4, <1>5 DEF CommitDeleteAll

LEMMA ClearRootStep ==
  ASSUME StorageInv, NEW r \in Request, ClearRoot(r)
  PROVE  StorageInv'
<1>1. StorageTypeOK
  BY DEF StorageInv, LockInv
<1>2. Emptying(r) /\ UNCHANGED <<row, backup, loop>>
  BY DEF ClearRoot, At, Emptying, MayPutBack
<1>3. CASE /\ folder' = FALSE /\ file' = {} /\ temp' = {}
           /\ Goto(r, "putback") /\ UNCHANGED <<staged, holders>>
  BY <1>2, <1>3, EmptyingGoes DEF MayPutBack
<1>4. CASE Strand(r) /\ UNCHANGED Files
  BY <1>2, <1>4, EmptyingStrands
<1>5. CASE Goto(r, "putback") /\ UNCHANGED holders /\ UNCHANGED Files
  BY <1>1, <1>2, <1>5, EmptyingGoes DEF MayPutBack, Files, StorageTypeOK
<1> QED
  BY <1>3, <1>4, <1>5 DEF ClearRoot

LEMMA PutBackStep ==
  ASSUME StorageInv, NEW r \in Request, PutBack(r)
  PROVE  StorageInv'
<1>1. StorageTypeOK /\ LockInv
  BY DEF StorageInv, LockInv
<1>2. /\ request[r].op = "delete_all" /\ request[r].phase = "putback" /\ Emptying(r)
      /\ UNCHANGED <<row, backup, loop>>
  BY DEF PutBack, At, Emptying, MayPutBack
<1>3. UnderWay(r) /\ \A q \in Request \ {r} : request[q].phase \notin Locked /\ ~Emptying(q)
  BY <1>2, DeleteAllAlone DEF Locked
<1>4. CASE /\ folder' = staged[r].folder /\ file' = staged[r].file /\ temp' = staged[r].temp
           /\ staged' = [staged EXCEPT ![r] = NoDirectory] /\ Finish(r)
  <2>1. Moved(r, request[r].op, "done") /\ request'[r].id = Null /\ holders' = holders \ {r}
    BY <1>1, <1>4, FinishMoves DEF Finish
  <2>2. LockInv'
    <3>0. NoDirectory \in Directory /\ staged[r] \in Directory
      BY <1>1 DEF Directory, NoDirectory, StorageTypeOK
    <3>1. TypedStores'
      BY <1>1, <1>2, <1>4, <3>0 DEF StorageTypeOK, TypedStores, Directory
    <3>2. "done" \in PhaseOf(request[r].op) /\ "done" \notin Locked
      BY <1>2 DEF PhaseOf, Locked
    <3> QED
      BY <1>1, <1>2, <1>3, <2>1, <3>1, <3>2, LockInvStep
  <2>3. FilesInv => FilesInv'
    <3> SUFFICES ASSUME FilesInv PROVE FilesInv'
      OBVIOUS
    <3>1. Active' = Active /\ Active \subseteq file' \cup LeftAside
      BY <1>2, <1>4 DEF FilesInv, Aside, Active
    <3>2. \A q \in Request \ {r} : staged'[q] = staged[q]
      BY <1>1, <1>4 DEF StorageTypeOK
    <3>3. LeftAside \subseteq LeftAside'
      BY <1>3, <2>1, <3>2, LeftAsideStays
    <3>4. \A q \in Request : ~Emptying(q)'
      BY <1>3, <2>1 DEF Emptying, Moved, MayPutBack
    <3>5. InPlace' /\ Aside'
      BY <3>1, <3>3, <3>4 DEF InPlace, Aside
    <3>6. Renamed' /\ BackedUp'
      BY <1>2, <1>3, <2>1, <3>3, OthersStay
    <3> QED
      BY <3>5, <3>6 DEF FilesInv
  <2> QED
    BY <2>2, <2>3 DEF StorageInv
<1>5. CASE Strand(r) /\ UNCHANGED Files
  BY <1>2, <1>5, EmptyingStrands
<1> QED
  BY <1>4, <1>5 DEF PutBack

LEMMA PurgeStagedStep ==
  ASSUME StorageInv, NEW r \in Request, PurgeStaged(r)
  PROVE  StorageInv'
<1>1. StorageTypeOK /\ LockInv
  BY DEF StorageInv, LockInv
<1>2. /\ request[r].op = "delete_all" /\ request[r].phase = "purge"
      /\ staged' \in {[staged EXCEPT ![r] = NoDirectory], staged} /\ Finish(r)
      /\ UNCHANGED <<row, folder, file, temp, backup, loop>>
  BY DEF PurgeStaged, At
<1>3. UnderWay(r) /\ \A q \in Request \ {r} : request[q].phase \notin Locked /\ ~Emptying(q)
  BY <1>2, DeleteAllAlone DEF Locked
<1>4. Moved(r, request[r].op, "done") /\ request'[r].id = Null /\ holders' = holders \ {r}
  BY <1>1, <1>2, FinishMoves DEF Finish
<1>5. LockInv'
  <2>0. NoDirectory \in Directory
    BY DEF Directory, NoDirectory
  <2>1. TypedStores'
    BY <1>1, <1>2, <2>0 DEF StorageTypeOK, TypedStores
  <2>2. "done" \in PhaseOf(request[r].op) /\ "done" \notin Locked
    BY <1>2 DEF PhaseOf, Locked
  <2> QED
    BY <1>1, <1>2, <1>3, <1>4, <2>1, <2>2, LockInvStep
<1>6. FilesInv => FilesInv'
  <2>1. Active' = {}
    BY <1>1, <1>2 DEF LockInv, Emptied, Active, At
  <2>2. \A q \in Request \ {r} : staged'[q] = staged[q]
    BY <1>1, <1>2 DEF StorageTypeOK
  <2>3. LeftAside \subseteq LeftAside'
    BY <1>3, <1>4, <2>2, LeftAsideStays
  <2>4. InPlace' /\ Aside'
    BY <2>1 DEF InPlace, Aside
  <2> QED
    BY <1>2, <1>3, <1>4, <2>3, <2>4, OthersStay DEF FilesInv
<1> QED
  BY <1>5, <1>6 DEF StorageInv

-----------------------------------------------------------------------------
(* The process dies. *)

\* What a delete-all that is killed has staged is left aside.
LEMMA CrashStep ==
  ASSUME StorageInv, Crash
  PROVE  StorageInv'
<1>1. StorageTypeOK /\ LockInv /\ Placed
  BY DEF StorageInv, LockInv
<1>2. /\ holders' = {} /\ loop' = Null
      /\ UNCHANGED <<row, folder, file, temp, staged, backup>>
  BY DEF Crash, Files
<1>3. \A op \in Operations :
        LET killed == [Idle EXCEPT !.op = op, !.phase = "killed"]
        IN  /\ killed \in RequestRecord
            /\ killed.op = op /\ killed.phase = "killed" /\ killed.id = Null
  BY IdleType DEF RequestRecord, Phases, Idle
<1>4. request' \in [Request -> RequestRecord]
  BY <1>1, <1>3 DEF Crash, StorageTypeOK, RequestRecord
<1>5. \A r \in Request : UnderWay(r) =>
        request'[r].op = request[r].op /\ request'[r].phase = "killed" /\ request'[r].id = Null
  BY <1>1, <1>3 DEF Crash, StorageTypeOK, RequestRecord, Placed, ServerOperations
<1>6. \A r \in Request : ~UnderWay(r) =>
        request'[r] = request[r] /\ request[r].phase \in {"idle", "done", "stranded", "killed"}
  BY <1>1 DEF Crash, UnderWay
<1>7. \A r \in Request : request'[r].phase \in {"idle", "done", "stranded", "killed"}
  BY <1>5, <1>6
<1>8. Active' = Active
  BY <1>2 DEF Active
<1>9. LockInv'
  <2>1. StorageTypeOK'
    BY <1>1, <1>2, <1>4 DEF StorageTypeOK
  <2>2. Placed'
    BY <1>1, <1>5, <1>6 DEF Placed, PhaseOf, ServerOperations
  <2>3. LockHeld' /\ LockExclusive'
    BY <1>2, <1>7 DEF LockHeld, LockExclusive, Locked
  <2>4. OwnIdentifier'
    BY <1>7 DEF OwnIdentifier, Uploading, UnderWay
  <2>5. Deletions' /\ Emptied'
    BY <1>7 DEF Deletions, Emptied, UnderWay, At
  <2> QED
    BY <2>1, <2>2, <2>3, <2>4, <2>5 DEF LockInv
<1>10. FilesInv => FilesInv'
  <2> SUFFICES ASSUME FilesInv PROVE FilesInv'
    OBVIOUS
  <2>1. \A q \in Request : Lost(q) \/ Emptying(q) => Lost(q)'
    BY <1>5, <1>6 DEF Lost, Emptying, UnderWay, MayPutBack
  <2>2. \A q \in Request : Lost(q) \/ Emptying(q) => staged[q].file \subseteq LeftAside'
    BY <1>2, <2>1 DEF LeftAside, AsideIn, Lost
  <2>3. LeftAside \subseteq LeftAside'
    BY <2>2 DEF LeftAside, AsideIn, Lost
  <2>4. Active \subseteq file \cup LeftAside'
    BY <2>2, <2>3 DEF FilesInv, InPlace, Aside
  <2>5. \A q \in Request : ~Emptying(q)'
    BY <1>7 DEF Emptying, MayPutBack
  <2>6. InPlace' /\ Aside'
    BY <1>2, <1>8, <2>4, <2>5 DEF InPlace, Aside
  <2>7. Renamed'
    BY <1>7 DEF Renamed, At
  <2>8. BackedUp'
    BY <1>2, <1>7, <2>3 DEF FilesInv, BackedUp, At
  <2> QED
    BY <2>6, <2>7, <2>8 DEF FilesInv
<1> QED
  BY <1>9, <1>10 DEF StorageInv

-----------------------------------------------------------------------------

\* The invariant holds before the first request.
LEMMA StorageInitInv ==
  ASSUME StorageInit
  PROVE  StorageInv
<1>1. /\ row = [i \in Id |-> "none"] /\ folder = FALSE /\ file = {} /\ temp = {}
      /\ staged = [q \in Request |-> NoDirectory] /\ backup = {} /\ holders = {} /\ loop = Null
      /\ request = [r \in Request |-> Idle]
  BY DEF StorageInit
<1>2. NoDirectory \in Directory
  BY DEF Directory, NoDirectory
<1>3. StorageTypeOK
  BY <1>1, <1>2, IdleType DEF StorageTypeOK
<1>4. \A r \in Request : request[r].op = "upload" /\ request[r].phase = "idle"
  BY <1>1 DEF Idle
<1>5. Active = {}
  BY <1>1 DEF Active
<1>6. Placed /\ LockHeld /\ LockExclusive
  BY <1>1, <1>4 DEF Placed, PhaseOf, ServerOperations, LockHeld, LockExclusive, Locked
<1>7. OwnIdentifier /\ Deletions /\ Emptied
  BY <1>4 DEF OwnIdentifier, Deletions, Emptied, Uploading, UnderWay, At
<1>8. FilesInv
  BY <1>1, <1>4, <1>5 DEF FilesInv, InPlace, Aside, Emptying, Renamed, BackedUp, At
<1> QED
  BY <1>3, <1>6, <1>7, <1>8 DEF StorageInv, LockInv

\* The demo data and the backup command never start.
LEMMA ServerBegins ==
  ASSUME Operation \subseteq ServerOperations, StorageInv, NEW r \in Request, Begin(r)
  PROVE  StorageInv'
<1>1. \/ BeginUpload(r)
      \/ \E i \in Active : BeginWorker(r, "delete", "want", i)
      \/ BeginWorker(r, "backup", "want", Null)
      \/ BeginWorker(r, "delete_all", "want", Null)
  BY DEF Begin, BeginDelete, BeginBackup, BeginDeleteAll, ServerOperations
<1>2. Active \subseteq Id
  BY DEF Active
<1> QED
  BY <1>1, <1>2, UploadBegins, WorkerBegins

LEMMA ServerSteps ==
  ASSUME StorageInv, NEW r \in Request, Step(r)
  PROVE  StorageInv'
<1>1. CASE Upload(r)
  BY <1>1, WaitOnLoopStep, OpenUploadStep, ReadUploadStep, RenameUploadStep,
     CommitUploadStep, CleanupUploadStep DEF Upload
<1>2. CASE Delete(r)
  BY <1>2, EnterStep, CommitDeleteStep, UnlinkDeletedStep DEF Delete
<1>3. CASE Backup(r)
  BY <1>3, EnterStep, SnapshotStep, ListFilesStep, ArchiveStep DEF Backup
<1>4. CASE DeleteAll(r)
  BY <1>4, EnterStep, StageDirectoryStep, MakeRootStep, StageOthersStep, CommitDeleteAllStep,
     ClearRootStep, PutBackStep, PurgeStagedStep DEF DeleteAll
<1>5. ~Load(r) /\ ~Reset(r)
  BY DEF StorageInv, LockInv, Placed, ServerOperations, Load, CopyDemo, ReadDemo, CommitLoad,
         CleanupLoad, Reset, CommitReset, RemoveDemoFiles, At
<1> QED
  BY <1>1, <1>2, <1>3, <1>4, <1>5 DEF Step

LEMMA StorageStutters ==
  ASSUME StorageInv, UNCHANGED storageVars
  PROVE  StorageInv'
BY DEF storageVars, StorageInv, LockInv, StorageTypeOK, Placed, LockHeld, LockExclusive, OnLoop,
       OwnIdentifier, Uploading, UnderWay, Deletions, Emptied, FilesInv, InPlace, Aside,
       Emptying, LeftAside, AsideIn, Renamed, BackedUp, Active, At

\* The invariant holds for ever, for every number of requests.
LEMMA StorageInvariance ==
  ASSUME Operation \subseteq ServerOperations
  PROVE  StorageSpec => []StorageInv
<1>1. StorageInit => StorageInv
  BY StorageInitInv
<1>2. StorageInv /\ [StorageNext]_storageVars => StorageInv'
  BY CrashStep, ServerBegins, ServerSteps, StorageStutters DEF StorageNext
<1> QED
  BY <1>1, <1>2, PTL DEF StorageSpec

\* The bytes of every attachment the API shows are where download looks for
\* them, or in the staged directory of a delete-all: one that is under way and
\* has not emptied the database, one that was killed, or one whose putting back
\* has raised.  Whatever calls raise, however many uploads share the lock, and
\* whenever the process dies, they are nowhere else and never gone.
THEOREM RowsKeepFiles ==
  ASSUME Operation \subseteq ServerOperations
  PROVE  StorageSpec => []RowHasFile
<1>1. StorageInv => RowHasFile
  <2> SUFFICES ASSUME StorageInv PROVE RowHasFile
    OBVIOUS
  <2>1. \A r \in Request : Emptying(r) => staged[r].file \subseteq AsideIn(MayPutBack)
    BY DEF AsideIn, Emptying
  <2> QED
    BY <2>1 DEF StorageInv, FilesInv, InPlace, Aside, RowHasFile
<1> QED
  BY <1>1, StorageInvariance, PTL

\* A backup the server reports as verified holds the bytes of every
\* attachment its copy of the database names, but for those a delete-all that
\* was killed, or could not put them back, has left in its staged directory:
\* no other step of any request makes a backup miss bytes.
THEOREM BackupsConsistent ==
  ASSUME Operation \subseteq ServerOperations
  PROVE  StorageSpec => []BackupConsistent
<1>1. StorageInv => BackupConsistent
  BY DEF StorageInv, FilesInv, BackedUp, BackupConsistent
<1> QED
  BY <1>1, StorageInvariance, PTL

-----------------------------------------------------------------------------
(* All operations, the demo data and the backup command among them: the    *)
(* lock, and what is responsible for bytes that have no row.               *)

Inside(r) == request[r].op \in ServerOperations /\ request[r].phase \in Locked

TypedLock ==
  /\ StorageTypeOK /\ LockExclusive
  /\ \A r \in Request : r \in holders <=> Inside(r)
  /\ \A r \in Request : Uploading(r) => request[r].id \in Id

LEMMA TypedLockStep ==
  ASSUME TypedLock, NEW r \in Request, NEW op, NEW phase, Moved(r, op, phase), TypedStores',
         Uploading(r)' => request'[r].id \in Id,
         \/ /\ op = request[r].op /\ op \in ServerOperations /\ phase \in Locked
            /\ MayEnter(r) /\ holders' = holders \cup {r}
         \/ /\ op \in ServerOperations => phase \notin Locked
            /\ holders' = holders \ {r}
         \/ /\ op = request[r].op /\ (phase \in Locked <=> request[r].phase \in Locked)
            /\ holders' = holders
  PROVE  TypedLock'
<1>1. /\ holders \subseteq Request /\ LockExclusive
      /\ \A q \in Request : q \in holders <=> Inside(q)
  BY DEF TypedLock, StorageTypeOK
<1>2. \A q \in Request : (q \in holders <=> Inside(q))'
  BY <1>1 DEF Inside, Moved
<1>3. LockExclusive'
  BY <1>1 DEF LockExclusive, Inside, OnLoop, Moved, MayEnter
<1>4. StorageTypeOK'
  BY <1>1, <1>2 DEF StorageTypeOK, TypedStores, Moved, Inside
<1>5. \A q \in Request : (Uploading(q) => request[q].id \in Id)'
  BY DEF TypedLock, Uploading, UnderWay, Moved
<1> QED
  BY <1>2, <1>3, <1>4, <1>5 DEF TypedLock

\* What removes the bytes of i, or gives them a row, before it is over.
Owns(r, i) ==
  \/ Uploading(r) /\ request[r].id = i
  \/ At(r, "delete", "unlink") /\ request[r].id = i
  \/ i \in Demo /\ request[r].op = "load" /\ request[r].phase \in {"rows", "commit", "cleanup"}
  \/ i \in Demo /\ At(r, "reset", "cleanup")

Partial(r, i) ==
  /\ request[r].op = "upload" /\ request[r].phase \in {"read", "rename", "cleanup"}
  /\ request[r].id = i

Holding(r) ==
  request[r].op = "delete_all" /\ request[r].phase \in {"root", "others", "commit", "purge"}

\* While delete-all empties the database, nobody brings in new bytes.
Cleared == \A r \in Request : Emptying(r) => file = {} /\ temp = {}

\* No delete-all has anything to put back.
Unfailed == \A r \in Request : ~At(r, "delete_all", "clear") /\ ~At(r, "delete_all", "putback")

BytesInv ==
  /\ \A i \in file : i \in Active \/ \E r \in Request : Owns(r, i)
  /\ \A i \in temp : \E r \in Request : Partial(r, i)
  /\ \A r \in Request : staged[r] # NoDirectory => Holding(r)
  /\ Cleared /\ Unfailed

\* What a request leaves behind without a row, it takes over or took over
\* from no other request.
LEMMA BytesStep ==
  ASSUME BytesInv, NEW r \in Request, NEW op, NEW phase, Moved(r, op, phase),
         \A i \in file' : \/ i \in Active' \/ Owns(r, i)'
                          \/ i \in file /\ i \notin Active /\ ~Owns(r, i),
         \A i \in temp' : Partial(r, i)' \/ (i \in temp /\ ~Partial(r, i)),
         \A q \in Request \ {r} : staged'[q] = staged[q],
         staged'[r] # NoDirectory => Holding(r)' \/ (staged[r] # NoDirectory /\ ~Holding(r)),
         op = "delete_all" => phase \notin {"clear", "putback"},
         Cleared'
  PROVE  BytesInv'
<1>1. ASSUME NEW q \in Request \ {r}
      PROVE  /\ \A i : (Owns(q, i)' <=> Owns(q, i)) /\ (Partial(q, i)' <=> Partial(q, i))
             /\ Holding(q)' <=> Holding(q)
  <2>1. request'[q] = request[q]
    BY DEF Moved
  <2> QED
    BY <2>1 DEF Owns, Partial, Holding, Uploading, UnderWay, At
<1>2. ASSUME NEW i \in file', i \notin Active' PROVE \E q \in Request : Owns(q, i)'
  <2>1. CASE i \in file /\ i \notin Active /\ ~Owns(r, i)
    <3>1. PICK q \in Request : Owns(q, i)
      BY <2>1 DEF BytesInv
    <3> QED
      BY <1>1, <2>1, <3>1
  <2> QED
    BY <1>2, <2>1
<1>3. ASSUME NEW i \in temp' PROVE \E q \in Request : Partial(q, i)'
  <2>1. CASE i \in temp /\ ~Partial(r, i)
    <3>1. PICK q \in Request : Partial(q, i)
      BY <2>1 DEF BytesInv
    <3> QED
      BY <1>1, <2>1, <3>1
  <2> QED
    BY <1>3, <2>1
<1>4. ASSUME NEW q \in Request, staged'[q] # NoDirectory PROVE Holding(q)'
  <2>1. CASE q = r
    BY <1>4, <2>1 DEF BytesInv
  <2>2. CASE q # r
    BY <1>1, <1>4, <2>2 DEF BytesInv
  <2> QED
    BY <2>1, <2>2
<1>5. Unfailed'
  BY DEF BytesInv, Unfailed, At, Moved
<1> QED
  BY <1>2, <1>3, <1>4, <1>5 DEF BytesInv

\* Files may come in only while no delete-all is about to empty the database.
LEMMA ClearedStep ==
  ASSUME TypedLock, Cleared, NEW r \in Request, NEW op, NEW phase, Moved(r, op, phase),
         (op = "delete_all" /\ phase \in MayPutBack) => file' = {} /\ temp' = {},
         \/ file' \subseteq file /\ temp' \subseteq temp
         \/ MayEnter(r)
         \/ Inside(r)
  PROVE  Cleared'
<1> SUFFICES ASSUME NEW q \in Request \ {r}, Emptying(q)'
             PROVE  file' = {} /\ temp' = {}
  BY DEF Cleared, Emptying, Moved
<1>1. Emptying(q) /\ file = {} /\ temp = {}
  BY DEF Cleared, Emptying, Moved
<1>2. q \in holders /\ ~OnLoop(q)
  BY <1>1 DEF TypedLock, Inside, Emptying, MayPutBack, OnLoop, ServerOperations, Locked
<1>3. ~MayEnter(r)
  BY <1>2 DEF MayEnter
<1>4. ~Inside(r)
  BY <1>2 DEF TypedLock, LockExclusive
<1> QED
  BY <1>1, <1>3, <1>4

-----------------------------------------------------------------------------
(* Requests begin, and take the lock. *)

\* A step that leaves rows and files alone.
LEMMA IdleBytes ==
  ASSUME TypedLock, BytesInv, NEW r \in Request, NEW op, NEW phase, Moved(r, op, phase),
         UNCHANGED <<row, file, temp, staged>>,
         op = "delete_all" => phase \notin MayPutBack,
         \A i : (Owns(r, i) /\ i \notin Active) => Owns(r, i)',
         \A i : Partial(r, i) => Partial(r, i)',
         Holding(r) => Holding(r)'
  PROVE  BytesInv'
<1>1. Active' = Active
  BY DEF Active
<1>2. Cleared'
  BY ClearedStep DEF BytesInv
<1>3. \A i \in file' : \/ i \in Active' \/ Owns(r, i)'
                       \/ i \in file /\ i \notin Active /\ ~Owns(r, i)
  BY <1>1
<1>4. \A i \in temp' : Partial(r, i)' \/ (i \in temp /\ ~Partial(r, i))
  OBVIOUS
<1>5. staged'[r] # NoDirectory => Holding(r)' \/ (staged[r] # NoDirectory /\ ~Holding(r))
  OBVIOUS
<1>6. op = "delete_all" => phase \notin {"clear", "putback"}
  BY DEF MayPutBack
<1> QED
  BY <1>2, <1>3, <1>4, <1>5, <1>6, BytesStep

LEMMA BeginKeeps ==
  ASSUME TypedLock, NEW r \in Request, Begin(r)
  PROVE  TypedLock' /\ (BytesInv => BytesInv')
<1>1. StorageTypeOK /\ Active \subseteq Id
  BY DEF TypedLock, Active
<1>2. ASSUME NEW op \in Operations, NEW phase \in Phases, NEW i \in Id \cup {Null},
             request' = [request EXCEPT ![r] = [Idle EXCEPT !.op = op, !.phase = phase, !.id = i]],
             request[r].phase = "idle",
             op \in ServerOperations => phase \notin Locked,
             op = "upload" => i \in Id,
             folder' \in BOOLEAN,
             UNCHANGED <<row, file, temp, staged, backup, holders, loop>>
      PROVE  TypedLock' /\ (BytesInv => BytesInv')
  <2>1. Moved(r, op, phase) /\ request'[r].id = i
    BY <1>1, <1>2, BeginMoves
  <2>2. r \notin holders
    BY <1>2 DEF TypedLock, Inside, Locked
  <2>3. holders' = holders \ {r}
    BY <1>2, <2>2
  <2>4. TypedStores' /\ (Uploading(r)' => request'[r].id \in Id)
    BY <1>1, <1>2, <2>1 DEF StorageTypeOK, TypedStores, Uploading, UnderWay, Moved
  <2>5. TypedLock'
    BY <1>2, <2>1, <2>3, <2>4, TypedLockStep
  <2>6. \A j : ~Owns(r, j) /\ ~Partial(r, j) /\ ~Holding(r)
    BY <1>2 DEF Owns, Partial, Holding, Uploading, UnderWay, At
  <2>7. op = "delete_all" => phase \notin MayPutBack
    BY <1>2 DEF ServerOperations, Locked, MayPutBack
  <2> QED
    BY <1>2, <2>1, <2>5, <2>6, <2>7, IdleBytes
<1>3. Attachment \subseteq Id
  BY DEF Id
<1>4. CASE BeginUpload(r)
  <2>1. PICK i \in Attachment :
          request' = [request EXCEPT ![r] =
            [Idle EXCEPT !.op = "upload", !.phase = "want", !.id = i]]
    BY <1>4 DEF BeginUpload
  <2>2. /\ "upload" \in Operations /\ "want" \in Phases /\ "want" \notin Locked
        /\ i \in Id /\ folder' \in BOOLEAN /\ request[r].phase = "idle"
        /\ UNCHANGED <<row, file, temp, staged, backup, holders, loop>>
    BY <1>3, <1>4 DEF BeginUpload, Operations, Phases, Locked
  <2> QED
    BY <1>2, <2>1, <2>2
<1>5. ASSUME NEW op \in WorkerOperations, NEW phase \in {"want", "files", "commit"},
             NEW i \in Id \cup {Null}, BeginWorker(r, op, phase, i),
             phase = "commit" => op = "reset"
      PROVE  TypedLock' /\ (BytesInv => BytesInv')
  <2>1. folder' \in BOOLEAN /\ op \in Operations /\ phase \in Phases /\ op # "upload"
    BY <1>1, <1>5 DEF BeginWorker, Files, StorageTypeOK, Operations, WorkerOperations, Phases
  <2>2. op \in ServerOperations => phase \notin Locked
    BY <1>5 DEF ServerOperations, Locked
  <2> QED
    BY <1>2, <1>5, <2>1, <2>2 DEF BeginWorker, Files
<1>6. CASE BeginCliBackup(r)
  <2>1. [Idle EXCEPT !.op = "cli_backup", !.phase = "snapshot"]
          = [Idle EXCEPT !.op = "cli_backup", !.phase = "snapshot", !.id = Null]
    <3>1. Idle = [Idle EXCEPT !.id = Null]
      BY DEF Idle
    <3> QED
      BY <3>1, IdleType DEF RequestRecord
  <2>2. request' = [request EXCEPT ![r] =
          [Idle EXCEPT !.op = "cli_backup", !.phase = "snapshot", !.id = Null]]
    BY <1>6, <2>1, Zenon DEF BeginCliBackup
  <2>3. /\ "cli_backup" \in Operations /\ "snapshot" \in Phases
        /\ "cli_backup" \notin ServerOperations
    BY DEF Operations, Phases, ServerOperations
  <2>4. /\ folder' \in BOOLEAN /\ request[r].phase = "idle"
        /\ UNCHANGED <<row, file, temp, staged, backup, holders, loop>>
    BY <1>1, <1>6 DEF BeginCliBackup, Files, StorageTypeOK
  <2> QED
    BY <1>2, <2>2, <2>3, <2>4
<1> QED
  BY <1>1, <1>4, <1>5, <1>6
  DEF Begin, BeginDelete, BeginBackup, BeginDeleteAll, BeginLoad, BeginReset, WorkerOperations

\* Steps of a request under way.
LEMMA EnterKeeps ==
  ASSUME TypedLock, NEW r \in Request, NEW op \in ServerOperations,
         NEW phase \in {"commit", "snapshot", "stage"}, Enter(r, op, phase),
         phase = "commit" => op = "delete"
  PROVE  TypedLock' /\ (BytesInv => BytesInv')
<1>1. StorageTypeOK
  BY DEF TypedLock
<1>2. /\ request[r].op = op /\ request[r].phase = "want" /\ MayEnter(r)
      /\ holders' = holders \cup {r} /\ Goto(r, phase)
      /\ UNCHANGED <<row, folder, file, temp, staged, backup, loop>>
  BY DEF Enter, At, Files
<1>3. Moved(r, op, phase) /\ Kept(r) /\ phase \in Locked
  BY <1>1, <1>2, GotoMoves DEF Phases, Locked
<1>4. TypedStores' /\ (Uploading(r)' => request'[r].id \in Id)
  BY <1>1, <1>2, <1>3 DEF StorageTypeOK, TypedStores, TypedLock, Uploading, UnderWay, Moved, Kept
<1>5. TypedLock'
  BY <1>2, <1>3, <1>4, TypedLockStep
<1>6. \A i : (Owns(r, i) => Owns(r, i)') /\ ~Partial(r, i) /\ ~Holding(r)
  BY <1>2, <1>3
  DEF Owns, Partial, Holding, Uploading, UnderWay, At, Moved, Kept
<1>7. op = "delete_all" => phase \notin MayPutBack
  BY DEF MayPutBack
<1> QED
  BY <1>2, <1>3, <1>5, <1>6, <1>7, IdleBytes

LEMMA GotoKeeps ==
  ASSUME TypedLock, NEW r \in Request, UnderWay(r), NEW phase \in Phases, Goto(r, phase),
         TypedStores',
         \/ /\ request[r].op \in ServerOperations /\ phase \in Locked
            /\ MayEnter(r) /\ holders' = holders \cup {r}
         \/ phase \notin Locked /\ holders' = holders \ {r}
         \/ (phase \in Locked <=> request[r].phase \in Locked) /\ holders' = holders
  PROVE  TypedLock' /\ Moved(r, request[r].op, phase) /\ Kept(r)
<1>1. Moved(r, request[r].op, phase) /\ Kept(r)
  BY GotoMoves DEF TypedLock
<1>2. Uploading(r)' => request'[r].id \in Id
  BY <1>1 DEF TypedLock, Uploading, Moved, Kept
<1> QED
  BY <1>1, <1>2, TypedLockStep

LEMMA StrandKeeps ==
  ASSUME TypedLock, NEW r \in Request, Strand(r), TypedStores'
  PROVE  TypedLock'
<1>1. Moved(r, request[r].op, "stranded")
  BY StrandMoves DEF TypedLock
<1>2. Uploading(r)' => request'[r].id \in Id
  BY <1>1 DEF Uploading, UnderWay, Moved
<1> QED
  BY <1>1, <1>2, TypedLockStep DEF Strand, Locked

LEMMA FinishKeeps ==
  ASSUME TypedLock, NEW r \in Request, Finish(r), TypedStores'
  PROVE  TypedLock' /\ Moved(r, request[r].op, "done")
<1>1. Moved(r, request[r].op, "done")
  BY FinishMoves DEF TypedLock
<1>2. Uploading(r)' => request'[r].id \in Id
  BY <1>1 DEF Uploading, UnderWay, Moved
<1> QED
  BY <1>1, <1>2, TypedLockStep DEF Finish, Locked

\* A step that is over has nothing to remove.
LEMMA FinishBytes ==
  ASSUME TypedLock, BytesInv, NEW r \in Request, NEW op, Moved(r, op, "done"),
         UNCHANGED <<row, file, temp, staged>>,
         \A i : ~(Owns(r, i) /\ i \notin Active) /\ ~Partial(r, i), ~Holding(r)
  PROVE  BytesInv'
BY IdleBytes DEF MayPutBack

-----------------------------------------------------------------------------
(* Uploads keep the lock and the bytes. *)

LEMMA OpenUploadKeeps ==
  ASSUME TypedLock, NEW r \in Request, OpenUpload(r)
  PROVE  TypedLock' /\ (BytesInv => BytesInv')
<1>1. /\ request[r].op = "upload" /\ request[r].phase = "want" /\ MayEnter(r)
      /\ UNCHANGED <<row, folder, file, staged, backup>> /\ loop' \in Request \cup {Null}
  BY DEF OpenUpload, At
<1>2. UnderWay(r) /\ request[r].id \in Id /\ StorageTypeOK
  BY <1>1 DEF TypedLock, Uploading, UnderWay
<1>3. CASE /\ temp' = temp \cup {request[r].id} /\ holders' = holders \cup {r}
           /\ Goto(r, "read")
  <2>1. TypedStores'
    BY <1>1, <1>2, <1>3 DEF TypedStores, StorageTypeOK
  <2>2. TypedLock' /\ Moved(r, request[r].op, "read") /\ Kept(r)
    BY <1>1, <1>2, <1>3, <2>1, GotoKeeps DEF Phases, Locked, ServerOperations
  <2>3. ASSUME BytesInv PROVE BytesInv'
    <3>1. /\ \A i : Owns(r, i) => Owns(r, i)'
          /\ \A i : ~Partial(r, i) /\ (i = request[r].id => Partial(r, i)')
          /\ ~Holding(r) /\ Active' = Active
      BY <1>1, <1>2, <2>2
      DEF Owns, Partial, Holding, Uploading, UnderWay, At, Moved, Kept, Active
    <3>2. Cleared'
      BY <1>1, <2>2, <2>3, ClearedStep DEF BytesInv
    <3> QED
      BY <1>1, <1>3, <2>2, <2>3, <3>1, <3>2, BytesStep
  <2> QED
    BY <2>2, <2>3
<1>4. CASE Goto(r, "cleanup") /\ UNCHANGED <<temp, holders>>
  <2>1. TypedStores'
    BY <1>1, <1>2, <1>4 DEF TypedStores, StorageTypeOK
  <2>2. TypedLock' /\ Moved(r, request[r].op, "cleanup") /\ Kept(r)
    BY <1>1, <1>2, <1>4, <2>1, GotoKeeps DEF Phases, Locked
  <2>3. \A i : (Owns(r, i) => Owns(r, i)') /\ ~Partial(r, i) /\ ~Holding(r)
    BY <1>1, <2>2 DEF Owns, Partial, Holding, Uploading, UnderWay, At, Moved, Kept
  <2> QED
    BY <1>1, <1>4, <2>2, <2>3, IdleBytes
<1> QED
  BY <1>3, <1>4 DEF OpenUpload

\* An upload that waits for the loop, reads a chunk or raises.
LEMMA UploadGoesOn ==
  ASSUME TypedLock, NEW r \in Request, NEW phase \in {"want", "rename", "cleanup"},
         request[r].op = "upload", request[r].phase \in {"want", "read", "commit"},
         phase = "want" => request[r].phase = "want",
         Moved(r, "upload", phase), Kept(r), TypedLock',
         UNCHANGED <<row, file, temp, staged>>
  PROVE  BytesInv => BytesInv'
<1>1. UnderWay(r)
  BY DEF UnderWay
<1>2. \A i : /\ Owns(r, i) => Owns(r, i)'
             /\ Partial(r, i) => Partial(r, i)'
             /\ ~Holding(r)
  BY <1>1 DEF Owns, Partial, Holding, Uploading, UnderWay, At, Moved, Kept
<1> QED
  BY <1>2, IdleBytes

LEMMA ReadUploadKeeps ==
  ASSUME TypedLock, NEW r \in Request,
         WaitOnLoop(r) \/ ReadUpload(r) \/ (At(r, "upload", "commit") /\ RaiseUpload(r))
  PROVE  TypedLock' /\ (BytesInv => BytesInv')
<1>1. /\ request[r].op = "upload" /\ request[r].phase \in {"want", "read", "commit"}
      /\ UNCHANGED <<row, folder, file, temp, staged, backup>>
  BY DEF WaitOnLoop, ReadUpload, RaiseUpload, At, Files
<1>2. StorageTypeOK /\ UnderWay(r) /\ (loop' \in Request \cup {Null} => TypedStores')
  BY <1>1 DEF TypedLock, StorageTypeOK, TypedStores, UnderWay
<1>3. CASE WaitOnLoop(r)
  <2>1. UNCHANGED <<request, holders>> /\ loop' = r /\ request[r].phase = "want"
    BY <1>3 DEF WaitOnLoop, At
  <2>2. Moved(r, "upload", "want") /\ Kept(r)
    BY <1>1, <1>2, <2>1 DEF Moved, Kept, StorageTypeOK
  <2>3. TypedLock'
    BY <1>1, <1>2, <2>1, <2>2, TypedLockStep DEF TypedLock, Uploading, UnderWay
  <2> QED
    BY <1>1, <2>1, <2>2, <2>3, UploadGoesOn
<1>4. CASE ReadUpload(r) /\ Goto(r, "rename") /\ UNCHANGED <<holders, loop>>
  <2>0. request[r].phase = "read"
    BY <1>4 DEF ReadUpload, At
  <2>1. TypedStores'
    BY <1>2, <1>4 DEF StorageTypeOK
  <2>2. TypedLock' /\ Moved(r, "upload", "rename") /\ Kept(r)
    BY <1>1, <1>2, <1>4, <2>0, <2>1, GotoKeeps DEF Phases, Locked
  <2> QED
    BY <1>1, <2>0, <2>2, UploadGoesOn
<1>5. CASE RaiseUpload(r) /\ request[r].phase \in {"read", "commit"}
  <2>1. TypedStores'
    BY <1>2, <1>5 DEF StorageTypeOK, RaiseUpload
  <2>2. TypedLock' /\ Moved(r, "upload", "cleanup") /\ Kept(r)
    BY <1>1, <1>2, <1>5, <2>1, GotoKeeps DEF Phases, Locked, RaiseUpload
  <2> QED
    BY <1>1, <1>5, <2>2, UploadGoesOn
<1> QED
  BY <1>3, <1>4, <1>5 DEF ReadUpload, At

LEMMA RenameUploadKeeps ==
  ASSUME TypedLock, NEW r \in Request, RenameUpload(r)
  PROVE  TypedLock' /\ (BytesInv => BytesInv')
<1>1. /\ request[r].op = "upload" /\ request[r].phase = "rename"
      /\ temp' = temp \ {request[r].id} /\ file' = file \cup {request[r].id}
      /\ Goto(r, "commit") /\ UNCHANGED <<row, folder, staged, backup, holders, loop>>
  BY DEF RenameUpload, At
<1>2. UnderWay(r) /\ request[r].id \in Id /\ StorageTypeOK
  BY <1>1 DEF TypedLock, Uploading, UnderWay
<1>3. TypedStores'
  BY <1>1, <1>2 DEF TypedStores, StorageTypeOK
<1>4. TypedLock' /\ Moved(r, "upload", "commit") /\ Kept(r)
  BY <1>1, <1>2, <1>3, GotoKeeps DEF Phases, Locked
<1>5. ASSUME BytesInv PROVE BytesInv'
  <2>1. /\ \A i : Owns(r, i)' <=> i = request[r].id
        /\ \A i : Owns(r, i) <=> i = request[r].id
        /\ \A i : Partial(r, i) <=> i = request[r].id
        /\ ~Holding(r) /\ Active' = Active /\ Inside(r)
    BY <1>1, <1>2, <1>4
    DEF Owns, Partial, Holding, Uploading, UnderWay, At, Moved, Kept, Active, Inside,
        ServerOperations, Locked
  <2>2. Cleared'
    BY <1>1, <1>4, <1>5, <2>1, ClearedStep DEF BytesInv
  <2> QED
    BY <1>1, <1>4, <1>5, <2>1, <2>2, BytesStep
<1> QED
  BY <1>4, <1>5

LEMMA CommitUploadKeeps ==
  ASSUME TypedLock, NEW r \in Request, CommitUpload(r)
  PROVE  TypedLock' /\ (BytesInv => BytesInv')
<1>1. At(r, "upload", "commit") /\ request[r].op = "upload" /\ request[r].phase = "commit"
  BY DEF CommitUpload, At
<1>2. request[r].id \in Id /\ StorageTypeOK
  BY <1>1 DEF TypedLock, Uploading, UnderWay
<1>3. CASE /\ row' = [row EXCEPT ![request[r].id] = "active"] /\ Finish(r)
           /\ UNCHANGED <<Files, backup, loop>>
  <2>1. UNCHANGED <<folder, file, temp, staged>> /\ TypedStores'
    BY <1>2, <1>3 DEF TypedStores, StorageTypeOK, Files
  <2>2. TypedLock' /\ Moved(r, "upload", "done")
    BY <1>1, <1>3, <2>1, FinishKeeps
  <2>3. ASSUME BytesInv PROVE BytesInv'
    <3>1. /\ \A i : Owns(r, i) <=> i = request[r].id
          /\ \A i : ~Partial(r, i)
          /\ ~Holding(r) /\ Active' = Active \cup {request[r].id}
      BY <1>1, <1>2, <1>3
      DEF Owns, Partial, Holding, Uploading, UnderWay, At, Active, StorageTypeOK
    <3>2. Cleared'
      BY <2>1, <2>2, <2>3, ClearedStep DEF BytesInv
    <3> QED
      BY <2>1, <2>2, <2>3, <3>1, <3>2, BytesStep
  <2> QED
    BY <2>2, <2>3
<1> QED
  BY <1>1, <1>3, ReadUploadKeeps DEF CommitUpload

LEMMA CleanupUploadKeeps ==
  ASSUME TypedLock, NEW r \in Request, CleanupUpload(r)
  PROVE  TypedLock' /\ (BytesInv /\ "cleanup" \notin Fault => BytesInv')
<1>1. /\ request[r].op = "upload" /\ request[r].phase = "cleanup"
      /\ temp' \subseteq temp /\ file' \subseteq file
      /\ "cleanup" \notin Fault =>
           temp' = temp \ {request[r].id} /\ file' = file \ {request[r].id}
      /\ Finish(r) /\ UNCHANGED <<row, folder, staged, backup, loop>>
  BY DEF CleanupUpload, At
<1>2. TypedStores'
  BY <1>1 DEF TypedStores, StorageTypeOK, TypedLock
<1>3. TypedLock' /\ Moved(r, "upload", "done")
  BY <1>1, <1>2, FinishKeeps
<1>4. ASSUME BytesInv, "cleanup" \notin Fault PROVE BytesInv'
  <2>1. /\ \A i : (Owns(r, i) \/ Partial(r, i)) => i = request[r].id
        /\ ~Holding(r) /\ Active' = Active
    BY <1>1 DEF Owns, Partial, Holding, Uploading, UnderWay, At, Active
  <2>2. Cleared'
    BY <1>1, <1>3, <1>4, ClearedStep DEF BytesInv
  <2> QED
    BY <1>1, <1>3, <1>4, <2>1, <2>2, BytesStep
<1> QED
  BY <1>3, <1>4

-----------------------------------------------------------------------------
(* Deletes and backups. *)

\* The calls whose failure the code answers by leaving bytes behind.
LeavingBehind == {"cleanup", "unlink", "root", "others", "delete_all", "purge"}

LEMMA DeleteKeeps ==
  ASSUME TypedLock, NEW r \in Request, CommitDelete(r) \/ UnlinkDeleted(r)
  PROVE  TypedLock' /\ (BytesInv /\ "unlink" \notin Fault => BytesInv')
<1>1. request[r].op = "delete" /\ UnderWay(r) /\ StorageTypeOK
  BY DEF CommitDelete, UnlinkDeleted, At, UnderWay, TypedLock
<1>2. CASE /\ CommitDelete(r)
           /\ request[r].id \in Active /\ row' = [row EXCEPT ![request[r].id] = "deleted"]
           /\ Goto(r, "unlink") /\ UNCHANGED holders
  <2>1. /\ UNCHANGED <<folder, file, temp, staged, backup, loop>>
        /\ request[r].phase = "commit" /\ request[r].id \in Id
    BY <1>2 DEF CommitDelete, Files, At, Active
  <2>2. TypedStores'
    BY <1>1, <1>2, <2>1 DEF TypedStores, StorageTypeOK
  <2>3. r \in holders
    BY <1>1, <2>1 DEF TypedLock, Inside, ServerOperations, Locked
  <2>4. TypedLock' /\ Moved(r, "delete", "unlink") /\ Kept(r)
    BY <1>1, <1>2, <2>1, <2>2, GotoKeeps DEF Phases, Locked
  <2>5. ASSUME BytesInv PROVE BytesInv'
    <3>1. /\ \A i : ~Owns(r, i) /\ (Owns(r, i)' <=> i = request[r].id) /\ ~Partial(r, i)
          /\ ~Holding(r) /\ Active' = Active \ {request[r].id}
      BY <1>1, <1>2, <2>1, <2>4
      DEF Owns, Partial, Holding, Uploading, UnderWay, At, Active, StorageTypeOK, Moved, Kept
    <3>2. Cleared'
      BY <2>1, <2>4, <2>5, ClearedStep DEF BytesInv
    <3> QED
      BY <2>1, <2>4, <2>5, <3>1, <3>2, BytesStep
  <2> QED
    BY <2>4, <2>5
<1>3. CASE CommitDelete(r) /\ Finish(r) /\ UNCHANGED row
  <2>1. UNCHANGED <<folder, file, temp, staged, backup, loop>> /\ request[r].phase = "commit"
    BY <1>3 DEF CommitDelete, Files, At
  <2>2. TypedStores'
    BY <1>1, <1>3, <2>1 DEF TypedStores, StorageTypeOK
  <2>3. TypedLock' /\ Moved(r, "delete", "done")
    BY <1>1, <1>3, <2>2, FinishKeeps
  <2>4. \A i : ~Owns(r, i) /\ ~Partial(r, i) /\ ~Holding(r)
    BY <1>1, <2>1 DEF Owns, Partial, Holding, Uploading, At
  <2> QED
    BY <1>3, <2>1, <2>3, <2>4, FinishBytes
<1>4. CASE UnlinkDeleted(r)
  <2>1. /\ UNCHANGED <<row, folder, temp, staged, backup, loop>> /\ Finish(r)
        /\ file' \subseteq file /\ request[r].phase = "unlink"
        /\ "unlink" \notin Fault => file' = file \ {request[r].id}
    BY <1>4 DEF UnlinkDeleted, At
  <2>2. TypedStores'
    BY <1>1, <2>1 DEF TypedStores, StorageTypeOK
  <2>3. TypedLock' /\ Moved(r, "delete", "done")
    BY <1>1, <2>1, <2>2, FinishKeeps
  <2>4. ASSUME BytesInv, "unlink" \notin Fault PROVE BytesInv'
    <3>1. /\ \A i : (Owns(r, i) => i = request[r].id) /\ ~Partial(r, i)
          /\ ~Holding(r) /\ Active' = Active
      BY <1>1, <2>1 DEF Owns, Partial, Holding, Uploading, At, Active
    <3>2. Cleared'
      BY <2>1, <2>3, <2>4, ClearedStep DEF BytesInv
    <3> QED
      BY <2>1, <2>3, <2>4, <3>1, <3>2, BytesStep
  <2> QED
    BY <2>3, <2>4
<1> QED
  BY <1>2, <1>3, <1>4 DEF CommitDelete

\* A backup changes nothing but itself.
LEMMA BackupKeeps ==
  ASSUME TypedLock, NEW r \in Request, Snapshot(r) \/ ListFiles(r) \/ Archive(r)
  PROVE  TypedLock' /\ (BytesInv => BytesInv')
<1>1. /\ request[r].op \in {"backup", "cli_backup"} /\ UnderWay(r) /\ StorageTypeOK
      /\ request[r].phase \in Locked
      /\ UNCHANGED <<row, folder, file, temp, staged, loop>>
  BY DEF Snapshot, ListFiles, Archive, BackingUp, At, UnderWay, TypedLock, Files, Locked
<1>2. \A i : ~Owns(r, i) /\ ~Partial(r, i) /\ ~Holding(r)
  BY <1>1 DEF Owns, Partial, Holding, Uploading, At
<1>3. request[r] \in RequestRecord /\ Active \subseteq Id /\ file \subseteq Id
  BY <1>1 DEF StorageTypeOK, Active
<1>4. ASSUME NEW phase \in {"list", "archive"}, NEW rows \in SUBSET Id, NEW files \in SUBSET Id,
             request' = [request EXCEPT ![r] =
               [request[r] EXCEPT !.phase = phase, !.rows = rows, !.files = files]],
             UNCHANGED <<backup, holders>>
      PROVE  TypedLock' /\ (BytesInv => BytesInv')
  <2> DEFINE next == [request[r] EXCEPT !.phase = phase, !.rows = rows, !.files = files]
  <2>1. next \in RequestRecord /\ next.op = request[r].op /\ next.phase = phase
    BY <1>3 DEF RequestRecord, Phases
  <2> HIDE DEF next
  <2>2. Moved(r, request[r].op, phase)
    BY <1>1, <1>4, <2>1 DEF Moved, StorageTypeOK, next
  <2>3. TypedStores'
    BY <1>1, <1>4 DEF TypedStores, StorageTypeOK
  <2>4. ~Uploading(r)' /\ phase \in Locked
    BY <1>1, <2>2 DEF Uploading, Moved, Locked
  <2>5. TypedLock'
    BY <1>1, <1>4, <2>2, <2>3, <2>4, TypedLockStep
  <2> QED
    BY <1>1, <1>2, <2>2, <2>5, IdleBytes
<1>5. CASE Snapshot(r)
  <2>1. request' = [request EXCEPT ![r] =
          [request[r] EXCEPT !.phase = "list", !.rows = Active, !.files = request[r].files]]
    BY <1>3, <1>5 DEF Snapshot, RequestRecord
  <2> QED
    BY <1>3, <1>4, <1>5, <2>1 DEF Snapshot, RequestRecord
<1>6. CASE ListFiles(r)
  <2>1. request' = [request EXCEPT ![r] =
          [request[r] EXCEPT !.phase = "archive", !.rows = request[r].rows, !.files = file]]
    BY <1>3, <1>6 DEF ListFiles, RequestRecord
  <2> QED
    BY <1>3, <1>4, <1>6, <2>1 DEF ListFiles, RequestRecord
<1>7. CASE Archive(r)
  <2>1. Finish(r) /\ TypedStores'
    BY <1>1, <1>3, <1>7 DEF Archive, TypedStores, StorageTypeOK, RequestRecord
  <2>2. TypedLock' /\ Moved(r, request[r].op, "done")
    BY <2>1, FinishKeeps
  <2> QED
    BY <1>1, <1>2, <2>2, FinishBytes
<1> QED
  BY <1>5, <1>6, <1>7

-----------------------------------------------------------------------------
(* Delete-all. *)

LEMMA StageDirectoryKeeps ==
  ASSUME TypedLock, NEW r \in Request, StageDirectory(r)
  PROVE  TypedLock' /\ (BytesInv => BytesInv')
<1>1. /\ request[r].op = "delete_all" /\ request[r].phase = "stage" /\ UnderWay(r)
      /\ UNCHANGED <<row, backup, loop>> /\ StorageTypeOK
  BY DEF StageDirectory, At, UnderWay, TypedLock
<1>2. /\ \A i : ~Owns(r, i) /\ ~Partial(r, i)
      /\ ~Holding(r) /\ Active' = Active
  BY <1>1 DEF Owns, Partial, Holding, Uploading, At, Active
<1>3. CASE Move(r) /\ Goto(r, "root") /\ UNCHANGED holders
  <2>1. /\ staged' = [staged EXCEPT ![r] = [folder |-> folder, file |-> file, temp |-> temp]]
        /\ folder' = FALSE /\ file' = {} /\ temp' = {}
    BY <1>3 DEF Move
  <2>2. TypedStores' /\ \A q \in Request \ {r} : staged'[q] = staged[q]
    BY <1>1, <2>1 DEF TypedStores, StorageTypeOK, Directory
  <2>3. TypedLock' /\ Moved(r, "delete_all", "root")
    BY <1>1, <1>3, <2>2, GotoKeeps DEF Phases, Locked
  <2>4. ASSUME BytesInv PROVE BytesInv'
    <3>1. Holding(r)' /\ Cleared'
      BY <2>1, <2>3 DEF Holding, Moved, Cleared
    <3> QED
      BY <2>1, <2>2, <2>3, <2>4, <3>1, BytesStep
  <2> QED
    BY <2>3, <2>4
<1>4. CASE Finish(r) /\ UNCHANGED Files
  <2>1. UNCHANGED <<folder, file, temp, staged>> /\ TypedStores'
    BY <1>1, <1>4 DEF TypedStores, StorageTypeOK, Files
  <2>2. TypedLock' /\ Moved(r, "delete_all", "done")
    BY <1>1, <1>4, <2>1, FinishKeeps
  <2> QED
    BY <1>1, <1>2, <2>1, <2>2, FinishBytes
<1> QED
  BY <1>3, <1>4 DEF StageDirectory

\* Until its staged directory is purged, delete-all goes on with no files.
LEMMA HoldingGoes ==
  ASSUME TypedLock, NEW r \in Request, Emptying(r),
         NEW phase \in {"others", "commit", "purge"}, Goto(r, phase),
         UNCHANGED <<file, temp, staged, holders>>, TypedStores'
  PROVE  TypedLock' /\ (BytesInv => BytesInv')
<1>1. UnderWay(r) /\ request[r].op = "delete_all" /\ request[r].phase \in Locked
  BY DEF Emptying, MayPutBack, UnderWay, Locked
<1>2. phase \in Phases /\ phase \in Locked
  BY DEF Phases, Locked
<1>3. TypedLock' /\ Moved(r, "delete_all", phase)
  BY <1>1, <1>2, GotoKeeps
<1>4. ASSUME BytesInv PROVE BytesInv'
  <2>1. file' = {} /\ temp' = {} /\ Holding(r)'
    BY <1>3, <1>4 DEF BytesInv, Cleared, Holding, Moved
  <2>2. Cleared'
    BY <2>1 DEF Cleared
  <2>3. phase \notin {"clear", "putback"}
    OBVIOUS
  <2> QED
    BY <1>3, <1>4, <2>1, <2>2, <2>3, BytesStep
<1> QED
  BY <1>3, <1>4

LEMMA MakeRootKeeps ==
  ASSUME TypedLock, NEW r \in Request, MakeRoot(r)
  PROVE  TypedLock' /\ (BytesInv /\ "root" \notin Fault => BytesInv')
<1>1. Emptying(r) /\ UNCHANGED <<row, folder, file, temp, staged, backup, loop>>
  BY DEF MakeRoot, At, Emptying, MayPutBack, Files
<1>2. TypedStores'
  BY <1>1 DEF TypedStores, StorageTypeOK, TypedLock
<1>3. CASE Goto(r, "others") /\ UNCHANGED holders
  BY <1>1, <1>2, <1>3, HoldingGoes
<1>4. CASE "root" \in Fault /\ Strand(r)
  BY <1>2, <1>4, StrandKeeps
<1> QED
  BY <1>3, <1>4 DEF MakeRoot

\* A delete-all that fails goes on to put back.
LEMMA FailedKeeps ==
  ASSUME TypedLock, NEW r \in Request, Emptying(r), NEW phase \in {"clear", "putback"},
         Goto(r, phase), UNCHANGED holders, TypedStores'
  PROVE  TypedLock'
<1>1. UnderWay(r) /\ request[r].op = "delete_all" /\ request[r].phase \in Locked
  BY DEF Emptying, MayPutBack, UnderWay, Locked
<1>2. phase \in Phases /\ phase \in Locked
  BY DEF Phases, Locked
<1> QED
  BY <1>1, <1>2, GotoKeeps

LEMMA StageOthersKeeps ==
  ASSUME TypedLock, NEW r \in Request, StageOthers(r)
  PROVE  TypedLock' /\ (BytesInv /\ "others" \notin Fault => BytesInv')
<1>1. Emptying(r) /\ UNCHANGED <<row, folder, file, temp, staged, backup, holders, loop>>
  BY DEF StageOthers, At, Emptying, MayPutBack, Files
<1>2. TypedStores'
  BY <1>1 DEF TypedStores, StorageTypeOK, TypedLock
<1>3. CASE Goto(r, "commit")
  BY <1>1, <1>2, <1>3, HoldingGoes
<1>4. CASE "others" \in Fault /\ Goto(r, "clear")
  BY <1>1, <1>2, <1>4, FailedKeeps
<1> QED
  BY <1>3, <1>4 DEF StageOthers

LEMMA CommitDeleteAllKeeps ==
  ASSUME TypedLock, NEW r \in Request, CommitDeleteAll(r)
  PROVE  TypedLock' /\ (BytesInv /\ "delete_all" \notin Fault => BytesInv')
<1>1. /\ Emptying(r) /\ UNCHANGED <<folder, file, temp, staged, backup, holders, loop>>
      /\ row' \in {row, [i \in Id |-> "none"]}
  BY DEF CommitDeleteAll, At, Emptying, MayPutBack, Files
<1>2. TypedStores'
  BY <1>1 DEF TypedStores, StorageTypeOK, TypedLock
<1>3. CASE Goto(r, "purge")
  BY <1>1, <1>2, <1>3, HoldingGoes
<1>4. CASE "delete_all" \in Fault /\ Goto(r, "clear")
  BY <1>1, <1>2, <1>4, FailedKeeps
<1> QED
  BY <1>3, <1>4 DEF CommitDeleteAll

LEMMA PutBackKeeps ==
  ASSUME TypedLock, NEW r \in Request, ClearRoot(r) \/ PutBack(r)
  PROVE  TypedLock' /\ ~BytesInv
<1>1. ~BytesInv
  BY DEF ClearRoot, PutBack, BytesInv, Unfailed
<1>2. Emptying(r) /\ UNCHANGED <<row, backup, loop>> /\ StorageTypeOK
  BY DEF ClearRoot, PutBack, At, Emptying, MayPutBack, TypedLock
<1>3. TypedStores'
  <2>1. NoDirectory \in Directory /\ staged[r] \in Directory
    BY <1>2 DEF Directory, NoDirectory, StorageTypeOK
  <2> QED
    BY <1>2, <2>1 DEF ClearRoot, PutBack, Files, TypedStores, StorageTypeOK, Directory
<1>4. \/ Strand(r) \/ Finish(r)
      \/ Goto(r, "putback") /\ UNCHANGED holders
  BY DEF ClearRoot, PutBack
<1> QED
  BY <1>1, <1>2, <1>3, <1>4, StrandKeeps, FinishKeeps, FailedKeeps

LEMMA PurgeStagedKeeps ==
  ASSUME TypedLock, NEW r \in Request, PurgeStaged(r)
  PROVE  TypedLock' /\ (BytesInv /\ "purge" \notin Fault => BytesInv')
<1>1. /\ request[r].op = "delete_all" /\ request[r].phase = "purge" /\ StorageTypeOK
      /\ staged' \in {[staged EXCEPT ![r] = NoDirectory], staged} /\ Finish(r)
      /\ "purge" \notin Fault => staged' = [staged EXCEPT ![r] = NoDirectory]
      /\ UNCHANGED <<row, folder, file, temp, backup, loop>>
  BY DEF PurgeStaged, At, TypedLock
<1>2. TypedStores'
  <2>1. NoDirectory \in Directory
    BY DEF Directory, NoDirectory
  <2> QED
    BY <1>1, <2>1 DEF TypedStores, StorageTypeOK
<1>3. TypedLock' /\ Moved(r, "delete_all", "done")
  BY <1>1, <1>2, FinishKeeps
<1>4. ASSUME BytesInv, "purge" \notin Fault PROVE BytesInv'
  <2>1. /\ \A i : ~Owns(r, i) /\ ~Partial(r, i)
        /\ Active' = Active
    BY <1>1 DEF Owns, Partial, Uploading, At, Active
  <2>2. Cleared'
    BY <1>1, <1>3, <1>4, ClearedStep DEF BytesInv, MayPutBack
  <2>3. staged'[r] = NoDirectory /\ \A q \in Request \ {r} : staged'[q] = staged[q]
    BY <1>1, <1>4 DEF StorageTypeOK
  <2> QED
    BY <1>1, <1>3, <1>4, <2>1, <2>2, <2>3, BytesStep
<1> QED
  BY <1>3, <1>4

-----------------------------------------------------------------------------
(* Demo data: the loader holds the lock for a moment at a time. *)

LEMMA LoadKeeps ==
  ASSUME TypedLock, NEW r \in Request, Load(r)
  PROVE  TypedLock' /\ (BytesInv => BytesInv')
<1>1. /\ request[r].op = "load" /\ UnderWay(r) /\ StorageTypeOK
      /\ request[r].phase \in {"files", "rows", "commit", "cleanup"}
      /\ UNCHANGED <<temp, staged, backup, loop>>
  BY DEF Load, CopyDemo, ReadDemo, CommitLoad, CleanupLoad, At, UnderWay, TypedLock, Files
<1>2. r \notin holders /\ holders \ {r} = holders
  BY <1>1 DEF TypedLock, Inside, ServerOperations
<1>3. request[r] \in RequestRecord /\ Demo \subseteq Id
  BY <1>1 DEF StorageTypeOK, Id
<1>4. \A i : ~Partial(r, i) /\ ~Holding(r)
  BY <1>1 DEF Partial, Holding
<1>5. CASE CopyDemo(r)
  <2>1. /\ folder' = TRUE /\ file' = file \cup Demo /\ UNCHANGED <<row, holders>>
        /\ Goto(r, "rows") /\ MayEnter(r) /\ request[r].phase = "files"
    BY <1>5 DEF CopyDemo, At
  <2>2. TypedStores'
    BY <1>1, <1>3, <2>1 DEF TypedStores, StorageTypeOK
  <2>3. TypedLock' /\ Moved(r, "load", "rows")
    BY <1>1, <1>2, <2>1, <2>2, GotoKeeps DEF Phases, Locked
  <2>4. ASSUME BytesInv PROVE BytesInv'
    <3>1. /\ \A i : ~Owns(r, i) /\ (i \in Demo => Owns(r, i)')
          /\ Active' = Active
      BY <1>1, <2>1, <2>3 DEF Owns, Uploading, At, Active, Moved
    <3>2. Cleared'
      BY <1>1, <2>1, <2>3, <2>4, ClearedStep DEF BytesInv
    <3> QED
      BY <1>1, <1>4, <2>1, <2>3, <2>4, <3>1, <3>2, BytesStep
  <2> QED
    BY <2>3, <2>4
<1>6. CASE ReadDemo(r)
  <2> DEFINE rows == {i \in Demo : row[i] # "none"}
             next == [request[r] EXCEPT !.phase = "commit", !.rows = rows]
  <2>1. /\ request' = [request EXCEPT ![r] = next] /\ UNCHANGED <<row, folder, file, holders>>
        /\ request[r].phase = "rows"
    BY <1>6 DEF ReadDemo, At, Files
  <2>2. rows \in SUBSET Id
    BY <1>3
  <2> HIDE DEF rows
  <2>3. next \in RequestRecord /\ next.op = "load" /\ next.phase = "commit"
    BY <1>1, <1>3, <2>2 DEF RequestRecord, Phases
  <2> HIDE DEF next
  <2>4. Moved(r, "load", "commit")
    BY <1>1, <2>1, <2>3 DEF Moved, StorageTypeOK
  <2>5. TypedStores' /\ ~Uploading(r)'
    BY <1>1, <2>1, <2>4 DEF TypedStores, StorageTypeOK, Uploading, Moved
  <2>6. TypedLock'
    BY <1>2, <2>1, <2>4, <2>5, TypedLockStep DEF ServerOperations
  <2>7. \A i : Owns(r, i) => Owns(r, i)'
    BY <1>1, <2>1, <2>4 DEF Owns, Uploading, At, Moved
  <2> QED
    BY <1>1, <1>4, <2>1, <2>4, <2>6, <2>7, IdleBytes
<1>7. CASE /\ CommitLoad(r) /\ Finish(r)
           /\ row' = [i \in Id |-> IF i \in Demo THEN "active" ELSE row[i]]
  <2>1. UNCHANGED <<folder, file>> /\ request[r].phase = "commit"
    BY <1>7 DEF CommitLoad, At, Files
  <2>2. TypedStores'
    BY <1>1, <1>7, <2>1 DEF TypedStores, StorageTypeOK
  <2>3. TypedLock' /\ Moved(r, "load", "done")
    BY <1>1, <1>7, <2>2, FinishKeeps
  <2>4. ASSUME BytesInv PROVE BytesInv'
    <3>1. /\ \A i : Owns(r, i) => i \in Demo
          /\ Active' = Active \cup Demo
      BY <1>1, <1>3, <1>7 DEF Owns, Uploading, At, Active
    <3>2. Cleared'
      BY <1>1, <2>1, <2>3, <2>4, ClearedStep DEF BytesInv
    <3> QED
      BY <1>1, <1>4, <2>1, <2>3, <2>4, <3>1, <3>2, BytesStep
  <2> QED
    BY <2>3, <2>4
<1>8. CASE CommitLoad(r) /\ Goto(r, "cleanup") /\ UNCHANGED <<row, holders>>
  <2>1. UNCHANGED <<folder, file>> /\ request[r].phase = "commit"
    BY <1>8 DEF CommitLoad, At, Files
  <2>2. TypedStores'
    BY <1>1, <1>8, <2>1 DEF TypedStores, StorageTypeOK
  <2>3. TypedLock' /\ Moved(r, "load", "cleanup")
    BY <1>1, <1>2, <1>8, <2>2, GotoKeeps DEF Phases, Locked
  <2>4. \A i : Owns(r, i) => Owns(r, i)'
    BY <1>1, <2>1, <2>3 DEF Owns, Uploading, At, Moved
  <2> QED
    BY <1>1, <1>4, <1>8, <2>1, <2>3, <2>4, IdleBytes
<1>9. CASE CleanupLoad(r)
  <2>1. /\ UNCHANGED <<row, folder>> /\ file' = file \ Demo /\ Finish(r)
    BY <1>9 DEF CleanupLoad
  <2>2. TypedStores'
    BY <1>1, <2>1 DEF TypedStores, StorageTypeOK
  <2>3. TypedLock' /\ Moved(r, "load", "done")
    BY <1>1, <2>1, <2>2, FinishKeeps
  <2>4. ASSUME BytesInv PROVE BytesInv'
    <3>1. /\ \A i : Owns(r, i) => i \in Demo
          /\ Active' = Active
      BY <1>1, <2>1 DEF Owns, Uploading, At, Active
    <3>2. Cleared'
      BY <1>1, <2>1, <2>3, <2>4, ClearedStep DEF BytesInv
    <3> QED
      BY <1>1, <1>4, <2>1, <2>3, <2>4, <3>1, <3>2, BytesStep
  <2> QED
    BY <2>3, <2>4
<1> QED
  BY <1>5, <1>6, <1>7, <1>8, <1>9 DEF Load, CommitLoad

LEMMA ResetKeeps ==
  ASSUME TypedLock, NEW r \in Request, Reset(r)
  PROVE  TypedLock' /\ (BytesInv => BytesInv')
<1>1. /\ request[r].op = "reset" /\ UnderWay(r) /\ StorageTypeOK
      /\ request[r].phase \in {"commit", "cleanup"}
      /\ UNCHANGED <<folder, temp, staged, backup, loop>>
  BY DEF Reset, CommitReset, RemoveDemoFiles, At, UnderWay, TypedLock, Files
<1>2. r \notin holders /\ holders \ {r} = holders
  BY <1>1 DEF TypedLock, Inside, ServerOperations
<1>3. \A i : ~Partial(r, i) /\ ~Holding(r)
  BY <1>1 DEF Partial, Holding
<1>4. CASE /\ CommitReset(r) /\ Goto(r, "cleanup") /\ UNCHANGED holders
           /\ row' = [i \in Id |-> IF i \in Demo THEN "none" ELSE row[i]]
  <2>1. UNCHANGED file /\ request[r].phase = "commit"
    BY <1>4 DEF CommitReset, At, Files
  <2>2. TypedStores'
    BY <1>1, <1>4, <2>1 DEF TypedStores, StorageTypeOK
  <2>3. TypedLock' /\ Moved(r, "reset", "cleanup")
    BY <1>1, <1>2, <1>4, <2>2, GotoKeeps DEF Phases, Locked
  <2>4. ASSUME BytesInv PROVE BytesInv'
    <3>1. /\ \A i : ~Owns(r, i) /\ (i \in Demo => Owns(r, i)')
          /\ Active' = Active \ Demo
      BY <1>1, <1>4, <2>1, <2>3 DEF Owns, Uploading, At, Active, Moved
    <3>2. Cleared'
      BY <1>1, <2>1, <2>3, <2>4, ClearedStep DEF BytesInv
    <3> QED
      BY <1>1, <1>3, <2>1, <2>3, <2>4, <3>1, <3>2, BytesStep
  <2> QED
    BY <2>3, <2>4
<1>5. CASE CommitReset(r) /\ Finish(r) /\ UNCHANGED row
  <2>1. UNCHANGED file /\ request[r].phase = "commit"
    BY <1>5 DEF CommitReset, At, Files
  <2>2. TypedStores'
    BY <1>1, <1>5, <2>1 DEF TypedStores, StorageTypeOK
  <2>3. TypedLock' /\ Moved(r, "reset", "done")
    BY <1>1, <1>5, <2>2, FinishKeeps
  <2>4. \A i : ~Owns(r, i)
    BY <1>1, <2>1 DEF Owns, Uploading, At
  <2> QED
    BY <1>1, <1>3, <1>5, <2>1, <2>3, <2>4, FinishBytes
<1>6. CASE RemoveDemoFiles(r)
  <2>1. UNCHANGED row /\ file' = file \ Demo /\ Finish(r)
    BY <1>6 DEF RemoveDemoFiles
  <2>2. TypedStores'
    BY <1>1, <2>1 DEF TypedStores, StorageTypeOK
  <2>3. TypedLock' /\ Moved(r, "reset", "done")
    BY <1>1, <2>1, <2>2, FinishKeeps
  <2>4. ASSUME BytesInv PROVE BytesInv'
    <3>1. /\ \A i : Owns(r, i) => i \in Demo
          /\ Active' = Active
      BY <1>1, <2>1 DEF Owns, Uploading, At, Active
    <3>2. Cleared'
      BY <1>1, <2>1, <2>3, <2>4, ClearedStep DEF BytesInv
    <3> QED
      BY <1>1, <1>3, <2>1, <2>3, <2>4, <3>1, <3>2, BytesStep
  <2> QED
    BY <2>3, <2>4
<1> QED
  BY <1>4, <1>5, <1>6 DEF Reset, CommitReset

-----------------------------------------------------------------------------
(* The theorems for all operations. *)

LEMMA AllSteps ==
  ASSUME TypedLock, NEW r \in Request, Begin(r) \/ Step(r)
  PROVE  TypedLock' /\ (BytesInv /\ Fault \cap LeavingBehind = {} => BytesInv')
<1>1. CASE Upload(r)
  BY <1>1, ReadUploadKeeps, OpenUploadKeeps, RenameUploadKeeps, CommitUploadKeeps,
     CleanupUploadKeeps DEF Upload, LeavingBehind
<1>2. CASE Delete(r)
  BY <1>2, EnterKeeps, DeleteKeeps DEF Delete, ServerOperations, LeavingBehind
<1>3. CASE Backup(r)
  BY <1>3, EnterKeeps, BackupKeeps DEF Backup, ServerOperations
<1>4. CASE DeleteAll(r)
  BY <1>4, EnterKeeps, StageDirectoryKeeps, MakeRootKeeps, StageOthersKeeps,
     CommitDeleteAllKeeps, PutBackKeeps, PurgeStagedKeeps
  DEF DeleteAll, ServerOperations, LeavingBehind
<1> QED
  BY <1>1, <1>2, <1>3, <1>4, BeginKeeps, LoadKeeps, ResetKeeps DEF Step

LEMMA CrashKeeps ==
  ASSUME TypedLock, Crash
  PROVE  TypedLock'
<1>1. StorageTypeOK
  BY DEF TypedLock
<1>2. \A op \in Operations :
        LET killed == [Idle EXCEPT !.op = op, !.phase = "killed"]
        IN  killed \in RequestRecord /\ killed.phase = "killed"
  BY IdleType DEF RequestRecord, Phases, Idle
<1>3. request' \in [Request -> RequestRecord]
  BY <1>1, <1>2 DEF Crash, StorageTypeOK, RequestRecord
<1>4. \A r \in Request : /\ ~Inside(r)' /\ ~Uploading(r)'
  <2> SUFFICES ASSUME NEW r \in Request PROVE ~Inside(r)' /\ ~Uploading(r)'
    OBVIOUS
  <2>1. request[r] \in RequestRecord /\ request[r].op \in Operations
    BY <1>1 DEF StorageTypeOK, RequestRecord
  <2>2. CASE UnderWay(r) /\ request[r].op # "cli_backup"
    <3>1. request'[r].phase = "killed"
      BY <1>2, <2>1, <2>2 DEF Crash
    <3> QED
      BY <3>1 DEF Inside, Locked, Uploading, UnderWay
  <2>3. CASE ~(UnderWay(r) /\ request[r].op # "cli_backup")
    <3>1. request'[r] = request[r]
      BY <2>3 DEF Crash
    <3> QED
      BY <2>3, <3>1 DEF Inside, Locked, Uploading, UnderWay, ServerOperations
  <2> QED
    BY <2>2, <2>3
<1> QED
  BY <1>1, <1>3, <1>4 DEF Crash, Files, TypedLock, StorageTypeOK, LockExclusive

LEMMA AllInit ==
  ASSUME StorageInit
  PROVE  TypedLock /\ BytesInv
<1>1. StorageTypeOK /\ LockExclusive
  BY StorageInitInv DEF StorageInv, LockInv
<1>2. \A r \in Request : request[r].phase = "idle"
  BY DEF StorageInit, Idle
<1>3. /\ holders = {} /\ file = {} /\ temp = {}
      /\ \A r \in Request : staged[r] = NoDirectory
  BY DEF StorageInit
<1> QED
  BY <1>1, <1>2, <1>3
  DEF TypedLock, BytesInv, Cleared, Unfailed, Inside, Locked, Uploading, UnderWay, At

LEMMA AllStutters ==
  ASSUME UNCHANGED storageVars
  PROVE  (TypedLock => TypedLock') /\ (BytesInv => BytesInv')
BY DEF storageVars, TypedLock, StorageTypeOK, LockExclusive, OnLoop, Inside, Uploading, UnderWay,
       BytesInv, Owns, Partial, Holding, Emptying, Cleared, Unfailed, Active, At

LEMMA LockInvariance == StorageSpec => []TypedLock
<1>1. StorageInit => TypedLock
  BY AllInit
<1>2. TypedLock /\ [StorageNext]_storageVars => TypedLock'
  BY AllSteps, CrashKeeps, AllStutters DEF StorageNext
<1> QED
  BY <1>1, <1>2, PTL DEF StorageSpec

\* Every operation leaves every variable what it is declared to be, and
\* nobody is inside STORAGE_LOCK but at a step the code takes inside it.
THEOREM StorageTypes == StorageSpec => []StorageTypeOK
<1>1. TypedLock => StorageTypeOK
  BY DEF TypedLock
<1> QED
  BY <1>1, LockInvariance, PTL

\* Deleted attachments, failed uploads, delete-all and removed demo data
\* leave no bytes behind, however many requests overlap, as long as the
\* process lives, no removal fails, and delete-all fails before it has moved
\* the attachments aside or not at all.
THEOREM BytesTheorem ==
  ASSUME ~MayCrash, Fault \cap LeavingBehind = {}
  PROVE  StorageSpec => []BytesGoWithRow
<1>1. StorageInit => BytesInv
  BY AllInit
<1>2. TypedLock /\ BytesInv /\ [StorageNext]_storageVars => BytesInv'
  BY AllSteps, AllStutters DEF StorageNext, Crash
<1>3. TypedLock /\ BytesInv => BytesGoWithRow
  <2> SUFFICES ASSUME BytesInv, \A r \in Request : ~UnderWay(r)
               PROVE  /\ file \subseteq Active /\ temp = {}
                      /\ \A r \in Request : staged[r] = NoDirectory
    BY DEF BytesGoWithRow
  <2>1. \A r \in Request : \A i : ~Owns(r, i) /\ ~Partial(r, i) /\ ~Holding(r)
    BY DEF Owns, Partial, Holding, Uploading, UnderWay, At
  <2> QED
    BY <2>1 DEF BytesInv
<1> QED
  BY <1>1, <1>2, <1>3, LockInvariance, PTL DEF StorageSpec
=============================================================================
