------------------------------ MODULE Storage ------------------------------
(***************************************************************************)
(* Attachment rows and attachment files: services/attachments.py, the      *)
(* backups of services/backups.py, delete-all of services/privacy.py and   *)
(* the demo loader, which keep the two together with STORAGE_LOCK.         *)
(*                                                                         *)
(* The lock is an RLock of the API process.  Uploads run on the event      *)
(* loop: its one thread owns the lock for all of them, and an upload that  *)
(* has to wait for the lock stops the loop.  Everything else runs on a     *)
(* worker of the thread pool, which an upload needs too, for each chunk it *)
(* reads from a spooled file.  The command line creates backups in another *)
(* process, with a lock of its own.                                        *)
(*                                                                         *)
(* A commit is one step: SQLite has one writer.  Revisions are those of    *)
(* Tasks and are left out: a row is deleted if it is still active.         *)
(***************************************************************************)
EXTENDS Naturals, FiniteSets

CONSTANTS
  Attachment,    \* the identifiers uploads are given (uuid4)
  Demo,          \* the reserved identifiers of the demo attachments
  Request,       \* requests, each served once
  Null,          \* no value
  Operation,     \* the endpoints and commands clients use
  Fault,         \* the calls that may raise
  Workers,       \* the threads of the pool
  MayCrash       \* whether the API process may die

WorkerOperations == {"delete", "backup", "delete_all", "load", "reset"}
Operations == {"upload", "cli_backup"} \cup WorkerOperations

ASSUME StorageAssumption ==
  /\ Attachment \cap Demo = {} /\ Null \notin Attachment \cup Demo \cup Request
  /\ Operation \subseteq Operations
  /\ Fault \subseteq {"read", "commit", "cleanup", "unlink", "archive",
                    "stage", "root", "others", "delete_all", "putback", "purge"}
  /\ Workers \in Nat
  /\ MayCrash \in BOOLEAN

VARIABLES
  row,           \* the attachments table
  folder,        \* whether the workspace's directory exists
  file, temp,    \* the attachments and the .upload files in that directory
  staged,        \* what each delete-all has moved out of the way
  backup,        \* the verified backups: the rows and the files of each
  holders,       \* the requests inside STORAGE_LOCK
  loop,          \* the upload the event loop is blocked on
  request        \* what each request holds

storageVars == <<row, folder, file, temp, staged, backup, holders, loop, request>>

Id == Attachment \cup Demo
Directory == [folder : BOOLEAN, file : SUBSET Id, temp : SUBSET Id]
NoDirectory == [folder |-> FALSE, file |-> {}, temp |-> {}]

Phases ==
  {"idle", "want", "read", "rename", "commit", "cleanup", "unlink",
   "snapshot", "list", "archive", "stage", "root", "others", "clear", "putback", "purge",
   "files", "rows", "done", "stranded", "killed"}

RequestRecord ==
  [op : Operations, phase : Phases, id : Id \cup {Null}, rows : SUBSET Id,
   files : SUBSET Id]

Idle == [op |-> "upload", phase |-> "idle", id |-> Null, rows |-> {}, files |-> {}]

Locked ==
  {"read", "rename", "commit", "unlink", "snapshot", "list", "archive",
   "stage", "root", "others", "clear", "putback", "purge"}

\* Every variable holds what it is declared to hold, and a request is inside
\* the lock only while it is at a step the code takes inside it.
StorageTypeOK ==
  /\ row \in [Id -> {"none", "active", "deleted"}]
  /\ folder \in BOOLEAN /\ file \subseteq Id /\ temp \subseteq Id
  /\ staged \in [Request -> Directory]
  /\ backup \subseteq [rows : SUBSET Id, files : SUBSET Id]
  /\ holders \subseteq {r \in Request : request[r].phase \in Locked}
  /\ loop \in Request \cup {Null}
  /\ request \in [Request -> RequestRecord]

StorageInit ==
  /\ row = [i \in Id |-> "none"]
  /\ folder = FALSE /\ file = {} /\ temp = {}
  /\ staged = [r \in Request |-> NoDirectory]
  /\ backup = {}
  /\ holders = {}
  /\ loop = Null
  /\ request = [r \in Request |-> Idle]

-----------------------------------------------------------------------------

Active == {i \in Id : row[i] = "active"}

At(r, op, phase) == request[r].op = op /\ request[r].phase = phase

Goto(r, phase) == request' = [request EXCEPT ![r].phase = phase]

\* The request is over, and no longer inside the lock.
FinishHolding(r) ==
  /\ request' = [request EXCEPT ![r] = [Idle EXCEPT !.op = request[r].op, !.phase = "done"]]
  /\ UNCHANGED holders

Finish(r) ==
  /\ request' = [request EXCEPT ![r] = [Idle EXCEPT !.op = request[r].op, !.phase = "done"]]
  /\ holders' = holders \ {r}

OnLoop(r) == request[r].op = "upload"

\* Mutants: a lock that is not reentrant; a backup that takes no lock.
MayEnterOnce(r) == holders = {}
MayEnterUnlessBackup(r) ==
  request[r].op = "backup" \/ \A h \in holders : OnLoop(r) /\ OnLoop(h)

MayEnter(r) == \A h \in holders : OnLoop(r) /\ OnLoop(h)

UnderWay(r) == request[r].phase \notin {"idle", "done", "stranded", "killed"}

Busy == {r \in Request : request[r].op \in WorkerOperations /\ UnderWay(r)}
WorkerFree == Cardinality(Busy) < Workers
LoopRuns(r) == loop \in {Null, r}

Files == <<folder, file, temp, staged>>

-----------------------------------------------------------------------------
(* Uploads. *)

Fresh(i) ==
  /\ row[i] = "none" /\ i \notin file \cup temp
  /\ \A r \in Request :
       request[r].id # i /\ i \notin staged[r].file \cup staged[r].temp

\* The directory is made before the lock is taken.
BeginUpload(r) ==
  /\ request[r].phase = "idle"
  /\ loop = Null
  /\ \E i \in Attachment :
       /\ Fresh(i)
       /\ request' = [request EXCEPT ![r] =
            [Idle EXCEPT !.op = "upload", !.phase = "want", !.id = i]]
  /\ folder' = TRUE
  /\ UNCHANGED <<row, file, temp, staged, backup, holders, loop>>

\* The event loop is inside the lock, or stops until it is.
WaitOnLoop(r) ==
  /\ At(r, "upload", "want")
  /\ ~MayEnter(r)
  /\ loop = Null
  /\ loop' = r
  /\ UNCHANGED <<row, Files, backup, holders, request>>

OpenUpload(r) ==
  /\ At(r, "upload", "want")
  /\ MayEnter(r) /\ LoopRuns(r)
  /\ loop' = Null
  /\ \/ /\ folder
        /\ temp' = temp \cup {request[r].id}
        /\ holders' = holders \cup {r}
        /\ Goto(r, "read")
     \/ /\ ~folder
        /\ Goto(r, "cleanup")
        /\ UNCHANGED <<temp, holders>>
  /\ UNCHANGED <<row, folder, file, staged, backup>>

\* An exception leaves the lock before its handler removes the files.
RaiseUpload(r) ==
  /\ Goto(r, "cleanup")
  /\ holders' = holders \ {r}
  /\ UNCHANGED <<row, Files, backup, loop>>

\* The chunks of a large file are read by a worker; a small one, which the
\* loop reads by itself, waits for less.
ReadUpload(r) ==
  /\ At(r, "upload", "read")
  /\ LoopRuns(r) /\ WorkerFree
  /\ \/ Goto(r, "rename") /\ UNCHANGED <<row, Files, backup, holders, loop>>
     \/ "read" \in Fault /\ RaiseUpload(r)

RenameUpload(r) ==
  /\ At(r, "upload", "rename")
  /\ LoopRuns(r)
  /\ temp' = temp \ {request[r].id}
  /\ file' = file \cup {request[r].id}
  /\ Goto(r, "commit")
  /\ UNCHANGED <<row, folder, staged, backup, holders, loop>>

CommitUpload(r) ==
  /\ At(r, "upload", "commit")
  /\ LoopRuns(r)
  /\ \/ /\ row' = [row EXCEPT ![request[r].id] = "active"]
        /\ Finish(r)
        /\ UNCHANGED <<Files, backup, loop>>
     \/ "commit" \in Fault /\ RaiseUpload(r)

\* Mutant: only the partial file is removed.
CleanupPartial(r) ==
  /\ At(r, "upload", "cleanup")
  /\ LoopRuns(r)
  /\ temp' = temp \ {request[r].id}
  /\ Finish(r)
  /\ UNCHANGED <<row, folder, file, staged, backup, loop>>

\* The second file is not looked at if removing the first raises.
CleanupUpload(r) ==
  /\ At(r, "upload", "cleanup")
  /\ LoopRuns(r)
  /\ \/ temp' = temp \ {request[r].id} /\ file' = file \ {request[r].id}
     \/ /\ "cleanup" \in Fault
        /\ temp' \in {temp, temp \ {request[r].id}}
        /\ UNCHANGED file
  /\ Finish(r)
  /\ UNCHANGED <<row, folder, staged, backup, loop>>

Upload(r) ==
  \/ WaitOnLoop(r) \/ OpenUpload(r) \/ ReadUpload(r) \/ RenameUpload(r)
  \/ CommitUpload(r) \/ CleanupUpload(r)

-----------------------------------------------------------------------------
(* Requests on a worker. *)

BeginWorker(r, op, phase, i) ==
  /\ request[r].phase = "idle"
  /\ WorkerFree /\ loop = Null
  /\ request' = [request EXCEPT ![r] = [Idle EXCEPT !.op = op, !.phase = phase, !.id = i]]
  /\ UNCHANGED <<row, Files, backup, holders, loop>>

\* The lock is taken; from then on the request is at phase.
Enter(r, op, phase) ==
  /\ At(r, op, "want")
  /\ MayEnter(r)
  /\ holders' = holders \cup {r}
  /\ Goto(r, phase)
  /\ UNCHANGED <<row, Files, backup, loop>>

\* The row and its path are read before the lock is taken.
BeginDelete(r) == \E i \in Active : BeginWorker(r, "delete", "want", i)

CommitDelete(r) ==
  /\ At(r, "delete", "commit")
  /\ \/ /\ request[r].id \in Active
        /\ row' = [row EXCEPT ![request[r].id] = "deleted"]
        /\ Goto(r, "unlink")
        /\ UNCHANGED holders
     \/ /\ request[r].id \notin Active \/ "commit" \in Fault
        /\ Finish(r)
        /\ UNCHANGED row
  /\ UNCHANGED <<Files, backup, loop>>

UnlinkDeleted(r) ==
  /\ At(r, "delete", "unlink")
  /\ \/ file' = file \ {request[r].id}
     \/ "unlink" \in Fault /\ UNCHANGED file
  /\ Finish(r)
  /\ UNCHANGED <<row, folder, temp, staged, backup, loop>>

Delete(r) == Enter(r, "delete", "commit") \/ CommitDelete(r) \/ UnlinkDeleted(r)

(* Backups: the database is copied, then the files are listed and hashed,  *)
(* then they are archived; .upload files are passed over.                  *)

BeginBackup(r) == BeginWorker(r, "backup", "want", Null)

BeginCliBackup(r) ==
  /\ request[r].phase = "idle"
  /\ request' = [request EXCEPT ![r] = [Idle EXCEPT !.op = "cli_backup", !.phase = "snapshot"]]
  /\ UNCHANGED <<row, Files, backup, holders, loop>>

BackingUp(r, phase) == \E op \in {"backup", "cli_backup"} : At(r, op, phase)

Snapshot(r) ==
  /\ BackingUp(r, "snapshot")
  /\ request' = [request EXCEPT ![r].phase = "list", ![r].rows = Active]
  /\ UNCHANGED <<row, Files, backup, holders, loop>>

ListFiles(r) ==
  /\ BackingUp(r, "list")
  /\ request' = [request EXCEPT ![r].phase = "archive", ![r].files = file]
  /\ UNCHANGED <<row, Files, backup, holders, loop>>

\* The archive fails if a listed file is gone; it is verified against what
\* was listed, and then renamed into place.
Archive(r) ==
  /\ BackingUp(r, "archive")
  /\ \/ /\ request[r].files \subseteq file
        /\ backup' = backup \cup {[rows |-> request[r].rows, files |-> request[r].files]}
     \/ /\ ~(request[r].files \subseteq file) \/ "archive" \in Fault
        /\ UNCHANGED backup
  /\ Finish(r)
  /\ UNCHANGED <<row, Files, loop>>

Backup(r) == Enter(r, "backup", "snapshot") \/ Snapshot(r) \/ ListFiles(r) \/ Archive(r)

(* Delete-all: the directory is moved aside and made anew, so are those of *)
(* the imports and the backups, and all are put back if one of them or the *)
(* database raises.  A directory that is not there counts as an empty one; *)
(* the seed data has no attachments.                                       *)

BeginDeleteAll(r) == BeginWorker(r, "delete_all", "want", Null)

\* The request has raised and left what it has moved aside where it is.
Strand(r) ==
  /\ request' = [request EXCEPT ![r] = [Idle EXCEPT !.op = request[r].op, !.phase = "stranded"]]
  /\ holders' = holders \ {r}

Move(r) ==
  /\ staged' = [staged EXCEPT ![r] = [folder |-> folder, file |-> file, temp |-> temp]]
  /\ folder' = FALSE /\ file' = {} /\ temp' = {}

StageDirectory(r) ==
  /\ At(r, "delete_all", "stage")
  /\ \/ Move(r) /\ Goto(r, "root") /\ UNCHANGED holders
     \/ "stage" \in Fault /\ Finish(r) /\ UNCHANGED Files
  /\ UNCHANGED <<row, backup, loop>>

\* Only now is the move on the list of what is to be put back.
MakeRoot(r) ==
  /\ At(r, "delete_all", "root")
  /\ \/ Goto(r, "others") /\ UNCHANGED holders
     \/ "root" \in Fault /\ Strand(r)
  /\ UNCHANGED <<row, Files, backup, loop>>

StageOthers(r) ==
  /\ At(r, "delete_all", "others")
  /\ Goto(r, "commit") \/ ("others" \in Fault /\ Goto(r, "clear"))
  /\ UNCHANGED <<row, Files, backup, holders, loop>>

\* Mutant: what was staged is not put back.
CommitDeleteAllOnly(r) ==
  /\ At(r, "delete_all", "commit")
  /\ \/ /\ row' = [i \in Id |-> "none"]
        /\ Goto(r, "purge")
        /\ UNCHANGED holders
     \/ /\ "delete_all" \in Fault
        /\ Finish(r)
        /\ UNCHANGED row
  /\ UNCHANGED <<Files, backup, loop>>

CommitDeleteAll(r) ==
  /\ At(r, "delete_all", "commit")
  /\ \/ row' = [i \in Id |-> "none"] /\ Goto(r, "purge")
     \/ "delete_all" \in Fault /\ Goto(r, "clear") /\ UNCHANGED row
  /\ UNCHANGED <<Files, backup, holders, loop>>

\* The attachments come last: if an earlier directory cannot be put back they
\* are not.  That the new directory cannot be removed is ignored.
ClearRoot(r) ==
  /\ At(r, "delete_all", "clear")
  /\ \/ /\ folder' = FALSE /\ file' = {} /\ temp' = {}
        /\ Goto(r, "putback")
        /\ UNCHANGED <<staged, holders>>
     \/ /\ "putback" \in Fault
        /\ Strand(r) \/ (Goto(r, "putback") /\ UNCHANGED holders)
        /\ UNCHANGED Files
  /\ UNCHANGED <<row, backup, loop>>

\* A rename replaces an empty directory, and raises if an upload has made its
\* own inside, for which it takes no lock.
PutBack(r) ==
  /\ At(r, "delete_all", "putback")
  /\ \/ /\ ~folder
        /\ folder' = staged[r].folder /\ file' = staged[r].file /\ temp' = staged[r].temp
        /\ staged' = [staged EXCEPT ![r] = NoDirectory]
        /\ Finish(r)
     \/ /\ folder \/ "putback" \in Fault
        /\ Strand(r)
        /\ UNCHANGED Files
  /\ UNCHANGED <<row, backup, loop>>

PurgeStaged(r) ==
  /\ At(r, "delete_all", "purge")
  /\ \/ staged' = [staged EXCEPT ![r] = NoDirectory]
     \/ "purge" \in Fault /\ UNCHANGED staged
  /\ Finish(r)
  /\ UNCHANGED <<row, folder, file, temp, backup, loop>>

DeleteAll(r) ==
  \/ Enter(r, "delete_all", "stage")
  \/ StageDirectory(r) \/ MakeRoot(r) \/ StageOthers(r) \/ CommitDeleteAll(r)
  \/ ClearRoot(r) \/ PutBack(r) \/ PurgeStaged(r)

(* Demo data: the files are written inside the lock, the rows and the      *)
(* removal of the files after a failure are not.                           *)

BeginLoad(r) == BeginWorker(r, "load", "files", Null)

CopyDemo(r) ==
  /\ At(r, "load", "files")
  /\ MayEnter(r)
  /\ folder' = TRUE /\ file' = file \cup Demo
  /\ Goto(r, "rows")
  /\ UNCHANGED <<row, temp, staged, backup, holders, loop>>

ReadDemo(r) ==
  /\ At(r, "load", "rows")
  /\ request' = [request EXCEPT ![r].phase = "commit",
                                ![r].rows = {i \in Demo : row[i] # "none"}]
  /\ UNCHANGED <<row, Files, backup, holders, loop>>

\* Rows that were not there when they were looked for are not deleted, and
\* are inserted once more in vain if they have come in between.
CommitLoad(r) ==
  /\ At(r, "load", "commit")
  /\ \/ /\ \A i \in Demo \ request[r].rows : row[i] = "none"
        /\ row' = [i \in Id |-> IF i \in Demo THEN "active" ELSE row[i]]
        /\ Finish(r)
     \/ /\ (\E i \in Demo \ request[r].rows : row[i] # "none") \/ "commit" \in Fault
        /\ Goto(r, "cleanup")
        /\ UNCHANGED <<row, holders>>
  /\ UNCHANGED <<Files, backup, loop>>

CleanupLoad(r) ==
  /\ At(r, "load", "cleanup")
  /\ file' = file \ Demo
  /\ Finish(r)
  /\ UNCHANGED <<row, folder, temp, staged, backup, loop>>

Load(r) == CopyDemo(r) \/ ReadDemo(r) \/ CommitLoad(r) \/ CleanupLoad(r)

BeginReset(r) == BeginWorker(r, "reset", "commit", Null)

CommitReset(r) ==
  /\ At(r, "reset", "commit")
  /\ \/ /\ row' = [i \in Id |-> IF i \in Demo THEN "none" ELSE row[i]]
        /\ Goto(r, "cleanup")
        /\ UNCHANGED holders
     \/ /\ "commit" \in Fault
        /\ Finish(r)
        /\ UNCHANGED row
  /\ UNCHANGED <<Files, backup, loop>>

RemoveDemoFiles(r) ==
  /\ At(r, "reset", "cleanup")
  /\ MayEnter(r)
  /\ file' = file \ Demo
  /\ Finish(r)
  /\ UNCHANGED <<row, folder, temp, staged, backup, loop>>

Reset(r) == CommitReset(r) \/ RemoveDemoFiles(r)

-----------------------------------------------------------------------------

Begin(r) ==
  \/ "upload" \in Operation /\ BeginUpload(r)
  \/ "delete" \in Operation /\ BeginDelete(r)
  \/ "backup" \in Operation /\ BeginBackup(r)
  \/ "cli_backup" \in Operation /\ BeginCliBackup(r)
  \/ "delete_all" \in Operation /\ BeginDeleteAll(r)
  \/ "load" \in Operation /\ BeginLoad(r)
  \/ "reset" \in Operation /\ BeginReset(r)

Step(r) == Upload(r) \/ Delete(r) \/ Backup(r) \/ DeleteAll(r) \/ Load(r) \/ Reset(r)

\* The API process dies and starts again: what its requests held is gone,
\* the lock with it, and the files are as they were.
Crash ==
  /\ MayCrash
  /\ \E r \in Request : UnderWay(r)
  /\ holders' = {}
  /\ loop' = Null
  /\ request' = [r \in Request |->
       IF UnderWay(r) /\ request[r].op # "cli_backup"
       THEN [Idle EXCEPT !.op = request[r].op, !.phase = "killed"]
       ELSE request[r]]
  /\ UNCHANGED <<row, Files, backup>>

StorageNext == Crash \/ \E r \in Request : Begin(r) \/ Step(r)

StorageSpec == StorageInit /\ [][StorageNext]_storageVars

\* The loop and every worker run what is ready: a request that can take its
\* next step for good takes it.  Clients need not send requests.
FairStorage == StorageSpec /\ \A r \in Request : WF_storageVars(Step(r))

-----------------------------------------------------------------------------
(* Properties. *)

\* Where delete-all has moved the directory aside and may have to put it back.
MayPutBack == {"root", "others", "commit", "clear", "putback"}

\* The files that a delete-all in one of some phases has moved aside.
AsideIn(phases) ==
  UNION {staged[r].file : r \in {q \in Request : request[q].op = "delete_all"
                                                 /\ request[q].phase \in phases}}

\* What a delete-all that was killed, or that could not put the directory
\* back, has left where no download and no start of the process looks.
LeftAside == AsideIn({"stranded", "killed"})

\* The bytes of every attachment the API shows are where download looks for
\* them, or where a delete-all that has not emptied the database keeps them:
\* to put them back from while it is under way, for good once it was killed or
\* putting them back has raised.
RowHasFile == Active \subseteq file \cup AsideIn(MayPutBack) \cup LeftAside

\* A backup that is reported as verified holds the bytes of every attachment
\* its database names (backup-format.md: one application point in time), but
\* for those that such a delete-all had left aside.
BackupConsistent == \A b \in backup : b.rows \subseteq b.files \cup LeftAside

\* docs/privacy.md:95: "File directories are staged for rollback until the
\* database reset succeeds."  A delete-all that fails leaves the attachments
\* where they were.
FailedDeleteAllRollsBack ==
  \A r \in Request : At(r, "delete_all", "stranded") => Active \cap staged[r].file = {}

\* When no request is under way, there are no bytes without a row: a deleted
\* attachment, a failed upload, delete-all and a removed demo leave nothing
\* behind.
BytesGoWithRow ==
  (\A r \in Request : ~UnderWay(r)) =>
    /\ file \subseteq Active /\ temp = {}
    /\ \A r \in Request : staged[r] = NoDirectory

\* No request waits for ever: uploads that share the loop's lock, workers
\* that wait for it and reads that wait for a worker do not block each other
\* as long as there are more workers than requests waiting.
EveryRequestEnds ==
  \A r \in Request : UnderWay(r) ~> ~UnderWay(r)
=============================================================================
