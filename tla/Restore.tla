------------------------------ MODULE Restore ------------------------------
(***************************************************************************)
(* Restoring a backup: restore_backup and _activate_restore of             *)
(* services/backups.py, run by the command line while the API is stopped.  *)
(*                                                                         *)
(* Activation replaces the database file and the attachments directory     *)
(* one after the other.  Each call that touches the disk is one step and   *)
(* may raise; the process may die between two of them, and nothing looks   *)
(* at the leftovers when the program starts again.                         *)
(*                                                                         *)
(* create_backup refuses a missing database and creates a missing          *)
(* attachments directory, so both exist when activation starts:            *)
(* had_database and had_attachments are true and not modelled.             *)
(***************************************************************************)
EXTENDS FiniteSets

CONSTANTS
  Attempt,       \* the restores, each with the identifier of its files
  Version,       \* what a database or an attachments directory may hold
  First, Source, \* versions: the workspace at first, and a backup of it
  Failing        \* the steps that may raise

Steps ==
  {"extract", "safety", "copy", "keep", "aside", "placeAttachments",
   "placeDatabase", "check", "undoDatabase", "undoClear", "undoAttachments",
   "report", "dropDatabase", "dropAttachments"}

ASSUME RestoreAssumption ==
  /\ {First, Source} \subseteq Version /\ First # Source
  /\ Failing \subseteq Steps
  /\ Version \cap {"absent", "empty", "partial"} = {}

VARIABLES
  live,          \* the database file and the attachments directory in use
  kept,          \* .restore-current-<id>.db, .restore-current-<id>-attachments
  copy,          \* .restore-new-<id>.db
  safety,        \* the pre-restore safety backup of each attempt
  source,        \* the extracted archive of each attempt
  step,          \* where the running attempt is; "idle": none runs
  current,       \* the attempt that runs, or ran last since the workspace was used
  swapped,       \* database_swapped and attachments_swapped
  failures,      \* rollback_failures
  outcome        \* how each attempt ended

restoreVars ==
  <<live, kept, copy, safety, source, step, current, swapped, failures, outcome>>

\* "absent": no such file; "empty": a directory just made; "partial": a copy
\* or a removal that did not complete.
Content == Version \cup {"absent", "empty", "partial"}
Part == {"database", "attachments"}
Workspace == [Part -> Content]

Workspaces(v) == [p \in Part |-> v]
Missing == Workspaces("absent")

Outcomes ==
  {"none", "running", "success", "restore_rolled_back",
   "restore_recovery_required", "error", "cleanup_error", "crash"}

\* Every variable holds what it is declared to hold: an attempt that names
\* files by its identifier, its outcome among those the code reports.
RestoreTypeOK ==
  /\ live \in Workspace
  /\ kept \in [Attempt -> Workspace]
  /\ copy \in [Attempt -> Content]
  /\ safety \in [Attempt -> Workspace]
  /\ source \in [Attempt -> Workspace]
  /\ step \in Steps \cup {"idle"}
  /\ current \subseteq Attempt
  /\ swapped \subseteq Part
  /\ failures \subseteq Part
  /\ outcome \in [Attempt -> Outcomes]

RestoreInit ==
  /\ live = Workspaces(First)
  /\ kept = [a \in Attempt |-> Missing]
  /\ copy = [a \in Attempt |-> "absent"]
  /\ safety = [a \in Attempt |-> Missing]
  /\ source = [a \in Attempt |-> Missing]
  /\ step = "idle"
  /\ current = {}
  /\ swapped = {}
  /\ failures = {}
  /\ outcome = [a \in Attempt |-> "none"]

-----------------------------------------------------------------------------

\* Mutant: an archive without attachments is extracted without a directory.
BackupsAsArchived ==
  {[Workspaces(Source) EXCEPT !["attachments"] = "nothing"]} \cup
  {safety[a] : a \in {b \in Attempt : safety[b] # Missing}}

\* What the verified backups in data/backups are extracted to: a database
\* and a directory, if only an empty one.
Backups ==
  {Workspaces(Source)} \cup {safety[a] : a \in {b \in Attempt : safety[b] # Missing}}

Contents ==
  UNION {{w[p] : p \in Part} : w \in {live} \cup Backups \cup {kept[a] : a \in Attempt}}

EnsureDirectories(workspace) ==
  IF workspace["attachments"] = "absent"
    THEN [workspace EXCEPT !["attachments"] = "empty"] ELSE workspace

Raises == step \in Failing

\* The step does what it does, and the attempt goes on at next.
Proceed(next) ==
  /\ step' = next
  /\ UNCHANGED <<safety, source, current, outcome>>

End(a, result) ==
  /\ step' = "idle"
  /\ outcome' = [outcome EXCEPT ![a] = result]
  /\ UNCHANGED <<safety, source, current>>

Files == <<live, kept, copy>>
Flags == <<swapped, failures>>

\* The exception handler is entered, or left for the finally clause.
Undo == Proceed("undoDatabase") /\ UNCHANGED <<Files, Flags>>

-----------------------------------------------------------------------------
(* The steps of attempt a. *)

\* The archive is inspected and extracted before the storage lock is taken.
Begin(a) ==
  /\ step = "idle"
  /\ outcome[a] = "none"
  /\ \E b \in Backups : source' = [source EXCEPT ![a] = b]
  /\ step' = "extract"
  /\ current' = {a}
  /\ outcome' = [outcome EXCEPT ![a] = "running"]
  /\ swapped' = {} /\ failures' = {}
  /\ UNCHANGED <<Files, safety>>

Extract(a) ==
  /\ step = "extract"
  /\ \/ Proceed("safety")
     \/ Raises /\ End(a, "error")
  /\ UNCHANGED <<Files, Flags>>

SafetyBackup(a) ==
  /\ step = "safety"
  /\ live' = EnsureDirectories(live)
  /\ \/ /\ safety' = [safety EXCEPT ![a] = live']
        /\ step' = "copy"
        /\ UNCHANGED <<source, current, outcome>>
     \/ Raises /\ End(a, "error")
  /\ UNCHANGED <<kept, copy, Flags>>

\* A copy that raises leaves what it had written.  The two copies are made
\* outside the try statement.
CopyNew(a) ==
  /\ step = "copy"
  /\ \/ copy' = [copy EXCEPT ![a] = source[a]["database"]] /\ Proceed("keep")
     \/ Raises /\ copy' = [copy EXCEPT ![a] = "partial"] /\ End(a, "error")
  /\ UNCHANGED <<live, kept, Flags>>

KeepDatabase(a) ==
  /\ step = "keep"
  /\ \/ kept' = [kept EXCEPT ![a]["database"] = live["database"]] /\ Proceed("aside")
     \/ Raises /\ kept' = [kept EXCEPT ![a]["database"] = "partial"] /\ End(a, "error")
  /\ UNCHANGED <<live, copy, Flags>>

\* Unlinking the sidecar files, of which a database in rollback-journal mode
\* has none, fails like moving the directory: nothing has moved yet.
MoveAside(a) ==
  /\ step = "aside"
  /\ \/ /\ kept' = [kept EXCEPT ![a]["attachments"] = live["attachments"]]
        /\ live' = [live EXCEPT !["attachments"] = "absent"]
        /\ Proceed("placeAttachments")
        /\ UNCHANGED <<copy, Flags>>
     \/ Raises /\ Undo

PlaceAttachments(a) ==
  /\ step = "placeAttachments"
  /\ \/ /\ live' = [live EXCEPT !["attachments"] = source[a]["attachments"]]
        /\ swapped' = swapped \cup {"attachments"}
        /\ Proceed("placeDatabase")
        /\ UNCHANGED <<kept, copy, failures>>
     \/ Raises /\ Undo

\* Mutant: database_swapped is not set.
PlaceDatabaseUnmarked(a) ==
  /\ step = "placeDatabase"
  /\ \/ /\ live' = [live EXCEPT !["database"] = copy[a]]
        /\ copy' = [copy EXCEPT ![a] = "absent"]
        /\ Proceed("check")
        /\ UNCHANGED <<kept, Flags>>
     \/ Raises /\ Undo

PlaceDatabase(a) ==
  /\ step = "placeDatabase"
  /\ \/ /\ live' = [live EXCEPT !["database"] = copy[a]]
        /\ copy' = [copy EXCEPT ![a] = "absent"]
        /\ swapped' = swapped \cup {"database"}
        /\ Proceed("check")
        /\ UNCHANGED <<kept, failures>>
     \/ Raises /\ Undo

QuickCheck(a) ==
  /\ step = "check"
  /\ \/ Proceed("dropDatabase") /\ UNCHANGED <<Files, Flags>>
     \/ Raises /\ Undo

UndoDatabase(a) ==
  /\ step = "undoDatabase"
  /\ \/ /\ "database" \in swapped
        /\ live' = [live EXCEPT !["database"] = kept[a]["database"]]
        /\ kept' = [kept EXCEPT ![a]["database"] = "absent"]
        /\ UNCHANGED <<copy, Flags>>
     \/ /\ "database" \in swapped /\ Raises
        /\ failures' = failures \cup {"database"}
        /\ UNCHANGED <<Files, swapped>>
     \/ /\ "database" \notin swapped
        /\ UNCHANGED <<Files, Flags>>
  /\ Proceed("undoClear")

UndoClear(a) ==
  /\ step = "undoClear"
  /\ \/ /\ "attachments" \in swapped
        /\ live' = [live EXCEPT !["attachments"] = "absent"]
        /\ Proceed("undoAttachments")
        /\ UNCHANGED <<kept, copy, Flags>>
     \/ /\ "attachments" \in swapped /\ Raises
        /\ live' = [live EXCEPT !["attachments"] = "partial"]
        /\ failures' = failures \cup {"attachments"}
        /\ Proceed("report")
        /\ UNCHANGED <<kept, copy, swapped>>
     \/ /\ "attachments" \notin swapped
        /\ Proceed("report")
        /\ UNCHANGED <<Files, Flags>>

\* Mutant: a rename that raises is not among the failures.
UndoAttachmentsQuietly(a) ==
  /\ step = "undoAttachments"
  /\ \/ /\ live' = [live EXCEPT !["attachments"] = kept[a]["attachments"]]
        /\ kept' = [kept EXCEPT ![a]["attachments"] = "absent"]
     \/ Raises /\ UNCHANGED <<live, kept>>
  /\ Proceed("report")
  /\ UNCHANGED <<copy, Flags>>

UndoAttachments(a) ==
  /\ step = "undoAttachments"
  /\ \/ /\ live' = [live EXCEPT !["attachments"] = kept[a]["attachments"]]
        /\ kept' = [kept EXCEPT ![a]["attachments"] = "absent"]
        /\ UNCHANGED failures
     \/ /\ Raises
        /\ failures' = failures \cup {"attachments"}
        /\ UNCHANGED <<live, kept>>
  /\ Proceed("report")
  /\ UNCHANGED <<copy, swapped>>

\* Mutant: the finally clause removes what was kept too.
ReportAndRemove(a) ==
  /\ step = "report"
  /\ copy' = [copy EXCEPT ![a] = "absent"]
  /\ kept' = [kept EXCEPT ![a] = Missing]
  /\ End(a, IF failures = {} THEN "restore_rolled_back" ELSE "restore_recovery_required")
  /\ UNCHANGED <<live, Flags>>

\* The exception is raised, but the finally clause may raise another one in
\* its place if there is a copy to remove.
Report(a) ==
  /\ step = "report"
  /\ \/ /\ copy' = [copy EXCEPT ![a] = "absent"]
        /\ End(a, IF failures = {} THEN "restore_rolled_back" ELSE "restore_recovery_required")
     \/ /\ copy[a] # "absent" /\ Raises
        /\ End(a, "error")
        /\ UNCHANGED copy
  /\ UNCHANGED <<live, kept, Flags>>

DropDatabase(a) ==
  /\ step = "dropDatabase"
  /\ \/ /\ kept' = [kept EXCEPT ![a]["database"] = "absent"]
        /\ Proceed("dropAttachments")
     \/ /\ Raises
        /\ End(a, "cleanup_error")
        /\ UNCHANGED kept
  /\ UNCHANGED <<live, copy, Flags>>

DropAttachments(a) ==
  /\ step = "dropAttachments"
  /\ \/ kept' = [kept EXCEPT ![a]["attachments"] = "absent"] /\ End(a, "success")
     \/ Raises /\ kept' = [kept EXCEPT ![a]["attachments"] = "partial"] /\ End(a, "cleanup_error")
  /\ UNCHANGED <<live, copy, Flags>>

-----------------------------------------------------------------------------

\* The process dies before the step, or while it copies or removes a tree.
Crash(a) ==
  /\ step # "idle"
  /\ \/ UNCHANGED Files
     \/ /\ step = "copy" /\ copy' = [copy EXCEPT ![a] = "partial"]
        /\ UNCHANGED <<live, kept>>
     \/ /\ step = "keep" /\ kept' = [kept EXCEPT ![a]["database"] = "partial"]
        /\ UNCHANGED <<live, copy>>
     \/ /\ step = "undoClear" /\ "attachments" \in swapped
        /\ live' = [live EXCEPT !["attachments"] = "partial"]
        /\ UNCHANGED <<kept, copy>>
     \/ /\ step = "dropAttachments"
        /\ kept' = [kept EXCEPT ![a]["attachments"] = "partial"]
        /\ UNCHANGED <<live, copy>>
  /\ End(a, "crash")
  /\ UNCHANGED Flags

\* The application runs on whatever it finds, and the workspace changes.
Use ==
  /\ step = "idle"
  /\ \E p \in Part, v \in Version \ Contents :
       live' = [EnsureDirectories(live) EXCEPT ![p] = v]
  /\ current' = {}
  /\ UNCHANGED <<kept, copy, Flags, safety, source, step, outcome>>

Activate(a) ==
  \/ CopyNew(a) \/ KeepDatabase(a) \/ MoveAside(a) \/ PlaceAttachments(a)
  \/ PlaceDatabase(a) \/ QuickCheck(a)
  \/ UndoDatabase(a) \/ UndoClear(a) \/ UndoAttachments(a) \/ Report(a)
  \/ DropDatabase(a) \/ DropAttachments(a)

Restore(a) ==
  Begin(a) \/ (a \in current /\ (Extract(a) \/ SafetyBackup(a) \/ Activate(a) \/ Crash(a)))

RestoreNext == Use \/ \E a \in Attempt : Restore(a)

RestoreSpec == RestoreInit /\ [][RestoreNext]_restoreVars

-----------------------------------------------------------------------------
(* Properties. *)

Activated(a) ==
  \/ step \in {"dropDatabase", "dropAttachments"}
  \/ outcome[a] \in {"success", "cleanup_error"}
  \/ outcome[a] = "crash" /\ live = source[a]

\* From the safety backup on, each half of the workspace an attempt found is
\* still there, in place or aside, until both halves of the new one are in
\* place: neither a failure, nor a failure while undoing, nor a crash leaves
\* the safety archive as the only copy of the user's data.
OriginalKept ==
  \A a \in current :
    safety[a] # Missing /\ ~Activated(a) =>
      \A p \in Part : safety[a][p] \in {live[p], kept[a][p]}

\* A restore that reports success, or that raises only because it could not
\* remove what it had set aside, put both halves of the backup in place; one
\* that says the original workspace was restored has at least put its
\* database back, whichever call of the activation raised.
OutcomeIsTrue ==
  [][\A a \in Attempt : outcome'[a] # outcome[a] =>
       /\ outcome'[a] \in {"success", "cleanup_error"} => live' = source[a]
       /\ outcome'[a] = "restore_rolled_back" =>
            live'["database"] = safety[a]["database"]]_restoreVars

\* A restore that asks for manual recovery names what is needed for it: each
\* half that is not back in place is at the path the error lists.
RecoveryNamesWhatIsKept ==
  [][\A a \in Attempt :
       outcome'[a] # outcome[a] /\ outcome'[a] = "restore_recovery_required" =>
         \A p \in Part :
           \/ live'[p] = safety[a][p] /\ p \notin failures
           \/ kept'[a][p] = safety[a][p] /\ p \in failures]_restoreVars

\* A restore that says the original workspace was restored has restored it
\* (backup-format.md: any exception after activation begins swaps the
\* preserved original database and attachments back).
RolledBackMeansOriginal ==
  [][\A a \in Attempt :
       outcome'[a] # outcome[a] /\ outcome'[a] = "restore_rolled_back" =>
         live' = safety[a]]_restoreVars
=============================================================================
