--------------------------- MODULE RestoreProofs ---------------------------
(***************************************************************************)
(* What the runs of Restore check, for every number of restores and every  *)
(* content of the workspace.                                               *)
(***************************************************************************)
EXTENDS Restore, TLAPS

(***************************************************************************)
(* The inductive invariant.  One attempt runs at a time, and each step     *)
(* finds what the steps before it left: where the two halves of the        *)
(* original workspace and of the backup are, and what the flags say.       *)
(***************************************************************************)
Attempts ==
  /\ \A a, b \in current : a = b
  /\ \A a \in Attempt : outcome[a] = "none" => safety[a] = Missing
  /\ \A a \in Attempt : outcome[a] = "running" <=> step # "idle" /\ a \in current
  /\ step # "idle" => current # {}

Before == {"extract", "safety", "copy", "keep", "aside", "placeAttachments"}
Undoing == {"undoClear", "undoAttachments", "report"}

FlagsAtStep ==
  /\ step \in Before => swapped = {}
  /\ step = "placeDatabase" => swapped = {"attachments"}
  /\ step = "check" => swapped = Part
  /\ step \in Before \cup {"placeDatabase", "check", "undoDatabase"} => failures = {}
  /\ "database" \in swapped => "attachments" \in swapped
  /\ step \in Undoing /\ "database" \in failures => "attachments" \in swapped
  /\ step \in {"undoClear", "undoAttachments"} => "attachments" \notin failures

DatabaseAtStep(a) ==
  LET original == safety[a]["database"]
  IN /\ step \in {"copy", "keep", "aside", "placeAttachments", "placeDatabase"} =>
          live["database"] = original
     /\ step \in {"aside", "placeAttachments", "placeDatabase", "check"} =>
          kept[a]["database"] = original
     /\ step \in {"keep", "aside", "placeAttachments", "placeDatabase"} =>
          copy[a] = source[a]["database"]
     /\ step = "undoDatabase" =>
          IF "database" \in swapped THEN kept[a]["database"] = original
                                    ELSE live["database"] = original
     /\ step \in Undoing =>
          IF "database" \in failures THEN kept[a]["database"] = original
                                     ELSE live["database"] = original

AttachmentsAtStep(a) ==
  LET original == safety[a]["attachments"]
  IN /\ step \in {"copy", "keep", "aside"} => live["attachments"] = original
     /\ step \in {"placeAttachments", "placeDatabase", "check", "undoAttachments"} =>
          kept[a]["attachments"] = original
     /\ step \in {"placeDatabase"} => live["attachments"] = source[a]["attachments"]
     /\ step \in {"undoDatabase", "undoClear"} =>
          IF "attachments" \in swapped
          THEN kept[a]["attachments"] = original
          ELSE original \in {live["attachments"], kept[a]["attachments"]}
     /\ step = "report" =>
          IF "attachments" \in failures THEN kept[a]["attachments"] = original
          ELSE IF "attachments" \in swapped THEN live["attachments"] = original
          ELSE original \in {live["attachments"], kept[a]["attachments"]}

AtStep(a) ==
  /\ step \in {"extract", "safety"} => safety[a] = Missing
  /\ step \in {"check", "dropDatabase", "dropAttachments"} => live = source[a]
  /\ DatabaseAtStep(a)
  /\ AttachmentsAtStep(a)
  /\ step = "idle" /\ safety[a] # Missing /\ ~Activated(a) =>
       \A p \in Part : safety[a][p] \in {live[p], kept[a][p]}

RestoreInv ==
  /\ RestoreTypeOK
  /\ Attempts
  /\ FlagsAtStep
  /\ \A a \in current : AtStep(a)

(***************************************************************************)
(* Helpers.                                                                *)
(***************************************************************************)
\* What a running attempt can count on.
LEMMA Running ==
  ASSUME RestoreInv, NEW a \in current, step # "idle"
  PROVE  a \in Attempt /\ current = {a} /\ outcome[a] = "running"
BY DEF RestoreInv, RestoreTypeOK, Attempts

\* Two halves make a workspace.
LEMMA WorkspaceEq ==
  ASSUME NEW v \in Workspace, NEW w \in Workspace,
         v["database"] = w["database"], v["attachments"] = w["attachments"]
  PROVE  v = w
BY DEF Workspace, Part

\* An attempt that goes on stays the one that runs, one that ends leaves none
\* running.
LEMMA AttemptsGoOn ==
  ASSUME RestoreInv, NEW a \in current, step # "idle", NEW next \in Steps, Proceed(next)
  PROVE  Attempts' /\ current' = {a}
BY Running DEF RestoreInv, RestoreTypeOK, Attempts, Proceed, Steps

LEMMA AttemptsEnd ==
  ASSUME RestoreInv, NEW a \in current, step # "idle",
         NEW result \in Outcomes \ {"none", "running"}, End(a, result)
  PROVE  Attempts' /\ current' = {a} /\ outcome'[a] = result
BY Running DEF RestoreInv, RestoreTypeOK, Attempts, End

\* Nothing happens to the workspace before the safety backup.
LEMMA ExtractKeeps ==
  ASSUME RestoreInv, NEW a \in current, Extract(a)
  PROVE  RestoreInv'
<1>1. a \in Attempt /\ step = "extract" /\ AtStep(a)
  BY Running DEF Extract, RestoreInv
<1>2. CASE Proceed("safety") /\ UNCHANGED <<Files, Flags>>
  <2>1. Attempts' /\ current' = {a}
    BY <1>1, <1>2, AttemptsGoOn DEF Steps
  <2>2. RestoreTypeOK'
    BY <1>1, <1>2 DEF RestoreInv, RestoreTypeOK, Proceed, Files, Flags, Steps, Workspace, Part, Content, Outcomes
  <2>3. FlagsAtStep'
    BY <1>1, <1>2 DEF RestoreInv, FlagsAtStep, Proceed, Files, Flags, Before, Undoing, Part
  <2>5. AtStep(a)'
    BY <1>1, <1>2 DEF AtStep, DatabaseAtStep, AttachmentsAtStep, RestoreInv, FlagsAtStep, Proceed, Files, Flags, Before, Undoing, Part
  <2> QED BY <2>1, <2>2, <2>3, <2>5 DEF RestoreInv
<1>3. CASE End(a, "error") /\ UNCHANGED <<Files, Flags>>
  <2>1. Attempts' /\ current' = {a} /\ outcome'[a] = "error"
    BY <1>1, <1>3, AttemptsEnd DEF Outcomes
  <2>2. RestoreTypeOK'
    BY <1>1, <1>3 DEF RestoreInv, RestoreTypeOK, End, Files, Flags, Steps, Workspace, Part, Content, Outcomes
  <2>3. FlagsAtStep'
    BY <1>1, <1>3 DEF RestoreInv, FlagsAtStep, End, Files, Flags, Before, Undoing, Part
  <2>5. AtStep(a)'
    BY <1>1, <1>3, <2>1 DEF AtStep, DatabaseAtStep, AttachmentsAtStep, RestoreInv, FlagsAtStep, End, Files, Flags, Before, Undoing, Part
  <2> QED BY <2>1, <2>2, <2>3, <2>5 DEF RestoreInv
<1>4. Proceed("safety") \/ End(a, "error")
  BY DEF Extract
<1>5. UNCHANGED <<Files, Flags>>
  BY DEF Extract
<1> QED BY <1>2, <1>3, <1>4, <1>5

\* The copy of the database beside the current one.
LEMMA CopyNewKeeps ==
  ASSUME RestoreInv, NEW a \in current, CopyNew(a)
  PROVE  RestoreInv'
<1>1. a \in Attempt /\ step = "copy" /\ AtStep(a)
  BY Running DEF CopyNew, RestoreInv
<1>2. CASE copy' = [copy EXCEPT ![a] = source[a]["database"]] /\ Proceed("keep") /\ UNCHANGED <<live, kept, Flags>>
  <2>1. Attempts' /\ current' = {a}
    BY <1>1, <1>2, AttemptsGoOn DEF Steps
  <2>2. RestoreTypeOK'
    BY <1>1, <1>2 DEF RestoreInv, RestoreTypeOK, Proceed, Files, Flags, Steps, Workspace, Part, Content, Outcomes
  <2>3. FlagsAtStep'
    BY <1>1, <1>2 DEF RestoreInv, FlagsAtStep, Proceed, Files, Flags, Before, Undoing, Part
  <2>4. copy'[a] = source[a]["database"]
    BY <1>1, <1>2 DEF RestoreInv, RestoreTypeOK, Workspace, Part
  <2>5. AtStep(a)'
    BY <1>1, <1>2, <2>4 DEF AtStep, DatabaseAtStep, AttachmentsAtStep, RestoreInv, FlagsAtStep, Proceed, Files, Flags, Before, Undoing, Part
  <2> QED BY <2>1, <2>2, <2>3, <2>5 DEF RestoreInv
<1>3. CASE copy' = [copy EXCEPT ![a] = "partial"] /\ End(a, "error") /\ UNCHANGED <<live, kept, Flags>>
  <2>1. Attempts' /\ current' = {a} /\ outcome'[a] = "error"
    BY <1>1, <1>3, AttemptsEnd DEF Outcomes
  <2>2. RestoreTypeOK'
    BY <1>1, <1>3 DEF RestoreInv, RestoreTypeOK, End, Files, Flags, Steps, Workspace, Part, Content, Outcomes
  <2>3. FlagsAtStep'
    BY <1>1, <1>3 DEF RestoreInv, FlagsAtStep, End, Files, Flags, Before, Undoing, Part
  <2>5. AtStep(a)'
    BY <1>1, <1>3, <2>1 DEF AtStep, DatabaseAtStep, AttachmentsAtStep, RestoreInv, FlagsAtStep, End, Files, Flags, Before, Undoing, Part
  <2> QED BY <2>1, <2>2, <2>3, <2>5 DEF RestoreInv
<1> QED BY <1>1, <1>2, <1>3 DEF CopyNew, Files, Flags

\* The current database is copied beside itself.
LEMMA KeepDatabaseKeeps ==
  ASSUME RestoreInv, NEW a \in current, KeepDatabase(a)
  PROVE  RestoreInv'
<1>1. a \in Attempt /\ step = "keep" /\ AtStep(a)
  BY Running DEF KeepDatabase, RestoreInv
<1>2. CASE kept' = [kept EXCEPT ![a]["database"] = live["database"]] /\ Proceed("aside") /\ UNCHANGED <<live, copy, Flags>>
  <2>1. Attempts' /\ current' = {a}
    BY <1>1, <1>2, AttemptsGoOn DEF Steps
  <2>2. RestoreTypeOK'
    BY <1>1, <1>2 DEF RestoreInv, RestoreTypeOK, Proceed, Files, Flags, Steps, Workspace, Part, Content, Outcomes
  <2>3. FlagsAtStep'
    BY <1>1, <1>2 DEF RestoreInv, FlagsAtStep, Proceed, Files, Flags, Before, Undoing, Part
  <2>4. kept'[a]["database"] = live["database"]
    BY <1>1, <1>2 DEF RestoreInv, RestoreTypeOK, Workspace, Part
  <2>5. AtStep(a)'
    BY <1>1, <1>2, <2>4 DEF AtStep, DatabaseAtStep, AttachmentsAtStep, RestoreInv, FlagsAtStep, Proceed, Files, Flags, Before, Undoing, Part
  <2> QED BY <2>1, <2>2, <2>3, <2>5 DEF RestoreInv
<1>3. CASE kept' = [kept EXCEPT ![a]["database"] = "partial"] /\ End(a, "error") /\ UNCHANGED <<live, copy, Flags>>
  <2>1. Attempts' /\ current' = {a} /\ outcome'[a] = "error"
    BY <1>1, <1>3, AttemptsEnd DEF Outcomes
  <2>2. RestoreTypeOK'
    BY <1>1, <1>3 DEF RestoreInv, RestoreTypeOK, End, Files, Flags, Steps, Workspace, Part, Content, Outcomes
  <2>3. FlagsAtStep'
    BY <1>1, <1>3 DEF RestoreInv, FlagsAtStep, End, Files, Flags, Before, Undoing, Part
  <2>5. AtStep(a)'
    BY <1>1, <1>3, <2>1 DEF AtStep, DatabaseAtStep, AttachmentsAtStep, RestoreInv, FlagsAtStep, End, Files, Flags, Before, Undoing, Part
  <2> QED BY <2>1, <2>2, <2>3, <2>5 DEF RestoreInv
<1> QED BY <1>1, <1>2, <1>3 DEF KeepDatabase, Files, Flags

\* The current attachments are moved aside.
LEMMA MoveAsideKeeps ==
  ASSUME RestoreInv, NEW a \in current, MoveAside(a)
  PROVE  RestoreInv'
<1>1. a \in Attempt /\ step = "aside" /\ AtStep(a)
  BY Running DEF MoveAside, RestoreInv
<1>2. CASE /\ kept' = [kept EXCEPT ![a]["attachments"] = live["attachments"]]
          /\ live' = [live EXCEPT !["attachments"] = "absent"]
          /\ Proceed("placeAttachments") /\ UNCHANGED <<copy, Flags>>
  <2>1. Attempts' /\ current' = {a}
    BY <1>1, <1>2, AttemptsGoOn DEF Steps
  <2>2. RestoreTypeOK'
    BY <1>1, <1>2 DEF RestoreInv, RestoreTypeOK, Proceed, Files, Flags, Steps, Workspace, Part, Content, Outcomes
  <2>3. FlagsAtStep'
    BY <1>1, <1>2 DEF RestoreInv, FlagsAtStep, Proceed, Files, Flags, Before, Undoing, Part
  <2>4. /\ kept'[a]["attachments"] = live["attachments"]
        /\ kept'[a]["database"] = kept[a]["database"]
        /\ live'["database"] = live["database"]
    BY <1>1, <1>2 DEF RestoreInv, RestoreTypeOK, Workspace, Part
  <2>5. AtStep(a)'
    BY <1>1, <1>2, <2>4 DEF AtStep, DatabaseAtStep, AttachmentsAtStep, RestoreInv, FlagsAtStep, Proceed, Files, Flags, Before, Undoing, Part
  <2> QED BY <2>1, <2>2, <2>3, <2>5 DEF RestoreInv
<1>3. CASE Undo
  <2>1. Attempts' /\ current' = {a}
    BY <1>1, <1>3, AttemptsGoOn DEF Steps, Undo
  <2>2. RestoreTypeOK'
    BY <1>1, <1>3 DEF RestoreInv, RestoreTypeOK, Undo, Proceed, Files, Flags, Steps, Workspace, Part, Content, Outcomes
  <2>3. FlagsAtStep'
    BY <1>1, <1>3 DEF RestoreInv, FlagsAtStep, Undo, Proceed, Files, Flags, Before, Undoing, Part
  <2>5. AtStep(a)'
    BY <1>1, <1>3 DEF AtStep, DatabaseAtStep, AttachmentsAtStep, RestoreInv, FlagsAtStep, Undo, Proceed, Files, Flags, Before, Undoing, Part
  <2> QED BY <2>1, <2>2, <2>3, <2>5 DEF RestoreInv
<1> QED BY <1>1, <1>2, <1>3 DEF MoveAside, Files, Flags

\* The new attachments are put in place.
LEMMA PlaceAttachmentsKeeps ==
  ASSUME RestoreInv, NEW a \in current, PlaceAttachments(a)
  PROVE  RestoreInv'
<1>1. a \in Attempt /\ step = "placeAttachments" /\ AtStep(a)
  BY Running DEF PlaceAttachments, RestoreInv
<1>2. CASE /\ live' = [live EXCEPT !["attachments"] = source[a]["attachments"]]
          /\ swapped' = swapped \cup {"attachments"}
          /\ Proceed("placeDatabase") /\ UNCHANGED <<kept, copy, failures>>
  <2>1. Attempts' /\ current' = {a}
    BY <1>1, <1>2, AttemptsGoOn DEF Steps
  <2>2. RestoreTypeOK'
    BY <1>1, <1>2 DEF RestoreInv, RestoreTypeOK, Proceed, Files, Flags, Steps, Workspace, Part, Content, Outcomes
  <2>3. FlagsAtStep'
    BY <1>1, <1>2 DEF RestoreInv, FlagsAtStep, Proceed, Files, Flags, Before, Undoing, Part
  <2>4. /\ live'["attachments"] = source[a]["attachments"]
        /\ live'["database"] = live["database"]
    BY <1>1, <1>2 DEF RestoreInv, RestoreTypeOK, Workspace, Part
  <2>5. AtStep(a)'
    BY <1>1, <1>2, <2>4 DEF AtStep, DatabaseAtStep, AttachmentsAtStep, RestoreInv, FlagsAtStep, Proceed, Files, Flags, Before, Undoing, Part
  <2> QED BY <2>1, <2>2, <2>3, <2>5 DEF RestoreInv
<1>3. CASE Undo
  <2>1. Attempts' /\ current' = {a}
    BY <1>1, <1>3, AttemptsGoOn DEF Steps, Undo
  <2>2. RestoreTypeOK'
    BY <1>1, <1>3 DEF RestoreInv, RestoreTypeOK, Undo, Proceed, Files, Flags, Steps, Workspace, Part, Content, Outcomes
  <2>3. FlagsAtStep'
    BY <1>1, <1>3 DEF RestoreInv, FlagsAtStep, Undo, Proceed, Files, Flags, Before, Undoing, Part
  <2>5. AtStep(a)'
    BY <1>1, <1>3 DEF AtStep, DatabaseAtStep, AttachmentsAtStep, RestoreInv, FlagsAtStep, Undo, Proceed, Files, Flags, Before, Undoing, Part
  <2> QED BY <2>1, <2>2, <2>3, <2>5 DEF RestoreInv
<1> QED BY <1>1, <1>2, <1>3 DEF PlaceAttachments, Files, Flags

\* The new database is put in place, and with it the backup as a whole.
LEMMA PlaceDatabaseKeeps ==
  ASSUME RestoreInv, NEW a \in current, PlaceDatabase(a)
  PROVE  RestoreInv'
<1>1. a \in Attempt /\ step = "placeDatabase" /\ AtStep(a)
  BY Running DEF PlaceDatabase, RestoreInv
<1>2. CASE /\ live' = [live EXCEPT !["database"] = copy[a]]
          /\ copy' = [copy EXCEPT ![a] = "absent"]
          /\ swapped' = swapped \cup {"database"}
          /\ Proceed("check") /\ UNCHANGED <<kept, failures>>
  <2>1. Attempts' /\ current' = {a}
    BY <1>1, <1>2, AttemptsGoOn DEF Steps
  <2>2. RestoreTypeOK'
    BY <1>1, <1>2 DEF RestoreInv, RestoreTypeOK, Proceed, Files, Flags, Steps, Workspace, Part, Content, Outcomes
  <2>3. FlagsAtStep'
    BY <1>1, <1>2 DEF RestoreInv, FlagsAtStep, Proceed, Files, Flags, Before, Undoing, Part
  <2>4. /\ live'["database"] = copy[a]
        /\ live'["attachments"] = live["attachments"]
        /\ live' \in Workspace /\ source[a] \in Workspace
    BY <1>1, <1>2 DEF RestoreInv, RestoreTypeOK, Workspace, Part
  <2>6. live' = source[a]
    <3>1. live'["database"] = source[a]["database"]
      BY <1>1, <2>4 DEF AtStep, DatabaseAtStep
    <3>2. live'["attachments"] = source[a]["attachments"]
      BY <1>1, <2>4 DEF AtStep, AttachmentsAtStep
    <3> QED BY <2>4, <3>1, <3>2, WorkspaceEq
  <2>5. AtStep(a)'
    BY <1>1, <1>2, <2>4, <2>6 DEF AtStep, DatabaseAtStep, AttachmentsAtStep, RestoreInv, FlagsAtStep, Proceed, Files, Flags, Before, Undoing, Part
  <2> QED BY <2>1, <2>2, <2>3, <2>5 DEF RestoreInv
<1>3. CASE Undo
  <2>1. Attempts' /\ current' = {a}
    BY <1>1, <1>3, AttemptsGoOn DEF Steps, Undo
  <2>2. RestoreTypeOK'
    BY <1>1, <1>3 DEF RestoreInv, RestoreTypeOK, Undo, Proceed, Files, Flags, Steps, Workspace, Part, Content, Outcomes
  <2>3. FlagsAtStep'
    BY <1>1, <1>3 DEF RestoreInv, FlagsAtStep, Undo, Proceed, Files, Flags, Before, Undoing, Part
  <2>5. AtStep(a)'
    BY <1>1, <1>3 DEF AtStep, DatabaseAtStep, AttachmentsAtStep, RestoreInv, FlagsAtStep, Undo, Proceed, Files, Flags, Before, Undoing, Part
  <2> QED BY <2>1, <2>2, <2>3, <2>5 DEF RestoreInv
<1> QED BY <1>1, <1>2, <1>3 DEF PlaceDatabase, Files, Flags

\* The check of the new database.
LEMMA QuickCheckKeeps ==
  ASSUME RestoreInv, NEW a \in current, QuickCheck(a)
  PROVE  RestoreInv'
<1>1. a \in Attempt /\ step = "check" /\ AtStep(a)
  BY Running DEF QuickCheck, RestoreInv
<1>2. CASE Proceed("dropDatabase") /\ UNCHANGED <<Files, Flags>>
  <2>1. Attempts' /\ current' = {a}
    BY <1>1, <1>2, AttemptsGoOn DEF Steps
  <2>2. RestoreTypeOK'
    BY <1>1, <1>2 DEF RestoreInv, RestoreTypeOK, Proceed, Files, Flags, Steps, Workspace, Part, Content, Outcomes
  <2>3. FlagsAtStep'
    BY <1>1, <1>2 DEF RestoreInv, FlagsAtStep, Proceed, Files, Flags, Before, Undoing, Part
  <2>5. AtStep(a)'
    BY <1>1, <1>2 DEF AtStep, DatabaseAtStep, AttachmentsAtStep, RestoreInv, FlagsAtStep, Proceed, Files, Flags, Before, Undoing, Part
  <2> QED BY <2>1, <2>2, <2>3, <2>5 DEF RestoreInv
<1>3. CASE Undo
  <2>1. Attempts' /\ current' = {a}
    BY <1>1, <1>3, AttemptsGoOn DEF Steps, Undo
  <2>2. RestoreTypeOK'
    BY <1>1, <1>3 DEF RestoreInv, RestoreTypeOK, Undo, Proceed, Files, Flags, Steps, Workspace, Part, Content, Outcomes
  <2>3. FlagsAtStep'
    BY <1>1, <1>3 DEF RestoreInv, FlagsAtStep, Undo, Proceed, Files, Flags, Before, Undoing, Part
  <2>5. AtStep(a)'
    BY <1>1, <1>3 DEF AtStep, DatabaseAtStep, AttachmentsAtStep, RestoreInv, FlagsAtStep, Undo, Proceed, Files, Flags, Before, Undoing, Part
  <2> QED BY <2>1, <2>2, <2>3, <2>5 DEF RestoreInv
<1> QED BY <1>1, <1>2, <1>3 DEF QuickCheck, Files, Flags

\* The original database is put back, if it was replaced.
LEMMA UndoDatabaseKeeps ==
  ASSUME RestoreInv, NEW a \in current, UndoDatabase(a)
  PROVE  RestoreInv'
<1>1. a \in Attempt /\ step = "undoDatabase" /\ AtStep(a)
  BY Running DEF UndoDatabase, RestoreInv
<1>2. CASE /\ "database" \in swapped
          /\ live' = [live EXCEPT !["database"] = kept[a]["database"]]
          /\ kept' = [kept EXCEPT ![a]["database"] = "absent"]
          /\ Proceed("undoClear") /\ UNCHANGED <<copy, Flags>>
  <2>1. Attempts' /\ current' = {a}
    BY <1>1, <1>2, AttemptsGoOn DEF Steps
  <2>2. RestoreTypeOK'
    BY <1>1, <1>2 DEF RestoreInv, RestoreTypeOK, Proceed, Files, Flags, Steps, Workspace, Part, Content, Outcomes
  <2>3. FlagsAtStep'
    BY <1>1, <1>2 DEF RestoreInv, FlagsAtStep, Proceed, Files, Flags, Before, Undoing, Part
  <2>4. /\ live'["database"] = kept[a]["database"]
        /\ live'["attachments"] = live["attachments"]
        /\ kept'[a]["attachments"] = kept[a]["attachments"]
    BY <1>1, <1>2 DEF RestoreInv, RestoreTypeOK, Workspace, Part
  <2>5. AtStep(a)'
    BY <1>1, <1>2, <2>4 DEF AtStep, DatabaseAtStep, AttachmentsAtStep, RestoreInv, FlagsAtStep, Proceed, Files, Flags, Before, Undoing, Part
  <2> QED BY <2>1, <2>2, <2>3, <2>5 DEF RestoreInv
<1>3. CASE /\ "database" \in swapped
          /\ failures' = failures \cup {"database"}
          /\ Proceed("undoClear") /\ UNCHANGED <<Files, swapped>>
  <2>1. Attempts' /\ current' = {a}
    BY <1>1, <1>3, AttemptsGoOn DEF Steps
  <2>2. RestoreTypeOK'
    BY <1>1, <1>3 DEF RestoreInv, RestoreTypeOK, Proceed, Files, Flags, Steps, Workspace, Part, Content, Outcomes
  <2>3. FlagsAtStep'
    BY <1>1, <1>3 DEF RestoreInv, FlagsAtStep, Proceed, Files, Flags, Before, Undoing, Part
  <2>5. AtStep(a)'
    BY <1>1, <1>3 DEF AtStep, DatabaseAtStep, AttachmentsAtStep, RestoreInv, FlagsAtStep, Proceed, Files, Flags, Before, Undoing, Part
  <2> QED BY <2>1, <2>2, <2>3, <2>5 DEF RestoreInv
<1>4. CASE /\ "database" \notin swapped
          /\ Proceed("undoClear") /\ UNCHANGED <<Files, Flags>>
  <2>1. Attempts' /\ current' = {a}
    BY <1>1, <1>4, AttemptsGoOn DEF Steps
  <2>2. RestoreTypeOK'
    BY <1>1, <1>4 DEF RestoreInv, RestoreTypeOK, Proceed, Files, Flags, Steps, Workspace, Part, Content, Outcomes
  <2>3. FlagsAtStep'
    BY <1>1, <1>4 DEF RestoreInv, FlagsAtStep, Proceed, Files, Flags, Before, Undoing, Part
  <2>5. AtStep(a)'
    BY <1>1, <1>4 DEF AtStep, DatabaseAtStep, AttachmentsAtStep, RestoreInv, FlagsAtStep, Proceed, Files, Flags, Before, Undoing, Part
  <2> QED BY <2>1, <2>2, <2>3, <2>5 DEF RestoreInv
<1> QED BY <1>1, <1>2, <1>3, <1>4 DEF UndoDatabase, Files, Flags

\* The new attachments are removed, if they were put in place.
LEMMA UndoClearKeeps ==
  ASSUME RestoreInv, NEW a \in current, UndoClear(a)
  PROVE  RestoreInv'
<1>1. a \in Attempt /\ step = "undoClear" /\ AtStep(a)
  BY Running DEF UndoClear, RestoreInv
<1>2. CASE /\ "attachments" \in swapped
          /\ live' = [live EXCEPT !["attachments"] = "absent"]
          /\ Proceed("undoAttachments") /\ UNCHANGED <<kept, copy, Flags>>
  <2>1. Attempts' /\ current' = {a}
    BY <1>1, <1>2, AttemptsGoOn DEF Steps
  <2>2. RestoreTypeOK'
    BY <1>1, <1>2 DEF RestoreInv, RestoreTypeOK, Proceed, Files, Flags, Steps, Workspace, Part, Content, Outcomes
  <2>3. FlagsAtStep'
    BY <1>1, <1>2 DEF RestoreInv, FlagsAtStep, Proceed, Files, Flags, Before, Undoing, Part
  <2>4. live'["database"] = live["database"]
    BY <1>1, <1>2 DEF RestoreInv, RestoreTypeOK, Workspace, Part
  <2>5. AtStep(a)'
    BY <1>1, <1>2, <2>4 DEF AtStep, DatabaseAtStep, AttachmentsAtStep, RestoreInv, FlagsAtStep, Proceed, Files, Flags, Before, Undoing, Part
  <2> QED BY <2>1, <2>2, <2>3, <2>5 DEF RestoreInv
<1>3. CASE /\ "attachments" \in swapped
          /\ live' = [live EXCEPT !["attachments"] = "partial"]
          /\ failures' = failures \cup {"attachments"}
          /\ Proceed("report") /\ UNCHANGED <<kept, copy, swapped>>
  <2>1. Attempts' /\ current' = {a}
    BY <1>1, <1>3, AttemptsGoOn DEF Steps
  <2>2. RestoreTypeOK'
    BY <1>1, <1>3 DEF RestoreInv, RestoreTypeOK, Proceed, Files, Flags, Steps, Workspace, Part, Content, Outcomes
  <2>3. FlagsAtStep'
    BY <1>1, <1>3 DEF RestoreInv, FlagsAtStep, Proceed, Files, Flags, Before, Undoing, Part
  <2>4. live'["database"] = live["database"]
    BY <1>1, <1>3 DEF RestoreInv, RestoreTypeOK, Workspace, Part
  <2>5. AtStep(a)'
    BY <1>1, <1>3, <2>4 DEF AtStep, DatabaseAtStep, AttachmentsAtStep, RestoreInv, FlagsAtStep, Proceed, Files, Flags, Before, Undoing, Part
  <2> QED BY <2>1, <2>2, <2>3, <2>5 DEF RestoreInv
<1>4. CASE /\ "attachments" \notin swapped
          /\ Proceed("report") /\ UNCHANGED <<Files, Flags>>
  <2>1. Attempts' /\ current' = {a}
    BY <1>1, <1>4, AttemptsGoOn DEF Steps
  <2>2. RestoreTypeOK'
    BY <1>1, <1>4 DEF RestoreInv, RestoreTypeOK, Proceed, Files, Flags, Steps, Workspace, Part, Content, Outcomes
  <2>3. FlagsAtStep'
    BY <1>1, <1>4 DEF RestoreInv, FlagsAtStep, Proceed, Files, Flags, Before, Undoing, Part
  <2>5. AtStep(a)'
    BY <1>1, <1>4 DEF AtStep, DatabaseAtStep, AttachmentsAtStep, RestoreInv, FlagsAtStep, Proceed, Files, Flags, Before, Undoing, Part
  <2> QED BY <2>1, <2>2, <2>3, <2>5 DEF RestoreInv
<1> QED BY <1>1, <1>2, <1>3, <1>4 DEF UndoClear, Files, Flags

\* The original attachments are put back.
LEMMA UndoAttachmentsKeeps ==
  ASSUME RestoreInv, NEW a \in current, UndoAttachments(a)
  PROVE  RestoreInv'
<1>1. a \in Attempt /\ step = "undoAttachments" /\ AtStep(a)
  BY Running DEF UndoAttachments, RestoreInv
<1>2. CASE /\ live' = [live EXCEPT !["attachments"] = kept[a]["attachments"]]
          /\ kept' = [kept EXCEPT ![a]["attachments"] = "absent"]
          /\ Proceed("report") /\ UNCHANGED <<copy, Flags>>
  <2>1. Attempts' /\ current' = {a}
    BY <1>1, <1>2, AttemptsGoOn DEF Steps
  <2>2. RestoreTypeOK'
    BY <1>1, <1>2 DEF RestoreInv, RestoreTypeOK, Proceed, Files, Flags, Steps, Workspace, Part, Content, Outcomes
  <2>3. FlagsAtStep'
    BY <1>1, <1>2 DEF RestoreInv, FlagsAtStep, Proceed, Files, Flags, Before, Undoing, Part
  <2>4. /\ live'["attachments"] = kept[a]["attachments"]
        /\ live'["database"] = live["database"]
        /\ kept'[a]["database"] = kept[a]["database"]
    BY <1>1, <1>2 DEF RestoreInv, RestoreTypeOK, Workspace, Part
  <2>5. AtStep(a)'
    BY <1>1, <1>2, <2>4 DEF AtStep, DatabaseAtStep, AttachmentsAtStep, RestoreInv, FlagsAtStep, Proceed, Files, Flags, Before, Undoing, Part
  <2> QED BY <2>1, <2>2, <2>3, <2>5 DEF RestoreInv
<1>3. CASE /\ failures' = failures \cup {"attachments"}
          /\ Proceed("report") /\ UNCHANGED <<Files, swapped>>
  <2>1. Attempts' /\ current' = {a}
    BY <1>1, <1>3, AttemptsGoOn DEF Steps
  <2>2. RestoreTypeOK'
    BY <1>1, <1>3 DEF RestoreInv, RestoreTypeOK, Proceed, Files, Flags, Steps, Workspace, Part, Content, Outcomes
  <2>3. FlagsAtStep'
    BY <1>1, <1>3 DEF RestoreInv, FlagsAtStep, Proceed, Files, Flags, Before, Undoing, Part
  <2>5. AtStep(a)'
    BY <1>1, <1>3 DEF AtStep, DatabaseAtStep, AttachmentsAtStep, RestoreInv, FlagsAtStep, Proceed, Files, Flags, Before, Undoing, Part
  <2> QED BY <2>1, <2>2, <2>3, <2>5 DEF RestoreInv
<1> QED BY <1>1, <1>2, <1>3 DEF UndoAttachments, Files, Flags

\* The error is raised, or another one in its place.
LEMMA ReportKeeps ==
  ASSUME RestoreInv, NEW a \in current, Report(a)
  PROVE  RestoreInv'
<1>1. a \in Attempt /\ step = "report" /\ AtStep(a)
  BY Running DEF Report, RestoreInv
<1>2. CASE /\ copy' = [copy EXCEPT ![a] = "absent"]
          /\ End(a, IF failures = {} THEN "restore_rolled_back" ELSE "restore_recovery_required")
          /\ UNCHANGED <<live, kept, Flags>>
  <2>1. Attempts' /\ current' = {a} /\ outcome'[a] \in {"restore_rolled_back", "restore_recovery_required"}
    <3> DEFINE result == IF failures = {} THEN "restore_rolled_back" ELSE "restore_recovery_required"
    <3>1. result \in Outcomes \ {"none", "running"}
      BY DEF Outcomes
    <3>2. End(a, result)
      BY <1>2
    <3> HIDE DEF result
    <3>3. Attempts' /\ current' = {a} /\ outcome'[a] = result
      BY <1>1, <3>1, <3>2, AttemptsEnd
    <3> QED BY <3>3 DEF result
  <2>2. RestoreTypeOK'
    BY <1>1, <1>2 DEF RestoreInv, RestoreTypeOK, End, Files, Flags, Steps, Workspace, Part, Content, Outcomes
  <2>3. FlagsAtStep'
    BY <1>1, <1>2 DEF RestoreInv, FlagsAtStep, End, Files, Flags, Before, Undoing, Part
  <2>5. AtStep(a)'
    BY <1>1, <1>2, <2>1 DEF AtStep, DatabaseAtStep, AttachmentsAtStep, RestoreInv, FlagsAtStep, End, Files, Flags, Before, Undoing, Part
  <2> QED BY <2>1, <2>2, <2>3, <2>5 DEF RestoreInv
<1>3. CASE End(a, "error") /\ UNCHANGED <<Files, Flags>>
  <2>1. Attempts' /\ current' = {a} /\ outcome'[a] = "error"
    BY <1>1, <1>3, AttemptsEnd DEF Outcomes
  <2>2. RestoreTypeOK'
    BY <1>1, <1>3 DEF RestoreInv, RestoreTypeOK, End, Files, Flags, Steps, Workspace, Part, Content, Outcomes
  <2>3. FlagsAtStep'
    BY <1>1, <1>3 DEF RestoreInv, FlagsAtStep, End, Files, Flags, Before, Undoing, Part
  <2>5. AtStep(a)'
    BY <1>1, <1>3, <2>1 DEF AtStep, DatabaseAtStep, AttachmentsAtStep, RestoreInv, FlagsAtStep, End, Files, Flags, Before, Undoing, Part
  <2> QED BY <2>1, <2>2, <2>3, <2>5 DEF RestoreInv
<1> QED BY <1>1, <1>2, <1>3 DEF Report, Files, Flags

\* The original database is removed when the new one is in place.
LEMMA DropDatabaseKeeps ==
  ASSUME RestoreInv, NEW a \in current, DropDatabase(a)
  PROVE  RestoreInv'
<1>1. a \in Attempt /\ step = "dropDatabase" /\ AtStep(a)
  BY Running DEF DropDatabase, RestoreInv
<1>2. CASE /\ kept' = [kept EXCEPT ![a]["database"] = "absent"]
          /\ Proceed("dropAttachments") /\ UNCHANGED <<live, copy, Flags>>
  <2>1. Attempts' /\ current' = {a}
    BY <1>1, <1>2, AttemptsGoOn DEF Steps
  <2>2. RestoreTypeOK'
    BY <1>1, <1>2 DEF RestoreInv, RestoreTypeOK, Proceed, Files, Flags, Steps, Workspace, Part, Content, Outcomes
  <2>3. FlagsAtStep'
    BY <1>1, <1>2 DEF RestoreInv, FlagsAtStep, Proceed, Files, Flags, Before, Undoing, Part
  <2>5. AtStep(a)'
    BY <1>1, <1>2 DEF AtStep, DatabaseAtStep, AttachmentsAtStep, RestoreInv, FlagsAtStep, Proceed, Files, Flags, Before, Undoing, Part
  <2> QED BY <2>1, <2>2, <2>3, <2>5 DEF RestoreInv
<1>3. CASE End(a, "cleanup_error") /\ UNCHANGED <<Files, Flags>>
  <2>1. Attempts' /\ current' = {a} /\ outcome'[a] = "cleanup_error"
    BY <1>1, <1>3, AttemptsEnd DEF Outcomes
  <2>2. RestoreTypeOK'
    BY <1>1, <1>3 DEF RestoreInv, RestoreTypeOK, End, Files, Flags, Steps, Workspace, Part, Content, Outcomes
  <2>3. FlagsAtStep'
    BY <1>1, <1>3 DEF RestoreInv, FlagsAtStep, End, Files, Flags, Before, Undoing, Part
  <2>5. AtStep(a)'
    BY <1>1, <1>3, <2>1 DEF AtStep, DatabaseAtStep, AttachmentsAtStep, RestoreInv, FlagsAtStep, End, Files, Flags, Before, Undoing, Part, Activated
  <2> QED BY <2>1, <2>2, <2>3, <2>5 DEF RestoreInv
<1> QED BY <1>1, <1>2, <1>3 DEF DropDatabase, Files, Flags

\* So are the original attachments.
LEMMA DropAttachmentsKeeps ==
  ASSUME RestoreInv, NEW a \in current, DropAttachments(a)
  PROVE  RestoreInv'
<1>1. a \in Attempt /\ step = "dropAttachments" /\ AtStep(a)
  BY Running DEF DropAttachments, RestoreInv
<1>2. CASE /\ kept' = [kept EXCEPT ![a]["attachments"] = "absent"]
          /\ End(a, "success") /\ UNCHANGED <<live, copy, Flags>>
  <2>1. Attempts' /\ current' = {a} /\ outcome'[a] = "success"
    BY <1>1, <1>2, AttemptsEnd DEF Outcomes
  <2>2. RestoreTypeOK'
    BY <1>1, <1>2 DEF RestoreInv, RestoreTypeOK, End, Files, Flags, Steps, Workspace, Part, Content, Outcomes
  <2>3. FlagsAtStep'
    BY <1>1, <1>2 DEF RestoreInv, FlagsAtStep, End, Files, Flags, Before, Undoing, Part
  <2>5. AtStep(a)'
    BY <1>1, <1>2, <2>1 DEF AtStep, DatabaseAtStep, AttachmentsAtStep, RestoreInv, FlagsAtStep, End, Files, Flags, Before, Undoing, Part, Activated
  <2> QED BY <2>1, <2>2, <2>3, <2>5 DEF RestoreInv
<1>3. CASE /\ kept' = [kept EXCEPT ![a]["attachments"] = "partial"]
          /\ End(a, "cleanup_error") /\ UNCHANGED <<live, copy, Flags>>
  <2>1. Attempts' /\ current' = {a} /\ outcome'[a] = "cleanup_error"
    BY <1>1, <1>3, AttemptsEnd DEF Outcomes
  <2>2. RestoreTypeOK'
    BY <1>1, <1>3 DEF RestoreInv, RestoreTypeOK, End, Files, Flags, Steps, Workspace, Part, Content, Outcomes
  <2>3. FlagsAtStep'
    BY <1>1, <1>3 DEF RestoreInv, FlagsAtStep, End, Files, Flags, Before, Undoing, Part
  <2>5. AtStep(a)'
    BY <1>1, <1>3, <2>1 DEF AtStep, DatabaseAtStep, AttachmentsAtStep, RestoreInv, FlagsAtStep, End, Files, Flags, Before, Undoing, Part, Activated
  <2> QED BY <2>1, <2>2, <2>3, <2>5 DEF RestoreInv
<1> QED BY <1>1, <1>2, <1>3 DEF DropAttachments, Files, Flags

\* The safety backup: the workspace is what it must be able to bring back.
LEMMA SafetyBackupKeeps ==
  ASSUME RestoreInv, NEW a \in current, SafetyBackup(a)
  PROVE  RestoreInv'
<1>1. a \in Attempt /\ step = "safety" /\ AtStep(a) /\ current = {a}
  BY Running DEF SafetyBackup, RestoreInv
<1>2. /\ live' \in Workspace
      /\ live'["attachments"] # "absent"
      /\ live' # Missing
  <2>1. live' = EnsureDirectories(live) /\ live \in Workspace
    BY DEF SafetyBackup, RestoreInv, RestoreTypeOK
  <2>2. live' \in Workspace /\ live'["attachments"] # "absent"
    BY <2>1 DEF EnsureDirectories, Workspace, Part, Content
  <2>3. Missing["attachments"] = "absent"
    BY DEF Missing, Workspaces, Part
  <2> QED BY <2>2, <2>3
<1>3. CASE /\ safety' = [safety EXCEPT ![a] = live']
           /\ step' = "copy"
           /\ UNCHANGED <<source, current, outcome, kept, copy, Flags>>
  <2>1. safety'[a] = live' /\ safety' \in [Attempt -> Workspace]
    BY <1>1, <1>2, <1>3 DEF RestoreInv, RestoreTypeOK
  <2>2. RestoreTypeOK'
    BY <1>2, <1>3, <2>1 DEF RestoreInv, RestoreTypeOK, Flags, Steps
  <2>3. Attempts'
    BY <1>1, <1>2, <1>3, <2>1 DEF RestoreInv, RestoreTypeOK, Attempts
  <2>4. FlagsAtStep'
    BY <1>1, <1>3 DEF RestoreInv, FlagsAtStep, Flags, Before, Undoing
  <2>5. AtStep(a)'
    BY <1>3, <2>1 DEF AtStep, DatabaseAtStep, AttachmentsAtStep, Undoing
  <2> QED BY <1>1, <1>3, <2>2, <2>3, <2>4, <2>5 DEF RestoreInv
<1>4. CASE End(a, "error") /\ UNCHANGED <<kept, copy, Flags>>
  <2>1. Attempts' /\ current' = {a}
    BY <1>1, <1>4, AttemptsEnd DEF Outcomes
  <2>2. RestoreTypeOK'
    BY <1>1, <1>2, <1>4 DEF RestoreInv, RestoreTypeOK, End, Flags, Outcomes
  <2>3. FlagsAtStep'
    BY <1>1, <1>4 DEF RestoreInv, FlagsAtStep, End, Flags, Before, Undoing
  <2>4. AtStep(a)'
    BY <1>1, <1>4 DEF AtStep, DatabaseAtStep, AttachmentsAtStep, End, Undoing
  <2> QED BY <2>1, <2>2, <2>3, <2>4 DEF RestoreInv
<1> QED BY <1>3, <1>4 DEF SafetyBackup

\* An attempt starts with no flag set and nothing copied.
LEMMA BeginKeeps ==
  ASSUME RestoreInv, NEW a \in Attempt, Begin(a)
  PROVE  RestoreInv'
<1>1. step = "idle" /\ outcome[a] = "none" /\ safety[a] = Missing
  BY DEF Begin, RestoreInv, Attempts
<1>2. Workspaces(Source) \in Workspace
  BY RestoreAssumption DEF Workspaces, Workspace, Content
<1>3. Backups \subseteq Workspace
  BY <1>2 DEF Backups, RestoreInv, RestoreTypeOK
<1>4. RestoreTypeOK'
  <2>1. source' \in [Attempt -> Workspace]
    BY <1>3 DEF Begin, RestoreInv, RestoreTypeOK
  <2> QED BY <2>1 DEF Begin, RestoreInv, RestoreTypeOK, Files, Steps, Outcomes
<1>5. Attempts'
  BY <1>1 DEF Begin, RestoreInv, RestoreTypeOK, Attempts
<1>6. FlagsAtStep'
  BY DEF Begin, FlagsAtStep, Before, Undoing
<1>7. AtStep(a)'
  BY <1>1 DEF Begin, AtStep, DatabaseAtStep, AttachmentsAtStep, Undoing
<1> QED BY <1>4, <1>5, <1>6, <1>7 DEF Begin, RestoreInv

\* Using the workspace ends what an earlier attempt promised about it.
LEMMA UseKeeps ==
  ASSUME RestoreInv, Use
  PROVE  RestoreInv'
<1>1. PICK p \in Part, v \in Version \ Contents :
        live' = [EnsureDirectories(live) EXCEPT ![p] = v]
  BY DEF Use
<1>2. live' \in Workspace
  BY <1>1 DEF RestoreInv, RestoreTypeOK, EnsureDirectories, Workspace, Content
<1>3. RestoreTypeOK'
  BY <1>2 DEF Use, RestoreInv, RestoreTypeOK, Flags
<1>4. Attempts'
  BY DEF Use, RestoreInv, RestoreTypeOK, Attempts
<1>5. FlagsAtStep'
  BY DEF Use, RestoreInv, FlagsAtStep, Flags, Before, Undoing
<1> QED BY <1>3, <1>4, <1>5 DEF Use, RestoreInv

\* Wherever the process dies, each half is in place, aside, or replaced.
LEMMA CrashKeeps ==
  ASSUME RestoreInv, NEW a \in current, Crash(a)
  PROVE  RestoreInv'
<1>1. a \in Attempt /\ step # "idle" /\ AtStep(a)
  BY Running DEF Crash, RestoreInv
<1>2. Attempts' /\ current' = {a} /\ outcome'[a] = "crash"
  BY <1>1, AttemptsEnd DEF Crash, Outcomes
<1>3. RestoreTypeOK'
  <2>1. live' \in Workspace /\ kept' \in [Attempt -> Workspace] /\ copy' \in [Attempt -> Content]
    <3>0. live \in Workspace /\ kept \in [Attempt -> Workspace] /\ copy \in [Attempt -> Content]
      BY DEF RestoreInv, RestoreTypeOK
    <3>1. CASE UNCHANGED Files
      BY <3>0, <3>1 DEF Files
    <3>2. CASE copy' = [copy EXCEPT ![a] = "partial"] /\ UNCHANGED <<live, kept>>
      BY <3>0, <3>2 DEF Content
    <3>3. CASE kept' = [kept EXCEPT ![a]["database"] = "partial"] /\ UNCHANGED <<live, copy>>
      BY <3>0, <3>3 DEF Workspace, Content
    <3>4. CASE live' = [live EXCEPT !["attachments"] = "partial"] /\ UNCHANGED <<kept, copy>>
      BY <3>0, <3>4 DEF Workspace, Content
    <3>5. CASE kept' = [kept EXCEPT ![a]["attachments"] = "partial"] /\ UNCHANGED <<live, copy>>
      BY <3>0, <3>5 DEF Workspace, Content
    <3> QED BY <3>1, <3>2, <3>3, <3>4, <3>5 DEF Crash
  <2>2. outcome' \in [Attempt -> Outcomes]
    BY <1>1 DEF Crash, End, RestoreInv, RestoreTypeOK, Outcomes
  <2> QED BY <2>1, <2>2 DEF Crash, End, RestoreInv, RestoreTypeOK, Flags
<1>4. FlagsAtStep'
  BY <1>1 DEF Crash, End, RestoreInv, FlagsAtStep, Flags, Before, Undoing
<1>5. AtStep(a)'
  <2>1. step' = "idle" /\ UNCHANGED <<safety, source>>
    BY DEF Crash, End
  <2>2. SUFFICES ASSUME safety[a] # Missing, live' # source[a], NEW p \in Part
                 PROVE  safety[a][p] \in {live'[p], kept'[a][p]}
    BY <1>2, <2>1 DEF AtStep, DatabaseAtStep, AttachmentsAtStep, Undoing, Activated
  <2>3. CASE UNCHANGED Files
    BY <1>1, <2>2, <2>3 DEF AtStep, DatabaseAtStep, AttachmentsAtStep, RestoreInv, RestoreTypeOK,
       FlagsAtStep, Files, Before, Undoing, Part, Steps
  <2>4. CASE step = "copy" /\ UNCHANGED <<live, kept>>
    BY <1>1, <2>2, <2>4 DEF AtStep, DatabaseAtStep, AttachmentsAtStep, Part
  <2>5. CASE step = "keep" /\ UNCHANGED <<live, copy>>
    BY <1>1, <2>2, <2>5 DEF AtStep, DatabaseAtStep, AttachmentsAtStep, Part
  <2>6. CASE /\ step = "undoClear" /\ "attachments" \in swapped
             /\ live' = [live EXCEPT !["attachments"] = "partial"]
             /\ UNCHANGED <<kept, copy>>
    <3>1. live'["database"] = live["database"]
      BY <2>6 DEF RestoreInv, RestoreTypeOK, Workspace, Part
    <3> QED BY <1>1, <2>2, <2>6, <3>1 DEF AtStep, DatabaseAtStep, AttachmentsAtStep, Undoing, Part
  <2>7. CASE step = "dropAttachments" /\ UNCHANGED <<live, copy>>
    BY <1>1, <2>2, <2>7 DEF AtStep
  <2> QED BY <2>3, <2>4, <2>5, <2>6, <2>7 DEF Crash
<1> QED BY <1>2, <1>3, <1>4, <1>5 DEF RestoreInv

(***************************************************************************)
(* The theorems.                                                           *)
(***************************************************************************)
LEMMA InitEstablishes ==
  RestoreInit => RestoreInv
<1> SUFFICES ASSUME RestoreInit PROVE RestoreInv
  OBVIOUS
<1>1. Missing \in Workspace /\ Workspaces(First) \in Workspace
  BY RestoreAssumption DEF Missing, Workspaces, Workspace, Content
<1>2. RestoreTypeOK
  BY <1>1 DEF RestoreInit, RestoreTypeOK, Content, Outcomes
<1>3. Attempts
  BY DEF RestoreInit, Attempts
<1>4. FlagsAtStep
  BY DEF RestoreInit, FlagsAtStep, Before, Undoing
<1> QED BY <1>2, <1>3, <1>4 DEF RestoreInit, RestoreInv

\* Every step of a running attempt is one of its named steps.
LEMMA ActivateKeeps ==
  ASSUME RestoreInv, NEW a \in current, Activate(a)
  PROVE  RestoreInv'
BY CopyNewKeeps, KeepDatabaseKeeps, MoveAsideKeeps, PlaceAttachmentsKeeps,
   PlaceDatabaseKeeps, QuickCheckKeeps, UndoDatabaseKeeps, UndoClearKeeps,
   UndoAttachmentsKeeps, ReportKeeps, DropDatabaseKeeps, DropAttachmentsKeeps DEF Activate

LEMMA NextKeeps ==
  RestoreInv /\ [RestoreNext]_restoreVars => RestoreInv'
<1> SUFFICES ASSUME RestoreInv, [RestoreNext]_restoreVars PROVE RestoreInv'
  OBVIOUS
<1>1. CASE UNCHANGED restoreVars
  BY <1>1 DEF restoreVars, RestoreInv, RestoreTypeOK, Attempts, FlagsAtStep, AtStep,
     DatabaseAtStep, AttachmentsAtStep, Activated
<1>2. CASE Use
  BY <1>2, UseKeeps
<1>3. ASSUME NEW a \in Attempt, Begin(a) PROVE RestoreInv'
  BY <1>3, BeginKeeps
<1>4. ASSUME NEW a \in current, Extract(a) \/ SafetyBackup(a) \/ Activate(a) \/ Crash(a)
      PROVE  RestoreInv'
  BY <1>4, ExtractKeeps, SafetyBackupKeeps, ActivateKeeps, CrashKeeps
<1> QED BY <1>1, <1>2, <1>3, <1>4 DEF RestoreNext, Restore

THEOREM Invariance ==
  RestoreSpec => []RestoreInv
BY InitEstablishes, NextKeeps, PTL DEF RestoreSpec

\* Every variable of a restore always holds what it is declared to hold.
THEOREM RestoreTypes ==
  RestoreSpec => []RestoreTypeOK
<1>1. RestoreInv => RestoreTypeOK
  BY DEF RestoreInv
<1> QED BY <1>1, Invariance, PTL

\* Whatever raises and wherever the process dies, each half of the workspace
\* that a restore found is in place or aside until both halves of the backup
\* are in place.
THEOREM OriginalIsKept ==
  RestoreSpec => []OriginalKept
<1>1. RestoreInv => OriginalKept
  <2> SUFFICES ASSUME RestoreInv, NEW a \in current, safety[a] # Missing, ~Activated(a), NEW p \in Part
               PROVE  safety[a][p] \in {live[p], kept[a][p]}
    BY DEF OriginalKept
  <2>1. AtStep(a) /\ FlagsAtStep /\ step \in Steps \cup {"idle"}
    BY DEF RestoreInv, RestoreTypeOK
  <2>2. CASE step = "idle"
    BY <2>1, <2>2 DEF AtStep
  <2>3. CASE step # "idle" /\ p = "database"
    BY <2>1, <2>3 DEF AtStep, DatabaseAtStep, FlagsAtStep, Activated, Steps, Undoing
  <2>4. CASE step # "idle" /\ p = "attachments"
    BY <2>1, <2>4 DEF AtStep, AttachmentsAtStep, FlagsAtStep, Activated, Steps, Undoing
  <2> QED BY <2>2, <2>3, <2>4 DEF Part
<1> QED BY <1>1, Invariance, PTL

\* A failure before activation, a crash and a step that goes on report
\* nothing about the workspace.
Silent(a) ==
  \/ outcome' = outcome
  \/ End(a, "error")
  \/ End(a, "crash")

\* What is known when an outcome about the workspace is reported.
LEMMA Decided ==
  ASSUME RestoreInv, [RestoreNext]_restoreVars, NEW a \in Attempt, outcome'[a] # outcome[a],
         outcome'[a] \in {"success", "cleanup_error", "restore_rolled_back",
                          "restore_recovery_required"}
  PROVE  a \in current /\ (Report(a) \/ DropDatabase(a) \/ DropAttachments(a))
<1>0. outcome \in [Attempt -> Outcomes]
  BY DEF RestoreInv, RestoreTypeOK
<1>1. PICK b \in Attempt : Restore(b)
  BY DEF RestoreNext, restoreVars, Use
<1>2. ~Begin(b)
  BY <1>0 DEF Begin
<1>3. b \in current
  BY <1>1, <1>2 DEF Restore
<1>4. ~Silent(b)
  BY <1>0 DEF Silent, End
<1>5. ~Extract(b) /\ ~SafetyBackup(b) /\ ~CopyNew(b) /\ ~KeepDatabase(b) /\ ~Crash(b)
  BY <1>4 DEF Silent, Extract, SafetyBackup, CopyNew, KeepDatabase, Crash, Proceed
<1>6. ~MoveAside(b) /\ ~PlaceAttachments(b) /\ ~PlaceDatabase(b) /\ ~QuickCheck(b)
  BY <1>4 DEF Silent, MoveAside, PlaceAttachments, PlaceDatabase, QuickCheck, Undo, Proceed
<1>7. ~UndoDatabase(b) /\ ~UndoClear(b) /\ ~UndoAttachments(b)
  BY <1>4 DEF Silent, UndoDatabase, UndoClear, UndoAttachments, Proceed
<1>8. Report(b) \/ DropDatabase(b) \/ DropAttachments(b)
  BY <1>1, <1>2, <1>5, <1>6, <1>7 DEF Restore, Activate
<1>9. \E result : outcome' = [outcome EXCEPT ![b] = result]
  BY <1>4, <1>8 DEF Silent, Report, DropDatabase, DropAttachments, End, Proceed
<1>10. a = b
  BY <1>0, <1>9
<1> QED BY <1>3, <1>8, <1>10

\* A success, or an error that is only about cleaning up, is reported with
\* both halves of the backup in place; a rollback with the original database
\* in place.
THEOREM OutcomesAreTrue ==
  RestoreSpec => OutcomeIsTrue
<1> DEFINE True(a) ==
      outcome'[a] # outcome[a] =>
        /\ outcome'[a] \in {"success", "cleanup_error"} => live' = source[a]
        /\ outcome'[a] = "restore_rolled_back" =>
             live'["database"] = safety[a]["database"]
<1>1. ASSUME RestoreInv, [RestoreNext]_restoreVars, NEW a \in Attempt PROVE True(a)
  <2> SUFFICES ASSUME outcome'[a] # outcome[a],
                      outcome'[a] \in {"success", "cleanup_error", "restore_rolled_back"}
               PROVE  True(a)
    OBVIOUS
  <2>1. a \in current /\ (Report(a) \/ DropDatabase(a) \/ DropAttachments(a))
    BY <1>1, Decided
  <2>2. AtStep(a) /\ outcome \in [Attempt -> Outcomes]
    BY <1>1, <2>1 DEF RestoreInv, RestoreTypeOK
  <2>3. CASE Report(a)
    BY <2>2, <2>3 DEF Report, End, AtStep, DatabaseAtStep, Undoing
  <2>4. CASE DropDatabase(a) \/ DropAttachments(a)
    BY <2>2, <2>4 DEF DropDatabase, DropAttachments, End, Proceed, AtStep
  <2> QED BY <2>1, <2>3, <2>4
<1>2. RestoreInv /\ [RestoreNext]_restoreVars => [\A a \in Attempt : True(a)]_restoreVars
  BY <1>1
<1> QED BY <1>2, Invariance, PTL DEF RestoreSpec, OutcomeIsTrue

\* A restore that asks for manual recovery leaves, for each half that is not
\* back in place, the original at the path that its error names.
THEOREM RecoveryIsPossible ==
  RestoreSpec => RecoveryNamesWhatIsKept
<1> DEFINE Named(a) ==
      outcome'[a] # outcome[a] /\ outcome'[a] = "restore_recovery_required" =>
        \A p \in Part :
          \/ live'[p] = safety[a][p] /\ p \notin failures
          \/ kept'[a][p] = safety[a][p] /\ p \in failures
<1>1. ASSUME RestoreInv, [RestoreNext]_restoreVars, NEW a \in Attempt PROVE Named(a)
  <2> SUFFICES ASSUME outcome'[a] # outcome[a], outcome'[a] = "restore_recovery_required"
               PROVE  Named(a)
    OBVIOUS
  <2>1. a \in current /\ AtStep(a) /\ FlagsAtStep /\ outcome \in [Attempt -> Outcomes]
    BY <1>1, Decided DEF RestoreInv, RestoreTypeOK
  <2>2. Report(a)
    BY <1>1, <2>1, Decided DEF DropDatabase, DropAttachments, End, Proceed
  <2>3. failures # {} /\ live' = live /\ kept' = kept /\ step = "report"
    BY <2>1, <2>2 DEF Report, End
  <2>4. failures \subseteq Part
    BY <1>1 DEF RestoreInv, RestoreTypeOK
  <2> QED BY <2>1, <2>3, <2>4 DEF AtStep, DatabaseAtStep, AttachmentsAtStep, FlagsAtStep, Undoing, Part
<1>2. RestoreInv /\ [RestoreNext]_restoreVars => [\A a \in Attempt : Named(a)]_restoreVars
  BY <1>1
<1> QED BY <1>2, Invariance, PTL DEF RestoreSpec, RecoveryNamesWhatIsKept
=============================================================================
