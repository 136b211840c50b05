----------------------------- MODULE MCRecords -----------------------------
(* Small instances of the records: one client at a time for what only holds *)
(* then, and two whose requests overlap.  The assessment of a commitment is *)
(* also evaluated over all small evidence of its tasks.                     *)
EXTENDS Reports, TLC

MCIds ==
  [account |-> {1, 2}, category |-> {1}, actual |-> {1, 2}, plan |-> {1, 2},
   rule |-> {1}, sub |-> {1}, saving |-> {1}, goal |-> {1}, budget |-> {1},
   note |-> {1, 2}, tag |-> {1}, commitment |-> {1}]

MCMaxRevision ==
  [account |-> 2, category |-> 2, actual |-> 2, plan |-> 3, rule |-> 3, sub |-> 3,
   saving |-> 3, goal |-> 2, budget |-> 3, note |-> 2, tag |-> 2, commitment |-> 3]

MCCurrency == [a \in {1, 2} |-> "EUR"]
MCKind == [k \in {1} |-> "expense"]
MCDefaults == {}

MCEntries ==
  {[account |-> 1, to |-> None, category |-> 1, type |-> "expense", amount |-> 1],
   [account |-> 1, to |-> 2, category |-> None, type |-> "transfer", amount |-> 1],
   [account |-> 1, to |-> None, category |-> None, type |-> "expense", amount |-> 1],
   [account |-> 1, to |-> None, category |-> None, type |-> "income", amount |-> 2]}

MCAmounts == {1, 2}
MCFingerprints == {"p"}
MCTimes == {1, 2}
MCSchedules == {{1, 2}, {2}}
MCWindows == {{1}, {1, 2}}
MCPrices == {1, 2}
MCTargets == {2}
MCContributions == {1, 2}
MCDates == {"d"}
MCNoteLinkTypes == {"actual", "goal", "budget"}

MCTerms ==
  {[cost |-> FALSE, buffer |-> FALSE, currency |-> FALSE,
    starts |-> None, ends |-> None, deadline |-> None],
   [cost |-> TRUE, buffer |-> FALSE, currency |-> TRUE,
    starts |-> 1, ends |-> 3, deadline |-> 2]}

MCStatuses == {"draft", "completed"}

MCTermPatches ==
  {[cost |-> FALSE], [buffer |-> TRUE], [buffer |-> FALSE], [currency |-> FALSE],
   [cost |-> TRUE, currency |-> TRUE], [starts |-> 2], [ends |-> 2], [deadline |-> 3],
   [ends |-> None]}

One(ops) == [clients |-> {"x"}, ops |-> ops]
Two(ops) == [clients |-> {"x", "y"}, ops |-> ops]

Ledger ==
  {"create_account", "delete_account", "create_category", "delete_category",
   "create_transaction", "update_transaction", "delete_transaction"}

Planning ==
  {"create_account", "delete_account", "create_plan", "update_plan",
   "fulfil_plan", "delete_transaction"}

Recurrences ==
  {"create_account", "create_rule", "generate", "create_sub", "update_sub", "delete_sub"}

Rewriting ==
  {"create_account", "create_rule", "update_rule", "set_rule_status", "create_sub",
   "update_sub", "delete_sub"}

Pausing ==
  {"create_account", "create_rule", "set_rule_status", "delete_rule", "generate", "create_sub"}

\* Occurrences whose plans are moved and cancelled, and planned again.
Moving == {"create_account", "create_rule", "generate", "update_plan", "cancel_plan"}

Rescheduling == {"create_account", "create_rule", "generate", "update_rule"}

Saving ==
  {"create_account", "update_account", "delete_account", "create_saving", "update_saving",
   "contribute", "delete_saving"}

Budgeting ==
  {"create_category", "delete_category", "update_category", "create_budget",
   "update_budget", "delete_budget", "create_goal", "update_goal", "delete_goal"}

Noting ==
  {"create_note", "update_note", "delete_note", "add_note_link", "remove_note_link",
   "create_tag", "delete_tag"}

Committing ==
  {"create_commitment", "archive_commitment", "delete_commitment",
   "add_commitment_link", "remove_commitment_link", "create_goal", "delete_goal"}

NoteCommitments ==
  {"create_commitment", "delete_commitment", "create_note", "update_note", "delete_note"}

Archiving == {"create_commitment", "archive_commitment", "create_note", "update_note"}

Fulfilling == {"create_account", "create_rule", "generate", "fulfil_plan"}

Spending ==
  {"create_account", "create_category", "create_budget", "create_plan", "fulfil_plan"}

Assessing ==
  {"create_account", "create_plan", "create_commitment", "add_commitment_link", "fulfil_plan"}

MCWorkloadsFulfilling == {One(Fulfilling)}
MCWorkloadsAssessing == {One(Assessing)}
MCWorkloadsArchiving == {One(Archiving)}

MCWorkloads ==
  {One(Ledger), One(Planning), One(Recurrences), One(Rewriting), One(Pausing), One(Moving),
   One(Rescheduling), One(Saving), One(Budgeting), One(Noting), One(Spending), One(Assessing),
   One(Committing), One(NoteCommitments),
   Two({"create_account", "create_plan", "fulfil_plan", "delete_plan"}),
   Two({"create_account", "create_plan", "fulfil_plan", "cancel_plan"}),
   Two({"create_account", "create_rule", "generate", "delete_plan"}),
   Two({"create_account", "create_sub", "update_sub"}),
   Two({"create_saving", "update_saving", "contribute"}),
   Two({"create_commitment", "update_commitment", "archive_commitment"})}

\* A constraint: the time of a plan matters beside occurrences only.
AtFirst(row) == "due" \in DOMAIN row => row.due = 1

TimesMatter ==
  "generate" \notin workload.ops =>
    /\ \A p \in Ids["plan"] : AtFirst(db.plan[p])
    /\ \A c \in Clients : AtFirst(request[c])

(***************************************************************************)
(* Assessments.  Tasks: every graph without a cycle, of both types of      *)
(* dependency.  Times: what is estimated, scheduled and asked for besides. *)
(***************************************************************************)
NoEvidence ==
  [task |-> <<>>, linked |-> {}, dependencies |-> {}, event |-> <<>>, conflicts |-> {},
   plan |-> <<>>, spent |-> {}, ledger |-> <<>>, kept |-> <<>>, budget |-> <<>>,
   saving |-> <<>>, goals |-> {}, missing |-> {},
   terms |-> [cost |-> 0, buffer |-> 0, minutes |-> 0, currency |-> {},
              decision |-> {}, target |-> {}]]

TaskEvidence ==
  {[NoEvidence EXCEPT
      !.task = [t \in 1 .. 3 |-> [status |-> status[t], estimate |-> 0, scheduled |-> 0]],
      !.linked = linked,
      !.dependencies = {d \in graph : d.task \in linked}] :
     status \in [1 .. 3 -> {"todo", "in_progress", "completed"}],
     linked \in SUBSET (1 .. 3),
     graph \in SUBSET {d \in [task : 1 .. 3, on : 1 .. 3,
                              type : {"finish_to_start", "start_to_start"}] : d.on < d.task}}

TimeEvidence ==
  {[NoEvidence EXCEPT
      !.task = (1 :> task1) @@ (2 :> task2),
      !.linked = {1, 2},
      !.event = <<[status |-> "confirmed", buffers |-> buffers]>>,
      !.terms = [@ EXCEPT !.minutes = minutes, !.target = target]] :
     task1 \in [status : {"todo", "cancelled"}, estimate : 0 .. 2, scheduled : 0 .. 2],
     task2 \in [status : {"todo"}, estimate : 0 .. 2, scheduled : 0 .. 2],
     buffers \in 0 .. 1,
     minutes \in 0 .. 4,
     target \in {{}, {-1}, {14}, {15}}}

ASSUME SomeTaskStarts == \A e \in TaskEvidence : SomeTaskCanStart(e)

ASSUME TimeAccounted == \A e \in TimeEvidence : UnscheduledBounded(e)

ASSUME WarningsShown ==
  \A e \in TaskEvidence \cup TimeEvidence : Collected(e) /\ NoWarningHidden(e)
=============================================================================
