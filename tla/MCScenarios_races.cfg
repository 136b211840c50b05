\* A task, a change or the draft itself is written while the draft is edited,
\* accepted or discarded; a task is completed by an acceptance.
SPECIFICATION ScenariosSpec
CONSTANTS
  Task = {t1}
  Scenario = {s1}
  Change = {c1}
  Request = {r1, r2}
  Null = Null
  Proposed = {"todo", "completed"}
  Workloads <- Everything
SYMMETRY Sym
CHECK_DEADLOCK FALSE
INVARIANT CompletionKept
PROPERTIES PlanAppliedAlways SettledForGood RevisionCoversPlan
