\* One client edits tasks and works on a scenario, or two on one draft.
SPECIFICATION ScenariosSpec
CONSTANTS
  Task = {t1, t2}
  Scenario = {s1}
  Change = {c1, c2}
  Request = {r1, r2}
  Null = Null
  Proposed = {"todo", "completed"}
  Workloads <- SequentialAndDrafting
SYMMETRY Sym
CHECK_DEADLOCK FALSE
INVARIANT ScenariosTypeOK
PROPERTY PlanAppliedAsReviewed
PROPERTY DraftsSettleOnce
PROPERTY AcceptAllOrNothing
