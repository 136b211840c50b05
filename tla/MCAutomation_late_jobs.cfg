\* Late jobs: one runs late and the application stops before it has written the
\* next run; one runs while its rule is updated.
SPECIFICATION AutomationSpec
CONSTANTS
  Rule = {r1}
  Client = {c1}
  Event = {k1}
  Trigger <- AllTriggers
  Null = Null
  Start = Start
  MayFail = TRUE
  Grace = 1
  MaxTime = 2
  MaxRevision = 2
SYMMETRY Sym
CHECK_DEADLOCK FALSE
PROPERTY NoReplay
INVARIANT NextRunFollowsSchedule
