\* Two requests at a time on one rule, its job, and restarts.
SPECIFICATION AutomationSpec
CONSTANTS
  Rule = {r1}
  Client = {c1, c2}
  Event = {k1}
  Trigger <- AllTriggers
  Null = Null
  Start = Start
  MayFail = TRUE
  Grace = 0
  MaxTime = 3
  MaxRevision = 2
SYMMETRY Sym
CHECK_DEADLOCK FALSE
INVARIANT AutomationTypeOK
INVARIANT ActedAsLogged
INVARIANT JobsFollowRules
PROPERTY DueRunsCaughtUp
