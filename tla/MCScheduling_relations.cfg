\* One client links three tasks, or plans, edits and applies with two.
SPECIFICATION SchedulingSpec
ACTION_CONSTRAINT LinksOrPlans
CONSTANTS
  Task = {t1, t2, t3}
  Project = {q1}
  Slot <- Hours
  Request = {r1}
  Null = Null
  Unset = Unset
  NewRows <- TreeRows
  Patches <- TreePatches
  Operation = {"create", "update", "delete", "depend", "undepend", "archive", "reschedule"}
  MaxRevision = 2
  MaxItems = 1
  Preview = {p1, p2}
  Event = {e1}
  MaxSelected = 2
SYMMETRY Sym
CHECK_DEADLOCK FALSE
INVARIANT SchedulingTypeOK
INVARIANT RelationsAcyclic
INVARIANT LinksLive
PROPERTY AppliedScheduleFits
