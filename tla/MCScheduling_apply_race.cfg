\* Two clients plan different tasks at once.
SPECIFICATION SchedulingSpec
CONSTANTS
  Task = {t1, t2}
  Project = {}
  Slot <- OneHour
  Request = {r1, r2}
  Null = Null
  Unset = Unset
  NewRows <- OpenRows
  Patches <- NoPatches
  Operation = {"create"}
  MaxRevision = 2
  MaxItems = 1
  Preview = {p1, p2}
  Event = {}
  MaxSelected = 1
SYMMETRY Sym
CHECK_DEADLOCK FALSE
PROPERTY AppliedScheduleFits
