\* Two clients apply previews and edit the planned tasks at once.
SPECIFICATION SchedulingSpec
CONSTANTS
  Task = {t1, t2}
  Project = {}
  Slot <- Hours
  Request = {r1, r2}
  Null = Null
  Unset = Unset
  NewRows <- OpenRows
  Patches <- CompletePatches
  Operation = {"create", "update", "delete"}
  MaxRevision = 2
  MaxItems = 1
  Preview = {p1}
  Event = {}
  MaxSelected = 2
SYMMETRY Sym
CHECK_DEADLOCK FALSE
PROPERTY AppliedOnce
PROPERTY PlacedAsReviewed
