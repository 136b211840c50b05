\* One client moves a parent, or gives a task a parent in an archived project.
SPECIFICATION Spec
CONSTANTS
  Task = {t1, t2}
  Project = {p1}
  Slot = {}
  Request = {r1}
  Null = Null
  Unset = Unset
  NewRows <- TreeRows
  Patches <- TreePatches
  Operation = {"create", "update", "archive"}
  MaxRevision = 2
  MaxItems = 1
SYMMETRY Sym
CHECK_DEADLOCK FALSE
PROPERTY ArchivedProjectReceivesNoTask
INVARIANT SubtaskSharesProject
