\* One client deletes the parent of a task.
SPECIFICATION Spec
CONSTANTS
  Task = {t1, t2}
  Project = {}
  Slot = {}
  Request = {r1}
  Null = Null
  Unset = Unset
  NewRows <- TreeRows
  Patches <- LinkPatches
  Operation = {"create", "delete"}
  MaxRevision = 2
  MaxItems = 1
SYMMETRY Sym
CHECK_DEADLOCK FALSE
PROPERTY RevisionIdentifiesRow
