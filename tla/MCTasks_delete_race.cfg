\* One client deletes a task another client links to.
SPECIFICATION Spec
CONSTANTS
  Task = {t1, t2}
  Project = {}
  Slot = {}
  Request = {r1, r2}
  Null = Null
  Unset = Unset
  NewRows <- LinkRows
  Patches <- LinkPatches
  Operation = {"create", "update", "delete", "depend"}
  MaxRevision = 2
  MaxItems = 1
SYMMETRY Sym
CHECK_DEADLOCK FALSE
INVARIANT LinksLive
