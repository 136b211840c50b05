\* Two clients on the life of two tasks.
SPECIFICATION Spec
CONSTRAINT LinkedWhenNew
CONSTANTS
  Task = {t1, t2}
  Project = {}
  Slot = {}
  Request = {r1, r2}
  Null = Null
  Unset = Unset
  NewRows <- LifecycleRows
  Patches <- LifecyclePatches
  Operation = {"create", "update", "complete", "delete", "depend", "undepend"}
  MaxRevision = 3
  MaxItems = 2
SYMMETRY Sym
CHECK_DEADLOCK FALSE
INVARIANT TypeOK
INVARIANT CompletionRecorded
INVARIANT SeenIsCurrent
PROPERTY WritesAdvanceRevision
PROPERTY BulkAllOrNothing
PROPERTY LifecycleImplemented
