\* Two clients add dependencies, or move tasks, at once.
SPECIFICATION Spec
CONSTANTS
  Task = {t1, t2}
  Project = {}
  Slot = {}
  Request = {r1, r2}
  Null = Null
  Unset = Unset
  NewRows <- LinkRows
  Patches <- LinkPatches
  Operation = {"create", "depend", "update"}
  MaxRevision = 2
  MaxItems = 1
SYMMETRY Sym
CHECK_DEADLOCK FALSE
INVARIANT DependenciesAcyclic
INVARIANT ParentsAcyclic
