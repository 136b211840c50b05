\* Uploads take steps outside the lock while delete-all fails.  Each of the
\* invariants is violated on its own.
SPECIFICATION StorageSpec
CONSTANTS
  Attachment = {i1, i2}
  Demo = {}
  Request = {r1, r2, r3}
  Null = Null
  Operation = {"upload", "delete_all"}
  Fault = {"read", "commit", "delete_all"}
  Workers = 2
  MayCrash = FALSE
SYMMETRY Sym
CHECK_DEADLOCK FALSE
INVARIANT BytesGoWithRow
INVARIANT FailedDeleteAllRollsBack
