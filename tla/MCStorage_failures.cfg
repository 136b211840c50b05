\* Four requests at once; the process may die, and every call of Fault may
\* raise: reads, commits, the removals of a failed upload and of a deletion,
\* the archive, and each call of delete-all, putting back included.
SPECIFICATION StorageSpec
CONSTANTS
  Attachment = {i1, i2}
  Demo = {}
  Request = {r1, r2, r3, r4}
  Null = Null
  Operation = {"upload", "delete", "backup", "delete_all"}
  Fault = {"read", "commit", "cleanup", "unlink", "archive",
           "stage", "root", "others", "delete_all", "putback", "purge"}
  Workers = 3
  MayCrash = TRUE
SYMMETRY Sym
CHECK_DEADLOCK FALSE
INVARIANT StorageTypeOK
INVARIANT RowHasFile
INVARIANT BackupConsistent
