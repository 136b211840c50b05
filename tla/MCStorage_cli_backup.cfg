\* A backup from the command line while an attachment is deleted.
SPECIFICATION StorageSpec
CONSTANTS
  Attachment = {i1}
  Demo = {}
  Request = {r1, r2, r3}
  Null = Null
  Operation = {"upload", "delete", "cli_backup"}
  Fault = {}
  Workers = 2
  MayCrash = FALSE
SYMMETRY Sym
CHECK_DEADLOCK FALSE
INVARIANT BackupConsistent
