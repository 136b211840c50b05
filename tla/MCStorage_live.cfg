\* Three requests at once, with a worker for each; reads, commits of rows,
\* the first move of delete-all and the archive may fail.
SPECIFICATION FairStorage
CONSTANTS
  Attachment = {i1, i2}
  Demo = {d1}
  Request = {r1, r2, r3}
  Null = Null
  Operation = {"upload", "delete", "backup", "cli_backup", "delete_all", "load", "reset"}
  Fault = {"read", "commit", "stage", "archive"}
  Workers = 3
  MayCrash = FALSE
CHECK_DEADLOCK FALSE
INVARIANT BytesGoWithRow
PROPERTY EveryRequestEnds
