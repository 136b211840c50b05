SPECIFICATION ImportsSpec
CONSTANTS
  None = None
  Unreadable = Unreadable
  File = {"a", "b", "u", "w"}
  Csv = {"a", "b"}
  Lines <- MCLines
  Mapping = {"m", "n", None}
  Profile = {"p", "q"}
  Value = {"v1"}
  Clients = {"x", "y"}
  Workloads <- MCWorkloads
  MaxLedger = 1
  MaxRevision = 3
INVARIANT ImportsTypeOK
INVARIANT ImportedOnce
INVARIANT BatchAccounted
PROPERTY AppliedForGood
CHECK_DEADLOCK FALSE
