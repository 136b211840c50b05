\* Two equal lines of one file, and two versions of one calendar.
SPECIFICATION ImportsSpec
CONSTANTS
  None = None
  Unreadable = Unreadable
  File = {"a", "b", "twins", "u", "w", "z"}
  Csv = {"a", "b", "twins"}
  Lines <- MCLines
  Mapping = {"m", "n", None}
  Profile = {"p", "q"}
  Value = {"v1"}
  Clients = {"x", "y"}
  Workloads <- StaleRows
  MaxLedger = 1
  MaxRevision = 3
PROPERTIES StaleMeansImportedSince EditsKept
CHECK_DEADLOCK FALSE
