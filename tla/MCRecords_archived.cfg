SPECIFICATION Spec
CONSTANTS
  None = None
  Clients = {"x", "y"}
  MaxRevision <- MCMaxRevision
  MaxSaved = 4
  Limit = 2
  MaxLinks = 1
  Ids <- MCIds
  Workloads <- MCWorkloadsArchiving
  Currency <- MCCurrency
  Kind <- MCKind
  Defaults <- MCDefaults
  Entries <- MCEntries
  Amounts <- MCAmounts
  Fingerprints <- MCFingerprints
  Times <- MCTimes
  Schedules <- MCSchedules
  Windows <- MCWindows
  Prices <- MCPrices
  Targets <- MCTargets
  Contributions <- MCContributions
  Dates <- MCDates
  NoteLinkTypes <- MCNoteLinkTypes
  Terms <- MCTerms
  TermPatches <- MCTermPatches
  Statuses <- MCStatuses
  HomeCurrency = "EUR"
  LimitAmount = 1
  CommitmentMoney = 1
PROPERTY ArchivedKeepsLinks
CHECK_DEADLOCK FALSE
