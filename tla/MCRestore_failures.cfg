\* Two restores; any step may raise and the process may die at any step.
SPECIFICATION RestoreSpec
CONSTANTS
  a1 = a1
  a2 = a2
  v0 = v0
  v1 = v1
  v2 = v2
  v3 = v3
  Attempt = {a1, a2}
  Version = {v0, v1, v2, v3}
  First = v0
  Source = v1
  Failing <- AllSteps
SYMMETRY Sym
CHECK_DEADLOCK FALSE
INVARIANT RestoreTypeOK
INVARIANT OriginalKept
PROPERTY OutcomeIsTrue
PROPERTY RecoveryNamesWhatIsKept
