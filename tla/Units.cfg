SPECIFICATION FairSpec
CONSTANTS
  a = a
  b = b
  Workers = {a, b}
  Units = {1, 2}
  Planned = {1}
  Follow <- PagedFollow
  Key <- OneAccount
  MaxAttempts = 2
  Bounded = TRUE
  Freezable = {1}
  MayCancel = TRUE
CHECK_DEADLOCK FALSE
INVARIANTS
  TypeOK
  ExclusiveExecution
  AttemptsBounded
  NotSilentlyShort
  FinishedIsQuiet
  SomeoneClosesTheRun
PROPERTIES
  TerminalUnitsStay
  ImplementsQueue
  UnitsSettle
  RunTerminatesUnlessRefreshLost
