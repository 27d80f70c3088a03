SPECIFICATION Spec
CONSTANTS
  a = a
  b = b
  c = c
  Accounts = {a, b, c}
  Deferring = {a, b}
  Slices <- Walks
  Chunks <- Eligible
  MaxDeaths = 3
  MayCancel = TRUE
CHECK_DEADLOCK FALSE
INVARIANTS
  TypeOK
  ResolvedIsPlanned
