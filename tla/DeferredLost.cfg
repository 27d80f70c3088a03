SPECIFICATION Spec
CONSTANTS
  a = a
  b = b
  c = c
  Accounts = {a, c}
  Deferring = {a}
  Slices <- Walks
  Chunks <- Eligible
  MaxDeaths = 0
  MayCancel = FALSE
CHECK_DEADLOCK FALSE
INVARIANT
  WalkedIsResolved
