SPECIFICATION Spec
CONSTANTS
  a = a
  b = b
  Workers = {a, b}
  Units = {1}
  Planned = {1}
  Follow <- NoFollow
  Key <- OneAccount
  MaxAttempts = 2
  Bounded = TRUE
  Freezable = {}
  MayCancel = TRUE
CHECK_DEADLOCK FALSE
PROPERTIES
  CancelIsFinal
