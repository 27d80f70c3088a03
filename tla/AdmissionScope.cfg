SPECIFICATION Spec
CONSTANTS
  a = a
  b = b
  c = c
  AwinOffers = AwinOffers
  Estate = Estate
  None = None
  Requests = {a, c}
  Asks <- Beside
  Working = FALSE
  Killed = {}
CHECK_DEADLOCK FALSE
INVARIANT ScopeExact
