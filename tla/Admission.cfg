SPECIFICATION Spec
CONSTANTS
  a = a
  b = b
  c = c
  AwinOffers = AwinOffers
  Estate = Estate
  None = None
  Requests = {a, b, c}
  Asks <- Beside
  Working = TRUE
  Killed = {a, b}
SYMMETRY Alike
CHECK_DEADLOCK FALSE
INVARIANTS
  TypeOK
  AnsweredAsAsked
  OneRunSurvives
  SomeRunSurvives
