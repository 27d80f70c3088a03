SPECIFICATION FairSpec
CONSTANTS
  a = a
  b = b
  u = u
  v = v
  Callers = {a, b, u, v}
  Claimers = {u, v}
  Renewers = {a}
  Capped = TRUE
CHECK_DEADLOCK FALSE
INVARIANTS
  TypeOK
  NeverStolen
PROPERTIES
  KeyIsTaken
