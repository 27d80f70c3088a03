SPECIFICATION Spec
CONSTANTS
  WindowDays = 2
  InitialDays = 4
  OverlapDays = 1
  UnitsAdvance = FALSE
  MaxAhead = 2
  MaxDay = 5
CHECK_DEADLOCK FALSE
INVARIANTS
  TypeOK
  NoDaySkipped
PROPERTIES
  WindowsTile
