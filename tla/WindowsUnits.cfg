SPECIFICATION Spec
CONSTANTS
  WindowDays = 2
  InitialDays = 3
  OverlapDays = 1
  UnitsAdvance = TRUE
  MaxAhead = 0
  MaxDay = 3
CHECK_DEADLOCK FALSE
INVARIANT
  NoDaySkipped
