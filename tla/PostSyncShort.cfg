SPECIFICATION Spec
CONSTANTS
  a = a
  b = b
  Workers = {a, b}
  Networks = {"n"}
  Awin = {}
  Rakuten = {}
  Days = {"d", "e"}
  Pages <- OnePage
  Plans <- OnlyBackfill
CHECK_DEADLOCK FALSE
INVARIANT
  EveryDayRebuilt
SYMMETRY Symmetry
