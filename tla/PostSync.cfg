SPECIFICATION FairSpec
CONSTANTS
  a = a
  b = b
  Workers = {a, b}
  Networks = {"m", "n"}
  Awin = {"m"}
  Rakuten = {"m"}
  Days = {"d"}
  Pages <- TwoPages
  Plans <- Both
CHECK_DEADLOCK FALSE
INVARIANTS
  TypeOK
  WalksInOrder
  NeverPulledAway
PROPERTIES
  WorkIsKept
  GateReopens
