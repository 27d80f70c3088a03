SPECIFICATION FairSpec
CONSTANTS
  s1 = s1
  g1 = g1
  g2 = g2
  r1 = r1
  r2 = r2
  Stagers = {s1}
  Gates = {g1, g2}
  Runs = {r1, r2}
  RunOf <- TwoRuns
  Cancellable = {r1}
  Uncapped = {}
  MarkerMayLapse = TRUE
CHECK_DEADLOCK FALSE
INVARIANTS
  TypeOK
  ExclusionUnlessDisturbed
PROPERTIES
  SeedFindsNobodyInside
  GateSeedsOnceQuiet
