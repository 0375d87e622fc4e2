CONSTANTS
  Key = {k1}
  Reader = {r1}
  MaxVersion = 2
  MaxWrites = 2
  MaxForeign = 0
  Caching = TRUE
  TombstoneHasBody = TRUE
  CoreMayFail = FALSE
SPECIFICATION Spec
INVARIANT UpsertsShowInAll
CHECK_DEADLOCK FALSE
