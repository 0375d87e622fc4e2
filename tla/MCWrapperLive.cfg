CONSTANTS
  Key = {k1}
  Reader = {r1}
  MaxVersion = 1
  MaxWrites = 3
  MaxForeign = 0
  Caching = TRUE
  TombstoneHasBody = TRUE
  CoreMayFail = TRUE
SPECIFICATION Spec
PROPERTIES WritesServedInOrder ReadsAnswered
CHECK_DEADLOCK FALSE
