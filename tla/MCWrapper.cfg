CONSTANTS
  Key = {k1}
  Reader = {r1}
  MaxVersion = 2
  MaxWrites = 2
  MaxForeign = 1
  Caching = TRUE
  TombstoneHasBody = TRUE
  CoreMayFail = TRUE
SPECIFICATION Spec
INVARIANTS OneWriteAtTheDatabase RemembersTheDatabase
PROPERTY OnlyRacesTurnCacheBack
CHECK_DEADLOCK FALSE
