CONSTANTS
  Key = {k1}
  Value = {"in", "out", "none"}
  Nothing = Nothing
  MaxItems = 2
  MaxAge = 1
  Query = {q1}
  StaleAfter = 1
  MaxPolls = 1
  Varying = {k1}
  AtFirst = {"out"}
  MaxTime = 2
  MaxChanges = 1
SPECIFICATION HSpec
INVARIANT CachedNotTooLong
CHECK_DEADLOCK FALSE
