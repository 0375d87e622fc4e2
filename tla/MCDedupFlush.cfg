CONSTANTS
  Key = {k1, k2, k3, k4}
  Value = {v1, v2}
  Nothing = Nothing
  MaxItems = 3
  MaxAge = 0
  MaxTime = 0
SPECIFICATION Spec
INVARIANT FoundIfSeen
CHECK_DEADLOCK FALSE
