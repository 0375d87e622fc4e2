CONSTANTS
  Flag = {f1}
  Segment = {s1}
  Async = TRUE
  Waits = FALSE
  Stale = FALSE
  MaxVersion = 1
  MaxCalls = 2
SPECIFICATION Spec
INVARIANT InitNotOvertaken
CHECK_DEADLOCK FALSE
