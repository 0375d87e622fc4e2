CONSTANTS
  Flag = {f1, f2}
  Segment = {s1}
  Async = FALSE
  Waits = FALSE
  Stale = FALSE
  MaxVersion = 2
  MaxCalls = 2
  MaxAwaited = 4
SPECIFICATION MCSpec
SYMMETRY Symmetry
INVARIANTS TrackerInverse TrackerMatchesStore EveryChangeTold NoSpuriousEvents
CHECK_DEADLOCK FALSE
