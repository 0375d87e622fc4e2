CONSTANTS
  MaxLatest = 3
  MaxPending = 2
  MalformedHasETag = FALSE
  Path = {pathA, pathB}
  MaxHandlers = 2
  Evaluation = {first, second}
  MaxReads = 2
SPECIFICATION Spec
INVARIANTS ReadyOnceWithData StreamApplied OnePollChain EvaluatesFreshData
PROPERTIES PollingCatchesUp FilesCatchUp
CHECK_DEADLOCK FALSE
