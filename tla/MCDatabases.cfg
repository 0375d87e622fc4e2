CONSTANTS
  p = p
  q = q
  a = a
  b = b
  Process <- MCProcess
  Keys <- MCKeys
  MaxVersion = 2
  Oversize <- MCOversize
  Earlier <- MCEarlier
  DataSets <- MCDataSets
  Owners <- MCOwners
  Readers <- MCOwners
  MaxWrites = 3
  MaxFaults = 2
SPECIFICATION Spec
PROPERTIES UpsertsOnlyAdvance UpsertToldTheTruth InitStoresTheData WritesAnswered
CHECK_DEADLOCK FALSE
