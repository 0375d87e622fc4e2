SPECIFICATION Spec
CONSTANTS
  Flag <- MCFlag
  Segment <- MCSegment
  Item <- MCItem
  KindOrder <- MCKindOrder
  ArrayCutoff = 1
  BucketOf <- MCBucketOf
  NumberOf <- MCNumberOf
  DateOf <- MCDateOf
  Expressions <- MCExpressions
  GetBigSegments <- MCGetBigSegments
  MaxDepth = 7
  MaxNesting = 3
  Payload <- MCPayload
  LDContexts <- MCLDContexts
  Identified <- MCIdentified
  ClientOptions <- MCClientOptions
  TestFlag = "f1"
  TestSegment = "s1"
  Client = {client1, client2}
  TargetKey <- MCTargetKey
  Conditions <- MCConditions
  Preconfigured <- MCPreconfigured
  MaxVersion <- MCMaxVersion
  MaxBuilderCalls = 2
  MaxTargetCalls = 5
  MaxLists = 4

SYMMETRY MCSymmetry
INVARIANTS
  
  TestClientsHaveUpdates
  EvaluationEnds
  PrerequisitesHold
  SortedForTheStore
  StoredAsReceived
  FlagsStateSupportsEvents
  PrivateStaysPrivate
  CanonicalKeysDistinct
PROPERTY
  EvaluationChangesAreMarked
CHECK_DEADLOCK FALSE
