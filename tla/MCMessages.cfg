CONSTANTS
  Requests = {r1}
  Claudes = {a1}
  Keys = {k1}
  KeysFirst = TRUE
  MaxAttempts = 3
  Names <- MCNames
  Asks <- MCAsks
  Puts <- MCPuts
  None = None
SPECIFICATION FairSpec
INVARIANTS
  TypeOK
  LeasesBalanced
  AnsweredOnce
  SourcesInOrder
  OneKindOfFallback
  ForwardsBounded
PROPERTY EveryRequestEnds
