CONSTANTS
  Requests = {r1, r2}
  Accounts = {a1}
  ApiKeys = {k1}
  Sources <- MCSources
  MaxAttempts = 2
  Pinned = {r2}
  Bars <- MCBars
  None = None
SPECIFICATION FairSpec
INVARIANTS
  TypeOK
  LeasesBalanced
  AnsweredOnce
  ExhaustedIsHonest
PROPERTY EveryRequestEnds
CHECK_DEADLOCK FALSE
