CONSTANTS
  MaxLogins = 2
  MaxPort = 2
  Visitors = {v1, v2}
  Finishers = {f1, f2}
  MaxEvents = 2
  NoLogin = NoLogin
SPECIFICATION FairLoginSpec
INVARIANTS
  SavedWithOwnCode
  PendingKept
PROPERTIES
  EveryLoginEnds
CHECK_DEADLOCK FALSE
