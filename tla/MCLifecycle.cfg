CONSTANTS
  Kinds = {"chatgpt", "claude", "key"}
  Workers = {w1, w2}
  Objects = {o1, o2}
  MaxQueue = 1
  MaxEvents = 2
  None = None
SPECIFICATION Spec
INVARIANTS
  ToggleHolds
  TokensInStep
  DeadHasReason
  DeletedIsGone
SYMMETRY Symmetry
CHECK_DEADLOCK FALSE
