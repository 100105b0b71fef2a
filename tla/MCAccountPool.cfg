CONSTANTS
  Emails <- MCEmails
  Handlers = {h1, h2}
  Objects = {o1, o2, o3}
  None = None
  Tier <- MCTier
  States <- MCStates
SPECIFICATION Spec
INVARIANTS
  TypeOK
  InflightExact
PROPERTY RotatesWhileExact
SYMMETRY Symmetry
CHECK_DEADLOCK FALSE
