CONSTANTS
  Emails <- MCEmails
  Handlers = {h1, h2}
  Objects = {o1, o2, o3}
  None = None
  States <- MCStates
SPECIFICATION Spec
INVARIANTS
  TypeOK
  CountsHandedOver
PROPERTY ProtectedLast
SYMMETRY Symmetry
CHECK_DEADLOCK FALSE
