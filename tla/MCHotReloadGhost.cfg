CONSTANTS
  Paths <- MCPaths
  Emails <- MCEmails
  Handlers = {h1, h2}
  EmailsIn <- AnyFile
  MaxChanges = 3
  None = None
  Torn = Torn
SPECIFICATION Spec
INVARIANT RemovedFileIsGone
CHECK_DEADLOCK FALSE
