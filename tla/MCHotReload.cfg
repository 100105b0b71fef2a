CONSTANTS
  Paths <- MCPaths
  Emails <- MCEmails
  Handlers = {h1, h2}
  EmailsIn <- OwnFile
  MaxChanges = 3
  None = None
  Torn = Torn
SPECIFICATION FairSpec
INVARIANTS
  TypeOK
  QuietPoolInStep
PROPERTY WrittenIsLoaded
CHECK_DEADLOCK FALSE
