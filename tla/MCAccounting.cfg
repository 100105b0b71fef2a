CONSTANTS
  Workers = {w1, w2}
  Streams <- MCStreams
  MaxLines = 10
  MaxQueue = 2
  MaxTime = 1
  MaxEvents = 1
  None = None
SPECIFICATION Spec
INVARIANTS
  TypeOK
  UsageOfStream
  CountsExact
  PartsWithinWhole
  PinKept
SYMMETRY Symmetry
CHECK_DEADLOCK FALSE
