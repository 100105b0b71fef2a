CONSTANTS
  Keys = {k1, k2}
  Vals = {v1}
  Absent = Absent
  Senders = {s1, s2}
  Flushers = {f1}
  Capacity = 2
  FlushCap = 1
  BatchSize = 2
  MaxOps = 2
  MaxCrashes = 1
SPECIFICATION FairSpec
INVARIANTS
  TypeOK
  WaitingBatchHasTimer
  FlushBarrier
  CloseDrains
PROPERTIES
  WriteBehindSpec
  EventuallyRetired
  FlushAcknowledged
CHECK_DEADLOCK FALSE
