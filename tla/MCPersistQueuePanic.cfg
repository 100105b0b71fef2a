CONSTANTS
  Keys = {k1}
  Vals = {v1}
  Absent = Absent
  Senders = {s1}
  Flushers = {f1}
  Capacity = 2
  FlushCap = 1
  BatchSize = 2
  MaxOps = 1
  MaxCrashes = 0
SPECIFICATION Spec
INVARIANT PutNeverPanics
CHECK_DEADLOCK FALSE
