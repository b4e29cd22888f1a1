CONSTANTS
  Threads = {t1, t2}
  Pids = {1, 2}
  Started = {1, 2}
  Free = free
  Kinds = {"file", "paging", "image"}
  Failures = {}
  MaxOps = 3
  MaxLife = 2
  MaxSeq = 5
SPECIFICATION Spec
INVARIANT NoSelfLock
CHECK_DEADLOCK FALSE
