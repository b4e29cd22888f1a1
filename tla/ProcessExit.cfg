CONSTANTS
  Threads = {t1, t2}
  Pids = {1, 2}
  Started = {1}
  Free = free
  Kinds = {"file", "paging"}
  Failures = {"keep"}
  MaxOps = 4
  MaxLife = 2
  MaxSeq = 5
SPECIFICATION Spec
INVARIANTS NoDanglingRef CreateOnce
PROPERTY ExitedLeave
CHECK_DEADLOCK FALSE
