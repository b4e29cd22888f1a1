CONSTANTS
  Threads = {t1, t2}
  Pids = {1, 2}
  Started = {1}
  Free = free
  Kinds = {"image"}
  Failures = {"alloc", "open", "log"}
  MaxOps = 4
  MaxLife = 1
  MaxSeq = 5
SPECIFICATION Spec
INVARIANTS TypeOK OneEntryPerPid InitLogged InitMeansStarted KnownAfterInit
SYMMETRY ThreadSymmetry
CHECK_DEADLOCK FALSE
