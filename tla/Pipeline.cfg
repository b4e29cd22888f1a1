SPECIFICATION Spec
CONSTANTS
  Cap = 1
  ACap = 1
  MaxBatch = 2
  MaxOps = 2
  MaxNet = 1
  MaxStarts = 2
INVARIANTS
  SessionComplete
  StreamInOrder
PROPERTIES
  QuietAfterStop
  StopReturns
CHECK_DEADLOCK FALSE
