SPECIFICATION Spec
CONSTANTS
  Cap = 1
  MaxOps = 4
  MaxTime = 3
INVARIANTS
  TypeOK
  Conserved
  InOrder
  SyncOrder
  Settled
PROPERTY
  WatermarkHolds
CHECK_DEADLOCK FALSE
