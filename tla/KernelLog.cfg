SPECIFICATION Spec
CONSTANTS
  w1 = w1
  w2 = w2
  Free = Free
  Writers <- MCWriters
  MaxLen = 2
  WakeLen = 1
  Sizes = {1}
  MaxRecs = 3
  MaxStarts = 2
INVARIANTS
  TypeOK
  NoLostWakeup
  WriterOwnsTail
  BuffersFit
  PostFollowsPre
PROPERTIES
  ImplementsFifo
  BufferedIsTaken
CHECK_DEADLOCK FALSE
