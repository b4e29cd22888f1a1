CONSTANTS
  Calls = {c1, c2, c3}
  MaxJobs = 1
  MaxEvents = 2
  MaxFaults = 2
  Texts <- MCTexts
SPECIFICATION Spec
INVARIANT RepliesTrue
PROPERTY EveryoneReturns
CHECK_DEADLOCK FALSE
