CONSTANTS
  Calls = {c1, c2}
  MaxJobs = 1
  MaxEvents = 1
  MaxFaults = 0
  Texts <- MCQuotedPath
SPECIFICATION Spec
PROPERTY WorkerConnects
CHECK_DEADLOCK FALSE
