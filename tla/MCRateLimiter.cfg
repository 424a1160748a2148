SPECIFICATION Spec
CONSTANTS
  Requests = {r1, r2, r3}
  Priorities = {1, 2, 3}
  MaxConcurrent = 1
  MaxQueueSize = 2
  MaxRetries = 1
  RequestTimeout = 0
  MaxPause = 0
  MaxAge = 1
  RetryCap = 2
SYMMETRY RequestSymmetry
INVARIANTS TypeOK ActiveCount QueueConsistent SlotsServed SortedUntilRetry
PROPERTIES OnlyRetriesExceedLimit DropsJustified NoStartWhilePaused
