SPECIFICATION FairSpec
CONSTANTS
  Requests = {r1, r2}
  Priorities = {1, 2}
  MaxConcurrent = 1
  MaxQueueSize = 1
  MaxRetries = 1
  RequestTimeout = 0
  MaxPause = 0
  MaxAge = 1
  RetryCap = 2
PROPERTIES LeavesQueue PauseEnds PromisesSettle
