SPECIFICATION FairSpec
CONSTANTS
  Threshold = 3
  Window = 2
  MaxReports = 3
INVARIANT TypeOK
INVARIANT SafeModeAgrees
INVARIANT NothingScheduled
PROPERTY LoopNeverMissed
PROPERTY ResumedModeEnds
