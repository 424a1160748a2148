SPECIFICATION FairSpec
CONSTANTS
  Downloads = {"x", "y", "z"}
  Calls <- FourCalls
  CallOf <- TwoForOne
  Names = {"n", "m"}
  NameOf <- TwoShareName
  MaxConcurrent = 2
  MaxExits = 1
  None = None
INVARIANT TypeOK
INVARIANT OnePlace
INVARIANT QueueServed
INVARIANT RecordedFileIntact
PROPERTY CallsAnswered
CHECK_DEADLOCK FALSE
