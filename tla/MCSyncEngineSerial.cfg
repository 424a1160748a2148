SPECIFICATION Spec
CONSTANTS
  NSyncs = 3
  NEngines = 2
  Courses = {c1}
  Kinds = {"tasks", "groups"}
  Options <- FreshOptions
  Backgrounds = {}
  Events = {"wipe", "close", "restart"}
  MaxEvents = 2
INVARIANT OneAtATime
INVARIANT CheckpointTruthful
INVARIANT CleanSuccessIsComplete
PROPERTY ImplementsSerialSync
CHECK_DEADLOCK FALSE
