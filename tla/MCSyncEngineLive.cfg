SPECIFICATION FairSpec
CONSTANTS
  NSyncs = 2
  NEngines = 2
  Courses = {c1}
  Kinds = {"tasks"}
  Options <- DeferOptions
  Backgrounds = {b1}
  Events = {"abort", "reset", "wipe", "connect", "close", "restart", "stall"}
  MaxEvents = 2
INVARIANT CheckpointTruthful
PROPERTY SyncsEnd
PROPERTY EngineFrees
CHECK_DEADLOCK FALSE
