SPECIFICATION Spec
CONSTANTS
  NSyncs = 3
  NEngines = 2
  Courses = {c1}
  Kinds = {"tasks"}
  Options <- PlainOption
  Backgrounds = {}
  Events = {"abort", "reset", "connect"}
  MaxEvents = 2
INVARIANT TypeOK
INVARIANT MutexNeverLost
INVARIANT BusyMeansRunning
INVARIANT ResultTruthful
PROPERTY NoStrayWrites
CHECK_DEADLOCK FALSE
