SPECIFICATION Spec
CONSTANTS
  NSyncs = 2
  NEngines = 1
  Courses = {c1}
  Kinds = {"tasks"}
  Options <- PlainOption
  Backgrounds = {}
  Events = {"abort"}
  MaxEvents = 2
PROPERTY AbortedNeverCommits
CHECK_DEADLOCK FALSE
