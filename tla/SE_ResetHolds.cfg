SPECIFICATION Spec
CONSTANTS
  NSyncs = 1
  NEngines = 1
  Courses = {c1}
  Kinds = {"tasks"}
  Options <- PlainOption
  Backgrounds = {}
  Events = {"reset"}
  MaxEvents = 2
PROPERTY ResetHolds
CHECK_DEADLOCK FALSE
