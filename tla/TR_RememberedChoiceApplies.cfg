SPECIFICATION Spec
CONSTANTS
  Assignments = {a1}
  Fields = {"title", "task_type", "is_completed"}
  StatusFields = {"is_completed"}
  TieredFields = {"task_type"}
  Values = {0, 1}
  Completed = 1
  None = None
  CanvasType = 0
CONSTRAINT StaysSmall
PROPERTY RememberedChoiceApplies
