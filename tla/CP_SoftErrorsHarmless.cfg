SPECIFICATION Spec
CONSTANTS
  Threshold = 3
  Window = 2
  MaxReports = 3
PROPERTY SoftErrorsHarmless
