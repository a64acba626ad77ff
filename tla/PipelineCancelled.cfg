SPECIFICATION Spec
CONSTANTS
  Jobs = {1}
  PDFs = {1}
  Workers = {w1, w2}
  MaxRetries = 0
  Faults = {"stop", "overrun"}
  TakesEmptyID = TRUE
PROPERTY
  FailureIsRecorded
