SPECIFICATION Spec
CONSTANTS
  Jobs = {1}
  PDFs = {1}
  Workers = {w1, w2}
  MaxRetries = 1
  Faults = {"stop"}
  TakesEmptyID = TRUE
INVARIANT
  NoStrandedJob
