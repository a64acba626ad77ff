SPECIFICATION Spec
CONSTANTS
  Jobs = {1}
  PDFs = {1}
  Workers = {w1}
  MaxRetries = 0
  Faults = {"db"}
  TakesEmptyID = TRUE
PROPERTY
  CompletedIsFinal
