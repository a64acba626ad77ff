SPECIFICATION Spec
CONSTANTS
  Jobs = {1}
  PDFs = {}
  Workers = {w1}
  MaxRetries = 0
  Faults = {}
  TakesEmptyID = FALSE
INVARIANT
  NoSelfInflictedFailure
