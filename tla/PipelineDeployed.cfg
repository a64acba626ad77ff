SPECIFICATION Spec
CONSTANTS
  Jobs = {1, 2}
  PDFs = {1}
  Workers = {w1, w2}
  MaxRetries = 2
  Faults = {"stop", "overrun", "crash"}
  TakesEmptyID = FALSE
SYMMETRY WorkerSymmetry
INVARIANT
  OnlyTheTranscriptFails
