SPECIFICATION FairSpec
CONSTANTS
  Jobs = {1, 2}
  PDFs = {}
  Workers = {w1, w2}
  MaxRetries = 0
  Faults = {"provider", "stop", "overrun", "stall"}
  TakesEmptyID = TRUE
PROPERTIES
  CompletedIsFinal
  EveryJobFinishes
  ShutdownTerminates
