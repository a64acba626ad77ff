SPECIFICATION Spec
CONSTANTS
  Jobs = {1}
  PDFs = {1}
  Workers = {w1, w2, w3}
  MaxRetries = 2
  Faults = {"provider", "db", "unacked", "stop", "overrun", "crash"}
  TakesEmptyID = TRUE
SYMMETRY WorkerSymmetry
INVARIANTS
  TypeOK
  SingleRunner
  NoRunIsRefused
  SearchableIsComplete
  CompletedHasMaterial
  StageMeansPersisted
PROPERTIES
  StageOnlyAdvances
  ServiceSpec
