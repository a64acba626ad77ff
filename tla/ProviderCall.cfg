SPECIFICATION FairCallSpec
CONSTANTS
  Callers = {c1, c2}
  MaxFailures = 2
  HalfOpenMaxCalls = 1
  Cancels = TRUE
  MaxRetries = 1
  MaxPolls = 2
INVARIANTS
  TypeOK
  CallTypeOK
  ClosedBelowThreshold
  ProbesBounded
PROPERTIES
  StateMachine
  EveryCallReturns
  Recovers
