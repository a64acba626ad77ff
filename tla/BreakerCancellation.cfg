SPECIFICATION Spec
CONSTANTS
  Callers = {c1, c2}
  MaxFailures = 2
  HalfOpenMaxCalls = 1
  Cancels = TRUE
PROPERTY
  CancellationsNotCounted
