SPECIFICATION Spec
CONSTANTS
  Callers = {c1, c2, c3}
  MaxFailures = 2
  HalfOpenMaxCalls = 1
  Cancels = TRUE
INVARIANT
  HalfOpenAdmits
