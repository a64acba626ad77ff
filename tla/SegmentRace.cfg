SPECIFICATION Spec
CONSTANTS
  a = a
  b = b
  Requests = {r1, r2}
  Intents = {k1, k2}
  Segments = {a, b}
  Wanted <- WantedLists
  Faults = {}
INVARIANT
  EnsureFindsOrCreates
CHECK_DEADLOCK FALSE
