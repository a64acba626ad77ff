SPECIFICATION FairSpec
CONSTANTS
  a = a
  b = b
  Requests = {r1, r2, r3}
  Intents = {k1, k2}
  Segments = {a, b}
  Wanted <- WantedLists
  Faults = {"db", "unacked"}
INVARIANTS
  TypeOK
  ConsumedHasJob
  AnswersAreTrue
PROPERTIES
  EveryRequestAnswered
CHECK_DEADLOCK FALSE
