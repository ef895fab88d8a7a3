\* Two requests of any kind, two failing calls each, one restart.
SPECIFICATION Spec
CONSTANTS
  q1 = q1
  q2 = q2
  NoRequest = NoRequest
  Requests = {q1, q2}
  MaxHits = 2
  MaxRestarts = 1
INVARIANTS
  OneVerdict
  OneFailureIsSeen
PROPERTIES
  LocksAreFreed
CHECK_DEADLOCK FALSE
