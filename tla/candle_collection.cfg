\* Two processes of two symbols, three starts, two faults, three seconds.
SPECIFICATION Spec
CONSTANTS
  p1 = p1
  p2 = p2
  a = a
  b = b
  Processes = {p1, p2}
  Symbols <- Both
  MinInterval = 1
  Window = 4
  Limit = 2
  MaxRetries = 2
  MaxStarts = 3
  MaxFaults = 2
  Horizon = 7
PROPERTIES
  FreshWhenAlone
  AloneNeverRefused
SYMMETRY ProcessSymmetry
CHECK_DEADLOCK FALSE
