SPECIFICATION Spec
CONSTANTS
  a1 = a1
  b1 = b1
  a2 = a2
  a3 = a3
  Callers = {p, q}
  Nodes = {n, m}
  Blocks = {a1, b1, a2, a3}
  Number <- MCNumber
  Window = 1
  MaxCalls = 4
  MaxFaults = 1
PROPERTIES
  HeightsKept
  FinalStays
\* The bounds are used up in the end.
CHECK_DEADLOCK FALSE
