SPECIFICATION FairSpec
CONSTANTS
  a1 = a1
  b1 = b1
  a2 = a2
  a3 = a3
  Callers = {p, q}
  Nodes = {n}
  Blocks = {a1, b1, a2, a3}
  Number <- MCNumber
  Window = 2
  MaxCalls = 4
  MaxFaults = 1
INVARIANTS
  TypeOK
  OneHeaderPerHeight
PROPERTIES
  OverlapsKeepChain
  EventuallyAnswered
\* The bounds are used up in the end.
CHECK_DEADLOCK FALSE
