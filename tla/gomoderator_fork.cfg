SPECIFICATION Spec
CONSTANTS
  Deps <- Names
  Position <- InOrder
  MaxVersion = 2
  Worlds <- OneSided
  Original = "a"
  Fork = "fork"
  Local = "../fork"
  MaxRuns = 1
INVARIANTS
  ResolvedMeansEqual
\* The script is not run for ever.
CHECK_DEADLOCK FALSE
