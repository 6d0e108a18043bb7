SPECIFICATION Spec
CONSTANTS
  Deps <- Names
  Position <- InOrder
  MaxVersion = 2
  Worlds <- AllWorlds
  Original = "a"
  Fork = "fork"
  Local = "../fork"
  MaxRuns = 2
INVARIANTS
  TypeOK
  ResolvedMeansEqual
PROPERTIES
  InSyncStays
  OnlyForward
\* The script is not run for ever.
CHECK_DEADLOCK FALSE
