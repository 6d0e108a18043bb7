SPECIFICATION FairSpec
CONSTANTS
  old = old
  new = new
  sync = sync
  Executes = {old, new}
  Syncs = {sync}
  CoreOf <- Cores
  OasisOf <- Release
  CoreNeeded = 2
  MaxFaults = 1
INVARIANTS
  TypeOK
  ExecuteMigrated
  HealthyMeansMigrated
  PassedMeansMigrated
PROPERTIES
  EveryoneRuns
  CoreCompletes
\* When everything runs and the faults are used up nothing happens any more.
CHECK_DEADLOCK FALSE
