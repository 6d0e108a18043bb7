SPECIFICATION Spec
CONSTANTS
  old = old
  new = new
  sync = sync
  Executes = {new}
  Syncs = {sync}
  CoreOf <- PairCores
  OasisOf <- PairRelease
  CoreNeeded = 2
  MaxFaults = 0
INVARIANTS
  CoreMigratedBeforeExecute
CHECK_DEADLOCK FALSE
