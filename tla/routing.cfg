SPECIFICATION FairSpec
CONSTANTS
  Deployed <- InOrder
  MaxNumber = 3
  MaxLogs = 1
INVARIANTS
  OneTransformerEach
  RowsSayWhatHappened
PROPERTIES
  EverythingStored
\* When everything is stored nothing is left to do.
CHECK_DEADLOCK FALSE
