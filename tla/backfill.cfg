SPECIFICATION Spec
CONSTANTS
  up = up
  back = back
  Sessions = {up, back}
  Heights = {1, 2, 3}
  Slots = {"s", "t"}
  Values = {"zero", "a"}
  Empty = "zero"
  Pass <- Calls
  MaxPasses = 2
INVARIANTS
  TypeOK
  AscendingFaithful
  StillMeansFaithful
\* The passes are used up.
CHECK_DEADLOCK FALSE
