SPECIFICATION Spec
CONSTANTS
  Capacity = 2
  Scripts <- FewScripts
  MaxBatches = 2
  MaxInFlight = 2
  MindsStatus = FALSE
  MayBreak = FALSE
CHECK_DEADLOCK FALSE
INVARIANTS
  RepliesInOrder
