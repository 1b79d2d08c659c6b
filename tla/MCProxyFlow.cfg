SPECIFICATION FairSpec
CONSTANTS
  Capacity = 1
  Scripts <- LongScripts
  MaxBatches = 2
  MaxInFlight = 2
  MindsStatus = FALSE
  MayBreak = TRUE
CHECK_DEADLOCK FALSE
PROPERTIES
  Answered
  IsTunnel
