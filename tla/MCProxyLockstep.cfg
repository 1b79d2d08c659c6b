SPECIFICATION Spec
CONSTANTS
  Capacity = 2
  Scripts <- AllScripts
  MaxBatches = 4
  MaxInFlight = 1
  MindsStatus = TRUE
  MayBreak = FALSE
CHECK_DEADLOCK FALSE
INVARIANTS
  TypeOK
  SupportedOnly
  NothingElseIsDropped
  RepliesInOrder
  ReadyIsAsked
  AnsweredIsOver
  MixIsWarned
PROPERTIES
  RejectedBatchStops
