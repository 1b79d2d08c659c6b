SPECIFICATION Spec
CONSTANTS
  Disks <- MixedDisks
  Arguments <- MixedArguments
  Callers = {"verify", "plan", "library"}
CHECK_DEADLOCK FALSE
INVARIANTS
  TypeOK
  SplitsAlike
  FilesAreUnderstood
  PrintedIsParsed
  NothingSlipsThrough
