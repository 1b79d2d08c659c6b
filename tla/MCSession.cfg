SPECIFICATION FairSpec
CONSTANTS
  Commands = {"sql", "plan", "apply", "library"}
  Hosts = 3
  Shapes <- SomeShapes
  Scripts <- SomeScripts
  Errors = {"conflict", "refused", "refusedWith40001", "lost"}
  MaxRetries = 2
  MaxDeaths = 2
CHECK_DEADLOCK FALSE
INVARIANTS
  TypeOK
  AnyHostWillDo
  PlansFromWhole
PROPERTIES
  KeepsContract
  EndsEventually
