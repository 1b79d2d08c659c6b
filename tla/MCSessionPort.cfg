SPECIFICATION Spec
CONSTANTS
  Commands = {"sql"}
  Hosts = 1
  Shapes <- OneShape
  Scripts <- SomeScripts
  Errors = {"conflict", "refused", "lostWith40001"}
  MaxRetries = 2
  MaxDeaths = 0
CHECK_DEADLOCK FALSE
INVARIANT
  ExecutedOnce
