SPECIFICATION Spec
CONSTANTS
  Operators = {"ci", "ops"}
  Relnames <- Names4
  Catalogs <- MoveCatalogs
  Desired <- MoveDesired
  HazardChoices <- AllHazards
  Forced = {"ci", "ops"}
  MaxRetries = 1
  MaxConflicts = 0
  MaxFaults = 0
  MaxBadBuilds = 0
INVARIANT
  SettledMatches
