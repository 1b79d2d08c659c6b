SPECIFICATION Spec
CONSTANTS
  Operators = {"ci", "ops"}
  Relnames <- Names4
  Catalogs <- PairCatalogs
  Desired <- PairDesired
  HazardChoices <- AllHazards
  Forced = {"ci", "ops"}
  MaxRetries = 1
  MaxConflicts = 0
  MaxFaults = 0
  MaxBadBuilds = 0
INVARIANTS
  SettledMatches
  NoDrift
