SPECIFICATION FairSpec
CONSTANTS
  Operators = {"ops"}
  Relnames <- Names4
  Catalogs <- RerunCatalogs
  Desired <- RerunDesired
  HazardChoices <- AllHazards
  Forced = {"ops"}
  MaxRetries = 1
  MaxConflicts = 2
  MaxFaults = 2
  MaxBadBuilds = 0
INVARIANTS
  OrderIsSound
PROPERTIES
  Converges
  ContractSpec
