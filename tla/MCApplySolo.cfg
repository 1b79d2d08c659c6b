SPECIFICATION Spec
CONSTANTS
  Operators = {"ops"}
  Relnames <- Names4
  Catalogs <- SoloCatalogs
  Desired <- SoloDesired
  HazardChoices <- SoloHazards
  Forced = {}
  MaxRetries = 1
  MaxConflicts = 1
  MaxFaults = 0
  MaxBadBuilds = 1
INVARIANTS
  TypeOK
  SettledMatches
  OrderIsSound
  NoDrift
  DataLossIsAllowed
  KeptTablesKeepRows
