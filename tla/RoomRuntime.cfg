SPECIFICATION FairRuntimeSpec
CONSTANTS
  Attempts = {1}
  MaxGeneration = 2
  MaxTime = 1
  MaxRetries = 1
  Limit = 2
  Enterers = {e}
  Leavers = {l}
  Maintainers = {m1, m2}
  Ttl = 1
  MaxCrashes = 0
  DockerMayFail = FALSE
INVARIANTS
  RuntimeTypeOK
  NoOrphans
PROPERTIES
  WritesAreStoreSteps
  RoomsVanish
CHECK_DEADLOCK FALSE
