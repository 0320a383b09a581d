SPECIFICATION FairRuntimeSpec
CONSTANTS
  Attempts = {1}
  MaxGeneration = 2
  MaxTime = 1
  MaxRetries = 1
  Limit = 1
  Enterers = {e}
  Leavers = {l}
  Maintainers = {m1}
  Ttl = 1
  MaxCrashes = 0
  DockerMayFail = FALSE
PROPERTIES
  EveryRoomCloses
CHECK_DEADLOCK FALSE
