SPECIFICATION RuntimeSpec
CONSTANTS
  Attempts = {1}
  MaxGeneration = 2
  MaxTime = 2
  MaxRetries = 1
  Limit = 1
  Enterers = {e}
  Leavers = {l}
  Maintainers = {m1}
  Ttl = 2
  MaxCrashes = 0
  DockerMayFail = TRUE
INVARIANTS
  RecordsMatchContainers
  OfferedRoomRuns
CHECK_DEADLOCK FALSE
