SPECIFICATION RuntimeSpec
CONSTANTS
  Attempts = {1}
  MaxGeneration = 2
  MaxTime = 1
  MaxRetries = 1
  Limit = 1
  Enterers = {e}
  Leavers = {l}
  Maintainers = {m1, m2}
  Ttl = 1
  MaxCrashes = 0
  DockerMayFail = FALSE
INVARIANTS
  OfferedRoomRuns
CHECK_DEADLOCK FALSE
