SPECIFICATION RuntimeSpec
CONSTANTS
  Attempts = {1}
  MaxGeneration = 2
  MaxTime = 1
  MaxRetries = 1
  Limit = 1
  Enterers = {e}
  Leavers = {l}
  Maintainers = {m1}
  Ttl = 1
  MaxCrashes = 1
  DockerMayFail = FALSE
INVARIANTS
  NoOrphans
CHECK_DEADLOCK FALSE
