SPECIFICATION ClientSpec
CONSTANTS
  Attempts = {1}
  MaxGeneration = 2
  MaxTime = 2
  MaxRetries = 1
  Limit = 1
  Sockets = {s1}
  MaxCapabilities = 1
  Lifetime = 1
  LeaseDuration = 2
  ConnectionLimit = 1
  SessionLimit = 1
  Requests = {r1, r2}
  Keys = {k1}
  AttemptTtl = 1
  Digests = {d1}
  Tokens = {1, 2, 3}
  Threads = {t1, t2}
  MaxSessions = 2
  LifeLimit = 2
  Credentials = {1, 3}
  LastSecond = 2
  Migrations = {m1, m2}
  Paths = {p1, p2}
  MaxRow = 2
INVARIANTS
  TypeOK
  SchemaChecks
  ReplacementWaits
  PublishedIsVerified
  LiveRoomIsNotCleaned
  ClosedRoomIsClean
  NothingIsStranded
  CurrentEpochIsOffered
  ClientTypeOK
  OneEffectPerKey
  RecoveryIsObserved
  RecoveryGoesOn
  AcceptedIsOpen
PROPERTIES
  KeepsPromise
  WritesMoveVersion
  TriggersNeverAbort
  NothingAdvancesAfterStop
  LeasesAreCurrent
  SoonestGivesWay
  BackupIsExact
CHECK_DEADLOCK FALSE
