SPECIFICATION TerminalSpec
CONSTANTS
  Attempts = {1}
  MaxGeneration = 2
  MaxTime = 1
  MaxRetries = 0
  Limit = 1
  Sockets = {s1}
  MaxCapabilities = 1
  Lifetime = 1
  LeaseDuration = 2
  ConnectionLimit = 1
  SessionLimit = 1
PROPERTIES
  AttachSeesIntents
CHECK_DEADLOCK FALSE
