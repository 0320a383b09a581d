SPECIFICATION PartSpec
CONSTANTS
  Attempts = {1}
  MaxGeneration = 1
  MaxTime = 1
  MaxRetries = 0
  Limit = 1
  Sockets = {s1, s2}
  MaxCapabilities = 2
  Lifetime = 1
  LeaseDuration = 2
  ConnectionLimit = 1
  SessionLimit = 1
  MaxFrames = 2
  MaxOutput = 2
  OutputLimit = 2
  InputSpace = 1
INVARIANTS
  TerminalTypesOK
  CapabilitySpentOnce
  SlotsAreHeld
  CloseComesLast
PROPERTIES
  SlotsComeBack
  ConnectionEnds
CHECK_DEADLOCK FALSE
