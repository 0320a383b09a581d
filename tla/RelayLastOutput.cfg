SPECIFICATION RelaySpec
CONSTANTS
  MaxFrames = 2
  MaxOutput = 1
  OutputLimit = 2
  InputSpace = 1
INVARIANTS
  LastOutputIsRelayed
CHECK_DEADLOCK FALSE
