SPECIFICATION FairGateSpec
CONSTANTS
  Sandboxes = {1, 2, 3, 4}
  Allocations = {t1}
  MaxAge = 2
  MaxFaults = 1
INVARIANTS
  GateTypeOK
  WorkspaceIsHeld
  ClosedLeavesNothing
  RoomIsTraceable
PROPERTIES
  CurrentReportStands
  AdmissionIsFresh
  AbandonedGoes
CHECK_DEADLOCK FALSE
