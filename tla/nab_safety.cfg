SPECIFICATION Spec
CONSTANTS
  Names = {n1}
  UUIDs = {u1, u2}
  NoName = NoName
  NoUUID = NoUUID
  OthersLag = FALSE
  VeleroRejects = TRUE
  LocationFlaps = TRUE
  MaxEdits = 3
  MaxResyncs = 1
  MaxFaults = 1
  MaxRequests = 2
CHECK_DEADLOCK FALSE
SYMMETRY Symmetry
INVARIANTS TypeOK NABGuarded BackupHasNAB
PROPERTIES UUIDStable RestoresGoFirst RequestWithdrawn LifecycleKept
