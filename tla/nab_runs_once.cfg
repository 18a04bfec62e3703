SPECIFICATION Spec
CONSTANTS
  Names = {n1}
  UUIDs = {u1}
  NoName = NoName
  NoUUID = NoUUID
  OthersLag = FALSE
  VeleroRejects = FALSE
  LocationFlaps = FALSE
  MaxEdits = 1
  MaxResyncs = 0
  MaxFaults = 1
  MaxRequests = 1
CHECK_DEADLOCK FALSE
PROPERTY BackupRunsOnce
