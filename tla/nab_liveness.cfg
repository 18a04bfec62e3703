SPECIFICATION FairSyncSpec
CONSTANTS
  Names = {n1}
  UUIDs = {u1}
  NoName = NoName
  NoUUID = NoUUID
  OthersLag = TRUE
  VeleroRejects = FALSE
  LocationFlaps = FALSE
  MaxEdits = 2
  MaxResyncs = 0
  MaxFaults = 1
  MaxRequests = 2
CHECK_DEADLOCK FALSE
INVARIANTS PassesOK
PROPERTIES DeletionCompletes CompletionReported DeleteBackupCompletes ControllerSpec BackupKept NoneStranded
