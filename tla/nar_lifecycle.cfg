SPECIFICATION FairSpec
CONSTANTS
  Names = {n1}
  UUIDs = {u1, u2}
  NoName = NoName
  NoUUID = NoUUID
  Lagging = {"vr"}
  MaxEdits = 2
  MaxChanges = 1
  MaxFaults = 1
CHECK_DEADLOCK FALSE
INVARIANT TypeOK
PROPERTIES CreatedForNAR RestoreRunsOnce DeletionCompletes OrphansCollected CompletionReported
