SPECIFICATION FairSpec
CONSTANTS
  Names = {n1}
  UUIDs = {u1}
  Specs = {s1}
  NoName = NoName
  NoUUID = NoUUID
  NoSpec = NoSpec
  Lagging = {"secret", "bsl"}
  CollectGarbage = TRUE
  MaxEdits = 2
  MaxDecisions = 1
  MaxFaults = 1
CHECK_DEADLOCK FALSE
PROPERTIES DeletionCompletes RevocationTakesEffect OrphansCollected
