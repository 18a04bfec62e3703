SPECIFICATION FairSpec
CONSTANTS
  Names = {n1}
  UUIDs = {u1}
  Specs = {s1}
  NoName = NoName
  NoUUID = NoUUID
  NoSpec = NoSpec
  Lagging = {"secret"}
  CollectGarbage = TRUE
  MaxEdits = 2
  MaxDecisions = 1
  MaxFaults = 0
CHECK_DEADLOCK FALSE
PROPERTY ApprovedIsCreated
