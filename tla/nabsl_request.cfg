SPECIFICATION FairSpec
CONSTANTS
  Names = {n1}
  UUIDs = {u1}
  Specs = {s1}
  NoName = NoName
  NoUUID = NoUUID
  NoSpec = NoSpec
  Lagging = {}
  CollectGarbage = FALSE
  MaxEdits = 1
  MaxDecisions = 0
  MaxFaults = 1
CHECK_DEADLOCK FALSE
PROPERTY RequestInitialised
