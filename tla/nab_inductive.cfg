SPECIFICATION Spec
CONSTANTS
  Names = {n1}
  UUIDs = {u1, u2}
  NoName = NoName
  NoUUID = NoUUID
  OthersLag = TRUE
  VeleroRejects = TRUE
  LocationFlaps = FALSE
  MaxEdits = 2
  MaxResyncs = 1
  MaxFaults = 1
  MaxRequests = 2
CHECK_DEADLOCK FALSE
INVARIANT IInv
