SPECIFICATION FairSpec
CONSTANTS
  Names = {n1}
  UIDs = {i1}
  VDRs = {v1}
  NoUID = NoUID
  NoVDR = NoVDR
  NoName = NoName
  MaxChanges = 2
  MaxFaults = 0
CHECK_DEADLOCK FALSE
PROPERTY ExpiredIsDeleted
