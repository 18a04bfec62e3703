SPECIFICATION FairSpec
CONSTANTS
  Names = {n1}
  UIDs = {i1, i2}
  VDRs = {v1, v2}
  NoUID = NoUID
  NoVDR = NoVDR
  NoName = NoName
  MaxChanges = 3
  MaxFaults = 1
CHECK_DEADLOCK FALSE
INVARIANT TypeOK
PROPERTIES GoodURLKept URLArrives RequestForwarded
