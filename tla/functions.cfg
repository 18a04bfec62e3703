SPECIFICATION Spec
CONSTANTS
  Backups = {b1, b2, b3}
  Foreign = {b3}
  NoBackup = NoBackup
  MaxTime = 2
  MaxFaults = 1
  Characters = {"a", "-"}
  Delimiter = "-"
  MaximumNacObjectNameLength = 8
  UUIDLength = 3
CHECK_DEADLOCK FALSE
SYMMETRY Symmetry
INVARIANTS TypeOK PositionsSettle NamesFit
