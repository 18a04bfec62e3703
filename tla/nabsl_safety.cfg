SPECIFICATION Spec
CONSTANTS
  Names = {n1}
  UUIDs = {u1, u2}
  Specs = {s1, s2}
  NoName = NoName
  NoUUID = NoUUID
  NoSpec = NoSpec
  Lagging = {"nabsl"}
  CollectGarbage = TRUE
  MaxEdits = 3
  MaxDecisions = 1
  MaxFaults = 0
CHECK_DEADLOCK FALSE
SYMMETRY Symmetry
INVARIANTS TypeOK BSLWasApproved
PROPERTIES CreatedForNABSL BackupsGoFirst CollectorSparesStored LocationKept
