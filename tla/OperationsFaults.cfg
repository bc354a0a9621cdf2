\* Crashes, failing writes, and profiles edited or deleted under running operations.
CONSTANTS
  Kinds = {"restart"}
  Profiles = {p1, p2}
  OpIds = {o1, o2}
  MaxReplicas = 1
  MaxRecords = 1
  Careful = FALSE
  ForeignListeners = FALSE
  MaxCrashes = 1
  MaxDiskFailures = 1
SYMMETRY IdSymmetry
SPECIFICATION Spec
INVARIANTS TypeOK OneTaskPerProfile NoAbandonedOperation
PROPERTY TerminalIsFinal
