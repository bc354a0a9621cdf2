\* A profile that no operation is working on is deleted while its units run.
CONSTANTS
  Kinds = {"start", "stop", "restart"}
  Profiles = {p1}
  OpIds = {o1, o2}
  MaxReplicas = 2
  MaxRecords = 2
  Careful = FALSE
  ForeignListeners = FALSE
  MaxCrashes = 0
  MaxDiskFailures = 0
SPECIFICATION FairSpec
PROPERTY DeletedWereStopped
