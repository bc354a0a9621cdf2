\* An edited profile is restarted while a unit of its old layout runs.
CONSTANTS
  Kinds = {"start", "stop", "restart"}
  Profiles = {p1}
  OpIds = {o1, o2}
  MaxReplicas = 2
  MaxRecords = 2
  Careful = FALSE
  ForeignListeners = FALSE
  MaxCrashes = 0
  MaxDiskFailures = 0
SPECIFICATION FairSpec
PROPERTY ReadyUnitsAreUp
