\* Profiles are edited and deleted only while idle; units fail and restart at any time.
CONSTANTS
  Kinds = {"start", "stop", "restart"}
  Profiles = {p1}
  OpIds = {o1, o2}
  MaxReplicas = 2
  MaxRecords = 1
  Careful = TRUE
  ForeignListeners = TRUE
  MaxCrashes = 0
  MaxDiskFailures = 0
SPECIFICATION FairSpec
INVARIANTS StoppedMeansStopped
PROPERTIES AllOrNothing OperationsEnd
