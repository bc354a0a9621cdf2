\* Two jobs that may share a destination, with cancellations, deletions, a move of the store, a crash and a failing write.
\* Two planned profiles with ports from 1 to 4, of which a service holds 2.
CONSTANTS
  Jobs = {j1, j2}
  Artifacts = {a}
  Snapshots = {s1, s2}
  Roots = {d1, d2}
  None = None
  SerialDeletes = TRUE
  MaxCrashes = 1
  MaxDiskFailures = 1
  PlannedProfiles = {f1, f2}
  PortFrom = 1
  PortTo = 4
  ServicePorts = {2}
  MaxReplicas = 2
  GpuCount = 3
  Drafts <- SomeDrafts
  Occupations <- PortHeld
  KeyWritesFail = FALSE
  NoProfile = NoProfile
  NoUnit = NoUnit
SPECIFICATION FilesSpec
INVARIANTS FilesTypeOK RegisteredIsComplete RegisteredByItsJob ActiveIsRegistered  NoAbandonedJob 
PROPERTIES NeverOverwritten JobsEnd
