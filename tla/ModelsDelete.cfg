\* An artifact is deleted while another job commits a snapshot of it.
CONSTANTS
  Jobs = {j1, j2}
  Artifacts = {a}
  Snapshots = {s1, s2}
  Roots = {d1}
  None = None
  SerialDeletes = FALSE
  MaxCrashes = 0
  MaxDiskFailures = 0
SYMMETRY JobSymmetry
SPECIFICATION Spec
INVARIANT RegisteredIsComplete
