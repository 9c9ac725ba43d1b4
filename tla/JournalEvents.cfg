SPECIFICATION Spec
CONSTANTS
  Server = server
  Posture = posture
  Verify = verify
  Procs = {posture, verify, server}
  Exclusive = TRUE
  Tearing = FALSE
  Events = {e1, e2}
  SentStatuses = {"accepted", "in_progress", "implemented", "blocked"}
  MaxPasses = 2
  MaxDamage = 0
  Required = 2
  AutoResolve = TRUE
  DryRun = FALSE
SYMMETRY EventSymmetry
INVARIANTS TypeOK
PROPERTIES AcknowledgedUpdateStored DiskAllClearSpec
