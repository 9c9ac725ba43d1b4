SPECIFICATION Spec
CONSTANTS
  Server = server
  Posture = posture
  Verify = verify
  Procs = {posture, verify, server}
  Exclusive = TRUE
  Tearing = TRUE
  Events = {e1, e2}
  SentStatuses = {"accepted", "implemented"}
  MaxPasses = 2
  MaxDamage = 2
  Required = 2
  AutoResolve = TRUE
  DryRun = FALSE
SYMMETRY EventSymmetry
INVARIANTS TypeOK StoredCaseHasHandoff LossStaysInItsRecord
PROPERTIES AcknowledgedUpdateStored DiskAllClearSpec ResolutionIsTheVerifiers
