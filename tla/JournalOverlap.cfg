SPECIFICATION Spec
CONSTANTS
  Server = server
  Posture = posture
  Verify = verify
  Procs = {posture, verify, server}
  Exclusive = FALSE
  Tearing = FALSE
  Events = {e1}
  SentStatuses = {"accepted"}
  MaxPasses = 0
  MaxDamage = 0
  Required = 1
  AutoResolve = TRUE
  DryRun = FALSE
PROPERTIES ResolutionIsTheVerifiers
