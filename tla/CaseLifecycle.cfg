SPECIFICATION FairSpec
CONSTANTS
  Controls = {c1}
  RpkiControls = {c1}
  DnsControls = {}
  KeyControls = {}
  Events = {e1, e2, e3, e4}
  Modes = {"handoff_dry", "handoff_live"}
  Required = 2
  AutoResolve = TRUE
  DryRun = FALSE
  ServiceTargets = {"triaged", "needs_human"}
  Misaddressed = FALSE
  MaxPasses = 3
INVARIANTS TypeOK HandoffMirrored ObjectiveFollowsCase HandoffStoredWithCase StreakBacked
PROPERTIES AllClearSpec FixedCaseLeavesVerification
