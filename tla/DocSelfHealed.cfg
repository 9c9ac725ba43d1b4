SPECIFICATION FairSpec
CONSTANTS
  Controls = {c1}
  RpkiControls = {}
  DnsControls = {}
  KeyControls = {}
  Events = {}
  Modes = {"case_only"}
  Required = 2
  AutoResolve = TRUE
  DryRun = FALSE
  ServiceTargets = {}
  Misaddressed = FALSE
  MaxPasses = 3
PROPERTY SelfHealedCaseResolves
