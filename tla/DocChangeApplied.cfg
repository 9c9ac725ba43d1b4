SPECIFICATION Spec
CONSTANTS
  Controls = {c1}
  RpkiControls = {}
  DnsControls = {}
  KeyControls = {}
  Events = {e1, e2, e3, e4}
  Modes = {"handoff_dry"}
  Required = 2
  AutoResolve = TRUE
  DryRun = FALSE
  ServiceTargets = {}
  Misaddressed = FALSE
  MaxPasses = 3
PROPERTY ChangeAppliedVerifies
