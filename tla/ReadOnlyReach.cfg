SPECIFICATION Spec
CONSTANTS
  Environments <- MCEnvironments
  FileLists <- MCFileLists
  Targets = {owned, foreign, nohost}
  Hostless = {nohost}
  Listed = {nohost}
  InPrefix = {}
  UnderDomain = {owned}
  Categories = {"bgp_rpki", "inventory"}
  Templated = {"bgp_rpki"}
  Detected = {}
  MaxTargets = 2
INVARIANTS ReachIsOptedIn EveryTargetAnswered
