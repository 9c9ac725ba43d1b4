SPECIFICATION Spec
CONSTANTS
  Router = router
  Server = server
  Hosts = {router, server}
  CoreRouters = {router}
  WgHosts = {router}
  Domain = domain
  Targets <- EveryTarget
  Failures = {"refused", "raised"}
INVARIANTS NeverSilentPass
