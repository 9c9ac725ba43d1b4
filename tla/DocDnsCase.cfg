SPECIFICATION Spec
CONSTANTS
  Router = router
  Server = server
  Hosts = {router, server}
  CoreRouters = {router}
  WgHosts = {router}
  Domain = domain
  Targets <- CaseTargets
  Failures = {"refused", "raised"}
INVARIANTS DnsCaseIsReRead
