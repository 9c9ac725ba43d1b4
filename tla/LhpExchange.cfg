SPECIFICATION FairSpec
CONSTANTS
  SentStatuses = {"accepted", "blocked", "in_progress"}
  SentTypes = {"progress"}
  MaxUpdates = 3
  InFlight = 2
  MaxTime = 2
  MaxSkew = 1
  Ahead = 1
  Required = 2
  AutoResolve = TRUE
  DryRun = FALSE
INVARIANTS TypeOK ServerKeepsUp
PROPERTY ReportsAreAnswered
