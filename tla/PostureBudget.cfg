SPECIFICATION Spec
CONSTANTS
  Critical = critical
  Major = major
  Minor = minor
  Findings = {critical, major, minor}
  Rank <- MCRank
  Score <- MCScore
  Warrants = {critical, major}
  Floor = 3
  High = 3
  MaxPerCycle = 2
  MaxPerDay = 3
  CostEach = 5
  MaxCost = 12
  HandoffEnabled = TRUE
  Wired = TRUE
  Modes = {"shadow", "case_only", "handoff_live"}
  Loops = {p1}
  Exclusive = TRUE
  Crashes = TRUE
  GitHubFails = TRUE
  StateDirs = {TRUE, FALSE}
  FileFails = TRUE
  MaxDay = 1
  MaxLapses = 2
INVARIANTS TypeOK DailyBudgetRespected BestFirst OneOpenIssue
