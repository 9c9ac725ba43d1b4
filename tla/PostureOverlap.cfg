SPECIFICATION Spec
CONSTANTS
  Critical = critical
  Major = major
  Minor = minor
  Findings = {critical, major}
  Rank <- MCRank
  Score <- MCScore
  Warrants = {critical, major}
  Floor = 3
  High = 3
  MaxPerCycle = 2
  MaxPerDay = 2
  CostEach = 5
  MaxCost = 10
  HandoffEnabled = TRUE
  Wired = TRUE
  Modes = {"handoff_live"}
  Loops = {p1, p2}
  Exclusive = FALSE
  Crashes = TRUE
  GitHubFails = TRUE
  StateDirs = {TRUE}
  FileFails = TRUE
  MaxDay = 0
  MaxLapses = 1
INVARIANTS OpenIssueHasHandoff
