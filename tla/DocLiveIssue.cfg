SPECIFICATION Spec
CONSTANTS
  Critical = critical
  Major = major
  Minor = minor
  Findings = {critical, major}
  Rank <- MCRank
  Score <- MCScore
  Warrants = {critical, major}
  Floor = 3
  High = 3
  MaxPerCycle = 2
  MaxPerDay = 3
  CostEach = 5
  MaxCost = 12
  HandoffEnabled = TRUE
  Wired = FALSE
  Modes = {"handoff_live"}
  Loops = {p1}
  Exclusive = TRUE
  Crashes = FALSE
  GitHubFails = FALSE
  StateDirs = {TRUE}
  FileFails = FALSE
  MaxDay = 1
  MaxLapses = 1
PROPERTIES LiveHandoffHasIssue
