SPECIFICATION Spec
CONSTANTS
  Critical = critical
  Major = major
  Minor = minor
  Findings = {critical, major, minor}
  Rank <- MCRank
  Score <- MCScore
  Warrants = {critical, major}
  Floor = 3
  High = 3
  MaxPerCycle = 2
  MaxPerDay = 3
  CostEach = 5
  MaxCost = 12
  HandoffEnabled = TRUE
  Wired = TRUE
  Modes = {"case_only"}
  Loops = {p1}
  Exclusive = TRUE
  Crashes = FALSE
  GitHubFails = FALSE
  StateDirs = {TRUE}
  FileFails = TRUE
  MaxDay = 1
  MaxLapses = 1
INVARIANTS LimitsSurviveRestarts
