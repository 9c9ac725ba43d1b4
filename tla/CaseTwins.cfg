SPECIFICATION Spec
CONSTANTS
  Loops = {p1, p2, p3}
  MaxIssues = 2
SYMMETRY LoopSymmetry
INVARIANTS TypeOK OneCasePerCycleAtOnce OneHandoffPerCycleAtOnce IssueNamesItsCase
