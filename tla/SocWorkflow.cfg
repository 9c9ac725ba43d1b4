SPECIFICATION FairSpec
CONSTANTS
  Threads = {t1, t2}
  Findings <- MCFindings
  Severe = {"HIGH", "MEDIUM"}
  HasModel = TRUE
  Answers <- MCAnswers
  BuildsHandoffs = TRUE
INVARIANTS TypeOK ScannerDecidesHandoff SureOnlyIfMeasured
PROPERTIES HumanGateSpec EveryRunIsAsked
CHECK_DEADLOCK FALSE
