SPECIFICATION EvaluationSpec
CONSTANTS
  Stages <- MCStages
  PerScenario = {"allocation"}
  Unreported = {"claims"}
  Scenarios = {"base", "downtime"}
  Components = {"downtime_crosscheck", "changepoint_detector"}
  MaxRuns = 2
INVARIANTS
  NumbersAreFreshOrNamed
  
CHECK_DEADLOCK FALSE
