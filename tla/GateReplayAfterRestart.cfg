SPECIFICATION Spec
CONSTANTS
  small = small
  large = large
  message = message
  tainted = tainted
  Decisions <- MCDecisions
  Amount <- MCAmount
  Discount <- MCDiscount
  Intervened <- MCIntervened
  Tainted <- MCTainted
  Keyed <- MCKeyed
  DryRun = FALSE
  PerActionCap = 3
  PerDayCap = 4
  TotalCap = 5
  ApprovalThreshold = 2
  MaxDay = 1
  MaxSubmits = 3
  MaxRestarts = 1
PROPERTY RecordedActionsNeverRepeat
CHECK_DEADLOCK FALSE
