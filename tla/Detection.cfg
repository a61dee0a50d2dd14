SPECIFICATION Spec
CONSTANTS
  rail = rail
  asha = asha
  ben = ben
  chitra = chitra
  bank = bank
  network = network
  Segments = {rail}
  MinObservations = 2
  Allowance = 60
  Degrading = 80
  Degraded = 100
  RecoveryObservations = 3
  BaselineWindow = 3
  Downtimes = {bank, network}
  Severe = {bank}
  Tolerance = 1
  Retention = 1
  Subscriptions = {asha, ben, chitra}
  NoMandate = NoMandate
  Customers = {asha, ben, chitra}
  SegmentOf <- MCSegmentOf
  FirstCycleAt <- MCFirstCycleAt
  AboveCeiling = {ben}
  Cycles = 3
  CycleLength = 3
  Horizon = 8
  CheckoutSegments = {rail}
  CheckoutTimes = {3}
  OutageTimes <- MCOutageTimes
INVARIANTS
  AlarmsFollowTheStatistic
  EvidenceNeverMisleads
  DeclaredOutagesAreWaitedOut
PROPERTY PastDiagnosesStand
CHECK_DEADLOCK FALSE
