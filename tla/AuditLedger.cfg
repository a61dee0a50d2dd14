SPECIFICATION FairSpec
CONSTANTS
  Kinds = {"ACTION", "ALERT"}
  Payloads = {p1, p2}
  Times = {1, 2}
  Threads = {t1, t2}
  MaxAppends = 3
  MaxCrashes = 1
INVARIANTS ChainVerifies HashSealsLedger EditIsLocated
PROPERTIES ImplementsAppendOnlyLog LockIsReleased
CHECK_DEADLOCK FALSE
