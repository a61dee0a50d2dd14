SPECIFICATION FairSpec
CONSTANTS
  Keys = {k1, k2}
  MaxAttempts = 3
  Threshold = 2
  ResetAfter = 2
  MaxTime = 4
  MaxRequests = 3
INVARIANT EffectAtMostOnce
PROPERTIES ImplementsRemoteCall RequestsEnd
CHECK_DEADLOCK FALSE
