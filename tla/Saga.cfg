SPECIFICATION FairSpec
CONSTANTS
  N = 4
  Reversible = {1, 3, 4}
  MaxCrashes = 2
  MaxCalls = 3
INVARIANTS LeftoversAreReported LogIsTruthful
PROPERTIES SettledStepsRest ImplementsUndoStack UnwindingFinishes
CHECK_DEADLOCK FALSE
