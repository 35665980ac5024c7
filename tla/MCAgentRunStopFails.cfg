SPECIFICATION Spec
CONSTANTS
  MaxSteps = 2
  MaxCalls = 2
  Fallbacks = 0
  Results = {"answered"}
  Faulty = FALSE
INVARIANT
  NotFailed
CHECK_DEADLOCK FALSE
