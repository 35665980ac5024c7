SPECIFICATION Spec
CONSTANTS
  MaxSteps = 2
  MaxCalls = 2
  Fallbacks = 0
  Results = {"answered", "silent"}
  Faulty = FALSE
INVARIANT
  CallsAnswered
CHECK_DEADLOCK FALSE
