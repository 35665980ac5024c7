SPECIFICATION Spec
CONSTANTS
  Runs = {"r1", "r2"}
  Capacity = 1
  LateRequests = TRUE
INVARIANT
  RunHasQueue
CHECK_DEADLOCK FALSE
