SPECIFICATION Spec
CONSTANTS
  Turns = {"t1", "t2"}
  Crons = {}
  Look <- OwnLooks
  Merging = TRUE
  Disturbers = {}
INVARIANT
  CompleteTurns
CHECK_DEADLOCK FALSE
