SPECIFICATION AllFairSpec
CONSTANTS
  NoWindow = NoWindow
  NoTimer = NoTimer
  NoGuard = NoGuard
  Events = {"e1", "e2"}
  Children = {"c1"}
  Others = {"o1"}
  Umo = "group"
  Sends = {"guarded"}
  LateSends = FALSE
  Serial = TRUE
  Reuse = FALSE
  MaxSends = 1
  NoTask = "none"
INVARIANTS
  OneTurnSpeaks
PROPERTIES
  WaitEnds
  BufferedEnds
  StopEnds
  CloseSettles
  StoppedRunEnds
  WaiterEnds
CHECK_DEADLOCK FALSE
