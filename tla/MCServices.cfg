SPECIFICATION AllSpec
CONSTANTS
  Requests = {"r1"}
  Tools = {"t1"}
  MaxConcurrency = 1
  GateEvents = {"e1", "e2"}
  GateChildren = {"c1"}
  GateOthers = {}
  GateUmo = "group"
  GateSends = {"guarded", "direct"}
  GateLateSends = TRUE
  GateSerial = FALSE
  GateReuse = TRUE
  GateMaxSends = 2
  GateNoTask = "none"
  BusEvents = {"e1", "e2", "e3"}
  BusPlatforms = {"p1", "p2"}
  BusPlatformOf <- MCBusPlatformOf
  BusUnrouted = {}
  BusJobs = {"j1", "j2"}
  BusJobOf <- MCBusJobOf
  BusMaxConcurrency = 1
  BusNoEvent = "none"
  AgentMaxSteps = 2
  AgentMaxCalls = 2
  AgentFallbacks = 2
  AgentResults = {"answered", "silent"}
  AgentFaulty = TRUE
  ChatRuns = {"r1", "r2"}
  ChatCapacity = 2
  ChatLateRequests = TRUE
  JobRuns = {"r1", "r2"}
  JobDeleters = {"d1", "d2"}
  JobUpdaters = {"u1"}
  t1 = t1
  t2 = t2
  t3 = t3
  LogTurns = {t1, t2, t3}
  LogLook <- MCLogLook
  LogMerging = TRUE
  UpsetTurns = {"t1", "t2"}
  UpsetCrons = {"c1"}
  UpsetLook <- MCUpsetLook
  UpsetMerging = TRUE
  UpsetBy = {"cron", "edit", "busy", "late", "unread", "unmarked"}
  WaiterWaits = {"w1", "w2"}
  WaiterEvents = {"m1", "m2"}
  WaiterNoWait = "none"
SYMMETRY Symmetry
CONSTRAINT Undisturbed
INVARIANTS
  ServicesTypeOK
  LockAccounted
  TurnLeavesNothing
  SlotsExact
  StoppedIsQuiet
  PendingOwned
  ReachableWhileAlive
  NothingLeaks
  RunHasRow
  CommittedStaysAlone
  
PROPERTIES
  QuietAfterStop
CHECK_DEADLOCK FALSE
