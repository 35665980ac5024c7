------------------------------ MODULE Services ------------------------------
(***************************************************************************)
(* The services of the bot side by side: one of them runs in a behaviour,  *)
(* the others stay in their initial state.  They share nothing in these    *)
(* models, so that every behaviour of each of them is one of the whole.    *)
(* The names without prefix are those of WorkLoop.                         *)
(***************************************************************************)
EXTENDS WorkLoop

CONSTANTS
  GateEvents, GateChildren, GateOthers, GateUmo, GateSends, GateLateSends,
  GateSerial, GateReuse, GateMaxSends, GateNoTask,
  BusEvents, BusPlatforms, BusPlatformOf, BusUnrouted, BusJobs, BusJobOf,
  BusMaxConcurrency, BusNoEvent,
  AgentMaxSteps, AgentMaxCalls, AgentFallbacks, AgentResults, AgentFaulty,
  ChatRuns, ChatCapacity, ChatLateRequests,
  JobRuns, JobDeleters, JobUpdaters,
  LogTurns, LogLook, LogMerging,  \* a conversation that is left alone,
  UpsetTurns, UpsetCrons, UpsetLook, UpsetMerging, UpsetBy,  \* one that is not
  WaiterWaits, WaiterEvents, WaiterNoWait

VARIABLES
  focus,  \* the component that runs
  gate_phase, gate_home, gate_reg, gate_pending, gate_depth, gate_act,
  gate_next, gate_sent, gate_open, gate_late, gate_line, gate_owner,
  bus_queue, bus_at, bus_hand, bus_granted, bus_permits, bus_cancelled,
  bus_active, bus_signal, bus_job, bus_asked, bus_stopped, bus_stopper,
  bus_waits,
  agent_pc, agent_steps, agent_state, agent_abort, agent_outcome,
  agent_provider, agent_tried, agent_spoke, agent_parallel, agent_call,
  agent_missing,
  chat_run, chat_task, chat_cancelled, chat_back, chat_items, chat_pipeline,
  chat_closer, chat_victims,
  job_row, job_enabled, job_once, job_scheduled, job_deleting, job_busy,
  job_run, job_manual, job_cancelled, job_deleter, job_waits, job_updater,
  log_stored, log_issued, log_latest, log_receipt, log_turn, log_number,
  log_base, log_lead, log_unit, log_text, log_queue, log_cron, log_seen,
  log_committed, log_gone, log_disturbed,
  upset_stored, upset_issued, upset_latest, upset_receipt, upset_turn,
  upset_number, upset_base, upset_lead, upset_unit, upset_text, upset_queue,
  upset_cron, upset_seen, upset_committed, upset_gone, upset_disturbed,
  waiter_wait, waiter_future, waiter_current, waiter_filters, waiter_timer,
  waiter_due, waiter_lock, waiter_event, waiter_rest, waiter_running

Gate == INSTANCE OutboundGate WITH
  Events <- GateEvents, Children <- GateChildren, Others <- GateOthers,
  Umo <- GateUmo, Sends <- GateSends, LateSends <- GateLateSends,
  Serial <- GateSerial, Reuse <- GateReuse, MaxSends <- GateMaxSends,
  NoTask <- GateNoTask, phase <- gate_phase, home <- gate_home,
  reg <- gate_reg, pending <- gate_pending, depth <- gate_depth,
  act <- gate_act, next <- gate_next, sent <- gate_sent, open <- gate_open,
  late <- gate_late, line <- gate_line, owner <- gate_owner

Bus == INSTANCE Dispatch WITH
  Events <- BusEvents, Platforms <- BusPlatforms,
  PlatformOf <- BusPlatformOf, Unrouted <- BusUnrouted, Jobs <- BusJobs,
  JobOf <- BusJobOf, MaxConcurrency <- BusMaxConcurrency,
  NoEvent <- BusNoEvent,
  queue <- bus_queue, at <- bus_at, hand <- bus_hand, granted <- bus_granted,
  permits <- bus_permits, cancelled <- bus_cancelled, active <- bus_active,
  signal <- bus_signal, job <- bus_job, asked <- bus_asked,
  stopped <- bus_stopped, stopper <- bus_stopper, waits <- bus_waits

Agent == INSTANCE AgentRun WITH
  MaxSteps <- AgentMaxSteps, MaxCalls <- AgentMaxCalls,
  Fallbacks <- AgentFallbacks, Results <- AgentResults,
  Faulty <- AgentFaulty, pc <- agent_pc,
  steps <- agent_steps, state <- agent_state, abort <- agent_abort,
  outcome <- agent_outcome, provider <- agent_provider, tried <- agent_tried,
  spoke <- agent_spoke, parallel <- agent_parallel, call <- agent_call,
  missing <- agent_missing

Chat == INSTANCE WebChat WITH
  Runs <- ChatRuns, Capacity <- ChatCapacity,
  LateRequests <- ChatLateRequests, run <- chat_run,
  task <- chat_task, cancelled <- chat_cancelled, back <- chat_back,
  items <- chat_items, pipeline <- chat_pipeline, closer <- chat_closer,
  victims <- chat_victims

Job == INSTANCE Cron WITH
  Runs <- JobRuns, Deleters <- JobDeleters, Updaters <- JobUpdaters,
  row <- job_row, enabled <- job_enabled, once <- job_once,
  scheduled <- job_scheduled, deleting <- job_deleting, busy <- job_busy,
  run <- job_run, manual <- job_manual, cancelled <- job_cancelled,
  deleter <- job_deleter, waits <- job_waits, updater <- job_updater

Log == INSTANCE History WITH
  Turns <- LogTurns, Crons <- {}, Look <- LogLook, Merging <- LogMerging,
  Disturbers <- {}, stored <- log_stored, issued <- log_issued,
  latest <- log_latest, receipt <- log_receipt, turn <- log_turn,
  number <- log_number, base <- log_base, lead <- log_lead,
  unit <- log_unit, text <- log_text, queue <- log_queue, cron <- log_cron, seen <- log_seen,
  committed <- log_committed, gone <- log_gone, disturbed <- log_disturbed

Upset == INSTANCE History WITH
  Turns <- UpsetTurns, Crons <- UpsetCrons, Look <- UpsetLook,
  Merging <- UpsetMerging, Disturbers <- UpsetBy, stored <- upset_stored, issued <- upset_issued,
  latest <- upset_latest, receipt <- upset_receipt, turn <- upset_turn,
  number <- upset_number, base <- upset_base, lead <- upset_lead,
  unit <- upset_unit, text <- upset_text, queue <- upset_queue, cron <- upset_cron,
  seen <- upset_seen, committed <- upset_committed, gone <- upset_gone,
  disturbed <- upset_disturbed

Waiters == INSTANCE SessionWaiters WITH
  Waits <- WaiterWaits, Events <- WaiterEvents, NoWait <- WaiterNoWait,
  wait <- waiter_wait, future <- waiter_future, current <- waiter_current,
  filters <- waiter_filters, timer <- waiter_timer, due <- waiter_due,
  lock <- waiter_lock, event <- waiter_event, rest <- waiter_rest,
  running <- waiter_running

ASSUME GateAssumption ==
  /\ GateEvents \cap GateChildren = {}
  /\ GateEvents \cap GateOthers = {}
  /\ GateChildren \cap GateOthers = {}
  /\ {GateNoTask, "no", "nested", "unborn", "ended"} \cap Gate!Tasks = {}
  /\ GateMaxSends \in Nat
ASSUME BusAssumption ==
  /\ BusPlatformOf \in [BusEvents -> BusPlatforms]
  /\ BusJobOf \in [BusJobs -> BusEvents]
  /\ BusMaxConcurrency \in Nat
  /\ BusNoEvent \notin BusEvents
ASSUME AgentAssumption ==
  /\ {AgentMaxSteps, AgentMaxCalls, AgentFallbacks} \subseteq Nat
  /\ AgentResults \subseteq {"answered", "silent"}
ASSUME ChatAssumption == ChatCapacity \in Nat
ASSUME JobAssumption == IsFiniteSet(JobDeleters)
ASSUME HistoryAssumption == IsFiniteSet(LogTurns) /\ IsFiniteSet(UpsetTurns)
ASSUME WaiterAssumption == WaiterNoWait \notin WaiterWaits

gateVars ==
  <<gate_phase, gate_home, gate_reg, gate_pending, gate_depth, gate_act,
    gate_next, gate_sent, gate_open, gate_late, gate_line, gate_owner>>
busVars ==
  <<bus_queue, bus_at, bus_hand, bus_granted, bus_permits, bus_cancelled,
    bus_active, bus_signal, bus_job, bus_asked, bus_stopped, bus_stopper,
    bus_waits>>
agentVars ==
  <<agent_pc, agent_steps, agent_state, agent_abort, agent_outcome,
    agent_provider, agent_tried, agent_spoke, agent_parallel, agent_call,
    agent_missing>>
chatVars ==
  <<chat_run, chat_task, chat_cancelled, chat_back, chat_items,
    chat_pipeline, chat_closer, chat_victims>>
jobVars ==
  <<job_row, job_enabled, job_once, job_scheduled, job_deleting, job_busy,
    job_run, job_manual, job_cancelled, job_deleter, job_waits, job_updater>>
logVars ==
  <<log_stored, log_issued, log_latest, log_receipt, log_turn, log_number,
    log_base, log_lead, log_unit, log_text, log_queue, log_cron, log_seen,
    log_committed, log_gone, log_disturbed>>
upsetVars ==
  <<upset_stored, upset_issued, upset_latest, upset_receipt, upset_turn,
    upset_number, upset_base, upset_lead, upset_unit, upset_text, upset_queue,
    upset_cron, upset_seen, upset_committed, upset_gone, upset_disturbed>>
waiterVars ==
  <<waiter_wait, waiter_future, waiter_current, waiter_filters, waiter_timer,
    waiter_due, waiter_lock, waiter_event, waiter_rest, waiter_running>>

Components ==
  {"gate", "bus", "work", "agent", "chat", "cron", "history", "upset",
   "waiters"}

(* All components are in their initial state, and one of them will run.    *)
AllInit ==
  /\ focus \in Components
  /\ Gate!Init
  /\ Bus!Init
  /\ Init
  /\ Agent!Init
  /\ Chat!Init
  /\ Job!Init
  /\ focus # "cron" => job_enabled /\ ~job_once
  /\ Log!Init
  /\ Upset!Init
  /\ Waiters!Init

GateStep ==
  /\ focus = "gate"
  /\ Gate!Next
  /\ UNCHANGED <<focus, busVars, vars, agentVars, chatVars, jobVars,
                 logVars, upsetVars, waiterVars>>

BusStep ==
  /\ focus = "bus"
  /\ Bus!Next
  /\ UNCHANGED <<focus, gateVars, vars, agentVars, chatVars, jobVars,
                 logVars, upsetVars, waiterVars>>

WorkStep ==
  /\ focus = "work"
  /\ Next
  /\ UNCHANGED <<focus, gateVars, busVars, agentVars, chatVars, jobVars,
                 logVars, upsetVars, waiterVars>>

AgentStep ==
  /\ focus = "agent"
  /\ Agent!Next
  /\ UNCHANGED <<focus, gateVars, busVars, vars, chatVars, jobVars,
                 logVars, upsetVars, waiterVars>>

ChatStep ==
  /\ focus = "chat"
  /\ Chat!Next
  /\ UNCHANGED <<focus, gateVars, busVars, vars, agentVars, jobVars,
                 logVars, upsetVars, waiterVars>>

CronStep ==
  /\ focus = "cron"
  /\ Job!Next
  /\ UNCHANGED <<focus, gateVars, busVars, vars, agentVars, chatVars,
                 logVars, upsetVars, waiterVars>>

HistoryStep ==
  /\ focus = "history"
  /\ Log!Next
  /\ UNCHANGED <<focus, gateVars, busVars, vars, agentVars, chatVars,
                 jobVars, upsetVars, waiterVars>>

UpsetStep ==
  /\ focus = "upset"
  /\ Upset!Next
  /\ UNCHANGED <<focus, gateVars, busVars, vars, agentVars, chatVars,
                 jobVars, logVars, waiterVars>>

WaitersStep ==
  /\ focus = "waiters"
  /\ Waiters!Next
  /\ UNCHANGED <<focus, gateVars, busVars, vars, agentVars, chatVars,
                 jobVars, logVars, upsetVars>>

AllNext ==
  \/ GateStep
  \/ BusStep
  \/ WorkStep
  \/ AgentStep
  \/ ChatStep
  \/ CronStep
  \/ HistoryStep
  \/ UpsetStep
  \/ WaitersStep

allVars ==
  <<focus, gateVars, busVars, vars, agentVars, chatVars, jobVars,
    logVars, upsetVars, waiterVars>>

AllSpec == AllInit /\ [][AllNext]_allVars

-----------------------------------------------------------------------------
(* The types of all components.                                            *)
ServicesTypeOK ==
  /\ Gate!TypeOK
  /\ Bus!TypeOK
  /\ TypeOK
  /\ Agent!TypeOK
  /\ Chat!TypeOK
  /\ Job!TypeOK
  /\ Log!TypeOK
  /\ Upset!TypeOK
  /\ Waiters!TypeOK

(* Whoever has the outbound lock of the group is in the middle of one      *)
(* message around the turns, or in a turn, or has sent to an event after   *)
(* its turn; whatever is registered is held (group_sender_concurrency.py). *)
LockAccounted == Gate!LockAccounted

(* A turn whose event is not sent to later leaves no registration and no   *)
(* depth of its pipeline task behind, whatever its tasks do.               *)
TurnLeavesNothing == Gate!TurnLeavesNothing

(* No permit of the event bus leaks or is given back twice.                *)
SlotsExact == Bus!SlotsExact

(* Nothing of a stopped platform runs, and what was told to stop was       *)
(* cancelled once.                                                         *)
StoppedIsQuiet == Bus!StoppedIsQuiet /\ Bus!JobsAskedOnce

(* After a stop the agent starts no model request and no tool.             *)
QuietAfterStop == Agent!QuietAfterStop

(* WebChat runs and response queues are dropped with their tasks.          *)
NothingLeaks == Chat!NothingLeaks

(* A cron job is never executed after its row was deleted.                 *)
RunHasRow == Job!RunHasRow

(* Committed turns stay in the history, as long as nobody interferes with  *)
(* the committer, every merged turn has a user message, and no history     *)
(* that it compares looks like another one.                                *)
CommittedStaysAlone == Log!CommittedStaysAlone /\ Upset!CommittedStaysAlone

(* Under the same conditions, a committed turn does not bring back what a  *)
(* summary has replaced.                                                   *)
NoResurrection == Log!NoResurrection /\ Upset!NoResurrection
=============================================================================
