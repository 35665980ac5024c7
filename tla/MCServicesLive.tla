--------------------------- MODULE MCServicesLive ---------------------------
(***************************************************************************)
(* The services for the liveness run, side by side as in MCServices and in *)
(* smaller instances.  A component that does not run stays in its initial  *)
(* state, in which nothing is due under its fairness.                      *)
(*                                                                         *)
(* OutboundGate: concurrent turns that send through                        *)
(* serialize_group_outbound only, a task inside of one of them, and a task *)
(* outside of any turn.                                                    *)
(***************************************************************************)
EXTENDS OutboundGate

CONSTANTS NoWindow, NoTimer, NoGuard

(* Two messages in one chat, m2 without prefix, and one in another.        *)
WindowChats == {"k1", "k2"}
WindowMsgs == {"m1", "m2", "m3"}

(* Two events of one platform, each with a background job.                 *)
BusEvents == {"e1", "e2"}
BusJobs == {"j1", "j2"}

VARIABLES
  focus,  \* the component that runs
  window_window, window_order, window_timer, window_typing, window_guard,
  window_stage,
  bus_queue, bus_at, bus_hand, bus_granted, bus_permits, bus_cancelled,
  bus_active, bus_signal, bus_job, bus_asked, bus_stopped, bus_stopper,
  bus_waits,
  work_request, work_run, work_status, work_detached, work_finished,
  work_produced, work_active, work_stop, work_asked, work_loop, work_snapshot,
  agent_pc, agent_steps, agent_state, agent_abort, agent_outcome,
  agent_provider, agent_tried, agent_spoke, agent_parallel, agent_call,
  agent_missing,
  waiter_wait, waiter_future, waiter_current, waiter_filters, waiter_timer,
  waiter_due, waiter_lock, waiter_event, waiter_rest, waiter_running

Windows == INSTANCE TurnWindow WITH
  Chats <- WindowChats, Msgs <- WindowMsgs, ChatOf <- [m \in WindowMsgs |->
  IF m = "m3" THEN "k2" ELSE "k1"], Bare <- {"m2"},
  Tasks <- {"t1", "t2", "t3"}, MaxWindows <- 1, MaxFragments <- 2,
  MaxTyping <- 1, Wait <- 2, MaxTotal <- 3, TypingWait <- 2,
  NoWindow <- NoWindow, NoTask <- "none", NoTimer <- NoTimer,
  NoGuard <- NoGuard, window <- window_window, order <- window_order,
  timer <- window_timer, typing <- window_typing, guard <- window_guard,
  stage <- window_stage

Bus == INSTANCE Dispatch WITH
  Events <- BusEvents, Platforms <- {"p1"},
  PlatformOf <- [e \in BusEvents |-> "p1"], Unrouted <- {}, Jobs <- BusJobs,
  JobOf <- [j \in BusJobs |-> IF j = "j1" THEN "e1" ELSE "e2"],
  MaxConcurrency <- 1, NoEvent <- "none", queue <- bus_queue, at <- bus_at,
  hand <- bus_hand, granted <- bus_granted, permits <- bus_permits,
  cancelled <- bus_cancelled, active <- bus_active, signal <- bus_signal,
  job <- bus_job, asked <- bus_asked, stopped <- bus_stopped,
  stopper <- bus_stopper, waits <- bus_waits

Work == INSTANCE WorkLoop WITH
  Requests <- {"r1"}, Tools <- {"t1"}, MaxConcurrency <- 1,
  request <- work_request, run <- work_run, status <- work_status,
  detached <- work_detached, finished <- work_finished,
  produced <- work_produced, active <- work_active, stop <- work_stop,
  asked <- work_asked, loop <- work_loop, snapshot <- work_snapshot

Agent == INSTANCE AgentRun WITH
  MaxSteps <- 2, MaxCalls <- 2, Fallbacks <- 1, Results <- {"answered"},
  Faulty <- TRUE, pc <- agent_pc, steps <- agent_steps, state <- agent_state,
  abort <- agent_abort, outcome <- agent_outcome, provider <- agent_provider,
  tried <- agent_tried, spoke <- agent_spoke, parallel <- agent_parallel,
  call <- agent_call, missing <- agent_missing

Waiters == INSTANCE SessionWaiters WITH
  Waits <- {"w1", "w2"}, Events <- {"m1"}, NoWait <- "none",
  wait <- waiter_wait, future <- waiter_future, current <- waiter_current,
  filters <- waiter_filters, timer <- waiter_timer, due <- waiter_due,
  lock <- waiter_lock, event <- waiter_event, rest <- waiter_rest,
  running <- waiter_running

windowVars ==
  <<window_window, window_order, window_timer, window_typing, window_guard,
    window_stage>>
busVars ==
  <<bus_queue, bus_at, bus_hand, bus_granted, bus_permits, bus_cancelled,
    bus_active, bus_signal, bus_job, bus_asked, bus_stopped, bus_stopper,
    bus_waits>>
workVars ==
  <<work_request, work_run, work_status, work_detached, work_finished,
    work_produced, work_active, work_stop, work_asked, work_loop,
    work_snapshot>>
agentVars ==
  <<agent_pc, agent_steps, agent_state, agent_abort, agent_outcome,
    agent_provider, agent_tried, agent_spoke, agent_parallel, agent_call,
    agent_missing>>
waiterVars ==
  <<waiter_wait, waiter_future, waiter_current, waiter_filters, waiter_timer,
    waiter_due, waiter_lock, waiter_event, waiter_rest, waiter_running>>

Components ==
  {"gate", "windows", "bus", "work", "agent", "waiters"}

(* All components are in their initial state, and one of them will run.    *)
AllInit ==
  /\ focus \in Components
  /\ Init
  /\ Windows!Init
  /\ Bus!Init
  /\ Work!Init
  /\ Agent!Init
  /\ Waiters!Init

GateStep ==
  /\ focus = "gate"
  /\ Next
  /\ UNCHANGED <<focus, windowVars, busVars, workVars, agentVars, waiterVars>>

WindowsStep ==
  /\ focus = "windows"
  /\ Windows!Next
  /\ UNCHANGED <<focus, vars, busVars, workVars, agentVars, waiterVars>>

BusStep ==
  /\ focus = "bus"
  /\ Bus!Next
  /\ UNCHANGED <<focus, vars, windowVars, workVars, agentVars, waiterVars>>

WorkStep ==
  /\ focus = "work"
  /\ Work!Next
  /\ UNCHANGED <<focus, vars, windowVars, busVars, agentVars, waiterVars>>

AgentStep ==
  /\ focus = "agent"
  /\ Agent!Next
  /\ UNCHANGED <<focus, vars, windowVars, busVars, workVars, waiterVars>>

WaitersStep ==
  /\ focus = "waiters"
  /\ Waiters!Next
  /\ UNCHANGED <<focus, vars, windowVars, busVars, workVars, agentVars>>

AllNext ==
  \/ GateStep
  \/ WindowsStep
  \/ BusStep
  \/ WorkStep
  \/ AgentStep
  \/ WaitersStep

allVars == <<focus, vars, windowVars, busVars, workVars, agentVars, waiterVars>>

AllSpec == AllInit /\ [][AllNext]_allVars

(* The fairness of every component.                                        *)
AllFairSpec ==
  /\ AllSpec
  /\ Fairness
  /\ Windows!Fairness
  /\ Bus!Fairness
  /\ Work!Fairness
  /\ Agent!Fairness
  /\ Waiters!Fairness

-----------------------------------------------------------------------------
(* Every buffered message leaves the buffer (turn_window.py).              *)
BufferedEnds == Windows!BufferedEnds

(* stop_platform returns (event_bus.py).                                   *)
StopEnds == Bus!StopEnds

(* Closing the work loop settles every session (agent/btw/work_loop.py).   *)
CloseSettles == Work!CloseSettles

(* A stopped agent run ends (tool_loop_agent_runner.py).                   *)
StoppedRunEnds == Agent!StoppedRunEnds

(* A wait for a message ends unless another takes its place                *)
(* (session_waiter.py).                                                    *)
WaiterEnds == Waiters!WaiterEnds
=============================================================================
