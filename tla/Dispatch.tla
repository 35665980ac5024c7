------------------------------ MODULE Dispatch ------------------------------
(***************************************************************************)
(* event_bus.py, the registration of events in pipeline/scheduler.py and   *)
(* utils/active_event_registry.py.  One dispatch task takes events from    *)
(* the queue and runs each in a pipeline task of its own, at most          *)
(* MaxConcurrency at a time.  The pipeline of an event may leave behind    *)
(* background jobs (background tools and hand-offs), which end by waking   *)
(* the agent again.  Stopping a platform must reach its events wherever    *)
(* they are: queued, in the hand of dispatch, in a task, in a job.         *)
(*                                                                         *)
(* Each platform has one session, so that a platform is also the UMO under *)
(* which the registry files an event.  Work detached by the BTW loop is    *)
(* the subject of WorkLoop.                                                *)
(***************************************************************************)
EXTENDS FiniteSets, WaitQueue

CONSTANTS
  Events, Platforms,
  PlatformOf,      \* PlatformOf[e]: the adapter instance of event e
  Unrouted,        \* events whose profile has no pipeline scheduler
  Jobs, JobOf,     \* background jobs; JobOf[j]: the event they answer
  MaxConcurrency,
  NoEvent

VARIABLES
  queue,    \* event_queue
  at,       \* at[e]: where event e is; a task is "created", "running",
            \* "over" (finished, its callback not yet run) and "gone"
  hand,     \* the event with which dispatch waits for the semaphore
  granted,  \* a released permit was passed on to dispatch
  permits,  \* _semaphore._value
  cancelled,\* events whose pipeline task was asked to cancel
  active,   \* _events of the registry
  signal,   \* events whose background stop signal is set
  job,      \* job[j]: the state of a background job
  asked,    \* asked[j]: how often the registry cancelled job j
  stopped,  \* stopped_platforms
  stopper,  \* stopper[p]: how far stop_platform(p) is
  waits     \* waits[p]: what the current gather of stop_platform(p) awaits

busVars == <<queue, hand, granted, permits>>
registryVars == <<active, signal, job, asked>>
stopVars == <<stopped, stopper, waits>>
vars == <<at, cancelled, busVars, registryVars, stopVars>>

TypeOK ==
  /\ queue \in Seq(Events)
  /\ at \in [Events -> {"new", "queued", "inHand", "dropped",
                      "created", "running", "over", "gone"}]
  /\ hand \in Events \cup {NoEvent}
  /\ granted \in BOOLEAN
  /\ permits \in 0 .. MaxConcurrency
  /\ cancelled \in SUBSET Events
  /\ active \in SUBSET Events
  /\ signal \in SUBSET Events
  /\ job \in [Jobs -> {"none", "working", "waking", "over"}]
  /\ asked \in [Jobs -> Nat]
  /\ stopped \in SUBSET Platforms
  /\ stopper \in [Platforms -> {"idle", "pipelines", "jobs", "returned"}]
  /\ waits \in [Platforms -> SUBSET (Events \cup Jobs)]

Init ==
  /\ queue = <<>>
  /\ at = [e \in Events |-> "new"]
  /\ hand = NoEvent
  /\ granted = FALSE
  /\ permits = MaxConcurrency
  /\ cancelled = {}
  /\ active = {}
  /\ signal = {}
  /\ job = [j \in Jobs |-> "none"]
  /\ asked = [j \in Jobs |-> 0]
  /\ stopped = {}
  /\ stopper = [p \in Platforms |-> "idle"]
  /\ waits = [p \in Platforms |-> {}]

(* _pending_tasks                                                          *)
Pending == {e \in Events : at[e] \in {"created", "running", "over"}}

Live == {j \in Jobs : job[j] \in {"working", "waking"}}
EventsOf(p) == {e \in Events : PlatformOf[e] = p}
JobsOf(p) == {j \in Jobs : PlatformOf[JobOf[j]] = p}

-----------------------------------------------------------------------------
(* dispatch *)

(* An adapter commits an event; it may do so after it was stopped.         *)
Receive(e) ==
  /\ at[e] = "new"
  /\ at' = [at EXCEPT ![e] = "queued"]
  /\ queue' = Append(queue, e)
  /\ UNCHANGED <<hand, granted, permits, cancelled, registryVars, stopVars>>

Taken(e) == hand = NoEvent /\ queue # <<>> /\ e = Head(queue) /\ queue' = Tail(queue)

(* The platform is stopped, or there is no scheduler for the event.        *)
GetDrops(e) ==
  /\ Taken(e)
  /\ PlatformOf[e] \in stopped \/ e \in Unrouted
  /\ at' = [at EXCEPT ![e] = "dropped"]
  /\ UNCHANGED <<hand, granted, permits, cancelled, registryVars, stopVars>>

Served(e) == PlatformOf[e] \notin stopped /\ e \notin Unrouted

GetStarts(e) ==
  /\ Taken(e)
  /\ Served(e)
  /\ permits > 0
  /\ permits' = permits - 1
  /\ at' = [at EXCEPT ![e] = "created"]
  /\ UNCHANGED <<hand, granted, cancelled, registryVars, stopVars>>

GetWaits(e) ==
  /\ Taken(e)
  /\ Served(e)
  /\ permits = 0
  /\ hand' = e
  /\ at' = [at EXCEPT ![e] = "inHand"]
  /\ UNCHANGED <<granted, permits, cancelled, registryVars, stopVars>>

(* dispatch goes on with a permit; the platform may be stopped by now.     *)
StartAfterWait(e) ==
  /\ PlatformOf[e] \notin stopped
  /\ at' = [at EXCEPT ![e] = "created"]
  /\ UNCHANGED permits

DropAfterWait(e) ==
  /\ PlatformOf[e] \in stopped
  /\ at' = [at EXCEPT ![e] = "dropped"]
  /\ permits' = permits + 1

(* Mutant: the platform is not looked at again.                            *)
StartUnchecked(e) == at' = [at EXCEPT ![e] = "created"] /\ UNCHANGED permits

AfterWait(e) == StartAfterWait(e) \/ DropAfterWait(e)

Resume(e) ==
  /\ hand = e
  /\ granted
  /\ AfterWait(e)
  /\ hand' = NoEvent
  /\ granted' = FALSE
  /\ UNCHANGED <<queue, cancelled, registryVars, stopVars>>

-----------------------------------------------------------------------------
(* The pipeline task of an event *)

(* PipelineScheduler.execute registers the event.                          *)
TaskStarts(e) ==
  /\ at[e] = "created"
  /\ e \notin cancelled
  /\ at' = [at EXCEPT ![e] = "running"]
  /\ active' = active \cup {e}
  /\ UNCHANGED <<cancelled, busVars, signal, job, asked, stopVars>>

(* Cancelled before its first step: no finally block of it ever runs.      *)
TaskNeverStarts(e) ==
  /\ at[e] = "created"
  /\ e \in cancelled
  /\ at' = [at EXCEPT ![e] = "over"]
  /\ UNCHANGED <<cancelled, busVars, registryVars, stopVars>>

(* The stages end, fail, or are cancelled.                                 *)
TaskEnds(e) ==
  /\ at[e] = "running"
  /\ at' = [at EXCEPT ![e] = "over"]
  /\ active' = active \ {e}
  /\ UNCHANGED <<cancelled, busVars, signal, job, asked, stopVars>>

(* Mutant: the permit is given back by the coroutine, which a task that is *)
(* cancelled before its first step never enters.                           *)
ReleasedByCoroutine(e) ==
  IF e \in cancelled /\ e \notin active THEN UNCHANGED <<granted, permits>>
  ELSE IF hand # NoEvent /\ ~granted
         THEN granted' = TRUE /\ UNCHANGED permits
         ELSE permits' = permits + 1 /\ UNCHANGED granted

(* asyncio.Semaphore.release: a waiting dispatch is given the permit.      *)
Released(e) ==
  IF hand # NoEvent /\ ~granted
    THEN granted' = TRUE /\ UNCHANGED permits
    ELSE permits' = permits + 1 /\ UNCHANGED granted

TaskDone(e) ==
  /\ at[e] = "over"
  /\ at' = [at EXCEPT ![e] = "gone"]
  /\ Released(e)
  /\ UNCHANGED <<queue, hand, cancelled, registryVars, stopVars>>

-----------------------------------------------------------------------------
(* Background jobs.  The signal of an event is shared with the events that *)
(* its jobs create to wake the agent.                                      *)

(* A tool of the running agent, or of an agent woken by a job of the same  *)
(* event, submits a job, unless the signal is set.                         *)
Submit(j) ==
  LET e == JobOf[j]
  IN /\ job[j] = "none"
     /\ \/ at[e] = "running"
        \/ \E i \in Jobs : JobOf[i] = e /\ job[i] = "waking"
     /\ e \notin signal
     /\ job' = [job EXCEPT ![j] = "working"]
     /\ UNCHANGED <<at, cancelled, busVars, active, signal, asked, stopVars>>

JobWakes(j) ==
  /\ job[j] = "working"
  /\ JobOf[j] \notin signal
  /\ job' = [job EXCEPT ![j] = "waking"]
  /\ UNCHANGED <<at, cancelled, busVars, active, signal, asked, stopVars>>

JobEnds(j) ==
  /\ j \in Live
  /\ job' = [job EXCEPT ![j] = "over"]
  /\ UNCHANGED <<at, cancelled, busVars, active, signal, asked, stopVars>>

(* request_agent_stop_all for the session of p, on behalf of event x.      *)
Reached(p, x) == ((active \cap EventsOf(p)) \cup {JobOf[j] : j \in Live \cap JobsOf(p)}) \ {x}

(* Mutant: the signal is set and the jobs are left to notice it.           *)
AskedNone(p, x) == asked

Asked(p, x) ==
  [j \in Jobs |->
     IF j \in Live \cap JobsOf(p) /\ JobOf[j] # x /\ asked[j] = 0
       THEN asked[j] + 1
       ELSE asked[j]]

StopAgents(p, x) ==
  /\ signal' = signal \cup Reached(p, x)
  /\ asked' = Asked(p, x)

(* A stop command, which spares its own event, or the dashboard.  An event *)
(* that carries a command has no jobs.                                     *)
RequestStop(p, x) ==
  /\ x \in Events => at[x] = "running" /\ PlatformOf[x] = p /\ \A j \in Live : JobOf[j] # x
  /\ Reached(p, x) # {}
  /\ StopAgents(p, x)
  /\ UNCHANGED <<at, cancelled, busVars, active, job, stopVars>>

-----------------------------------------------------------------------------
(* stop_platform, and the removal of the platform from stopped_platforms   *)
(* when an adapter with its id is loaded again.                            *)

StopPlatform(p) ==
  /\ stopper[p] = "idle"
  /\ stopper' = [stopper EXCEPT ![p] = "pipelines"]
  /\ stopped' = stopped \cup {p}
  /\ queue' = Kept(queue, Events \ EventsOf(p))
  /\ at' = [e \in Events |->
              IF at[e] = "queued" /\ PlatformOf[e] = p THEN "dropped" ELSE at[e]]
  /\ waits' = [waits EXCEPT ![p] = Pending \cap EventsOf(p)]
  /\ cancelled' = cancelled \cup
       {e \in EventsOf(p) : at[e] \in {"created", "running"}}
  /\ UNCHANGED <<hand, granted, permits, registryVars>>

(* The pipelines are gone; ActiveEventRegistry.stop_platform stops what    *)
(* the registry still knows of the platform.                               *)
StopJobs(p) ==
  /\ stopper[p] = "pipelines"
  /\ \A e \in waits[p] : at[e] = "gone"
  /\ stopper' = [stopper EXCEPT ![p] = "jobs"]
  /\ waits' = [waits EXCEPT ![p] = Live \cap JobsOf(p)]
  /\ StopAgents(p, NoEvent)
  /\ UNCHANGED <<at, cancelled, busVars, active, job, stopped>>

StopReturns(p) ==
  /\ stopper[p] = "jobs"
  /\ waits[p] \cap Live = {}
  /\ stopper' = [stopper EXCEPT ![p] = "returned"]
  /\ waits' = [waits EXCEPT ![p] = {}]
  /\ UNCHANGED <<at, cancelled, busVars, registryVars, stopped>>

LoadAgain(p) ==
  /\ stopper[p] = "returned"
  /\ stopper' = [stopper EXCEPT ![p] = "idle"]
  /\ stopped' = stopped \ {p}
  /\ UNCHANGED <<at, cancelled, busVars, registryVars, waits>>

-----------------------------------------------------------------------------

Get(e) == GetDrops(e) \/ GetStarts(e) \/ GetWaits(e) \/ Resume(e)
Unwind(e) == TaskNeverStarts(e) \/ (e \in cancelled /\ TaskEnds(e)) \/ TaskDone(e)

Next ==
  \/ \E e \in Events :
       Receive(e) \/ Get(e) \/ TaskStarts(e) \/ TaskNeverStarts(e) \/ TaskEnds(e) \/ TaskDone(e)
  \/ \E j \in Jobs : Submit(j) \/ JobWakes(j) \/ JobEnds(j)
  \/ \E p \in Platforms :
       \/ \E x \in Events \cup {NoEvent} : RequestStop(p, x)
       \/ StopPlatform(p) \/ StopJobs(p) \/ StopReturns(p) \/ LoadAgain(p)

Spec == Init /\ [][Next]_vars

(* Cancelled tasks and jobs unwind, and callbacks and awaiters run; nobody *)
(* has to send, to finish by itself or to stop anything.                   *)
Fairness ==
  /\ \A e \in Events : WF_vars(Unwind(e))
  /\ \A j \in Jobs : WF_vars(asked[j] > 0 /\ JobEnds(j))
  /\ \A p \in Platforms : WF_vars(StopJobs(p) \/ StopReturns(p))

FairSpec == Spec /\ Fairness

-----------------------------------------------------------------------------
(* Properties *)

(* Every permit of the semaphore is free, belongs to one pipeline task or  *)
(* has been passed to dispatch; none leaks or is given back twice.         *)
SlotsExact ==
  permits + Cardinality(Pending) + (IF granted THEN 1 ELSE 0) = MaxConcurrency

(* Once stop_platform has returned, nothing of the platform runs, neither  *)
(* a pipeline task nor a background job, until the platform is loaded      *)
(* again, whatever was queued or in hand when it was called.               *)
StoppedIsQuiet ==
  \A p \in Platforms :
    stopper[p] = "returned" =>
      Pending \cap EventsOf(p) = {} /\ Live \cap JobsOf(p) = {}

(* A job whose event was told to stop has been cancelled, exactly once, so *)
(* that a later request does not interrupt its clean-up.                   *)
JobsAskedOnce ==
  \A j \in Live : asked[j] = IF JobOf[j] \in signal THEN 1 ELSE 0

(* stop_platform returns.                                                  *)
StopEnds ==
  \A p \in Platforms : stopper[p] \in {"pipelines", "jobs"} ~> stopper[p] = "returned"
=============================================================================
