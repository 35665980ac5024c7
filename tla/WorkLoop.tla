------------------------------ MODULE WorkLoop ------------------------------
(***************************************************************************)
(* agent/btw: work that outlives the request that asked for it.  A request *)
(* acknowledges the work in its pipeline and then hands its event over to  *)
(* a detached run (WorkLoop.submit), or a tool of the conversation creates *)
(* an event of its own and schedules it (submit_work_task).  Three owners  *)
(* follow each other: the generator and the scheduler of the request, the  *)
(* detached task, and close(), which settles tasks that never started.     *)
(*                                                                         *)
(* A work session, its event and its detached task have one name.  The     *)
(* operations of WorkSessionManager do not suspend: nothing is awaited     *)
(* under its lock.  Expiry of finished sessions is left out.               *)
(***************************************************************************)
EXTENDS Naturals, FiniteSets

CONSTANTS
  Requests,        \* events handled by submit
  Tools,           \* events created by submit_work_task
  MaxConcurrency   \* runs at a time

Works == Requests \cup Tools

VARIABLES
  request,   \* request[w]: the pipeline of the request
  run,       \* run[w]: the detached task
  status,    \* status[w]: of the work session, "none" before create
  detached,  \* btw_detached_work
  finished,  \* btw_detached_work_finished
  produced,  \* runs whose executor has yielded a result
  active,    \* events registered in ActiveEventRegistry
  stop,      \* events for which stop_requested holds
  asked,     \* runs that were cancelled and have not resumed yet
  loop,      \* the loop itself: "open", "closing", "closed"
  snapshot   \* the tasks that close() awaits

runVars == <<run, finished, produced, asked>>
vars == <<request, runVars, status, detached, active, stop, loop, snapshot>>

Ended == {"completed", "failed", "cancelled", "unconfirmed"}
Held == {"executing", "delivering", "unwinding"}   \* inside the semaphore
Alive == {"created", "waiting", "finalizing"} \cup Held

TypeOK ==
  /\ request \in [Works -> {"new", "acking", "ending", "end"}]
  /\ run \in [Works -> {"none", "over"} \cup Alive]
  /\ status \in [Works -> {"none", "pending", "running"} \cup Ended]
  /\ {detached, finished, produced, active, stop, asked, snapshot} \subseteq SUBSET Works
  /\ loop \in {"open", "closing", "closed"}

Init ==
  /\ request = [w \in Works |-> "new"]
  /\ run = [w \in Works |-> "none"]
  /\ status = [w \in Works |-> "none"]
  /\ detached = {}
  /\ finished = {}
  /\ produced = {}
  /\ active = {}
  /\ stop = {}
  /\ asked = {}
  /\ loop = "open"
  /\ snapshot = {}

Running == {w \in Works : run[w] \in Held}

-----------------------------------------------------------------------------
(* The request *)

(* scheduler.execute registers the event; submit creates the session and   *)
(* suspends while the later stages deliver the acknowledgement.            *)
Acknowledge(w) ==
  /\ w \in Requests
  /\ request[w] = "new"
  /\ active' = active \cup {w}
  /\ IF loop = "open"
       THEN /\ status' = [status EXCEPT ![w] = "pending"]
            /\ request' = [request EXCEPT ![w] = "acking"]
       ELSE /\ request' = [request EXCEPT ![w] = "ending"]
            /\ UNCHANGED status
  /\ UNCHANGED <<runVars, detached, stop, loop, snapshot>>

CancelIfPending(w) ==
  status' = [status EXCEPT ![w] = IF @ = "pending" THEN "cancelled" ELSE @]

(* _schedule_detached                                                      *)
Detach(w) ==
  /\ detached' = detached \cup {w}
  /\ run' = [run EXCEPT ![w] = "created"]

(* Stopping the agent of an event does not stop the event itself.          *)
HandOff(w) ==
  /\ request[w] = "acking"
  /\ request' = [request EXCEPT ![w] = "ending"]
  /\ IF loop = "open"
       THEN Detach(w) /\ UNCHANGED status
       ELSE CancelIfPending(w) /\ UNCHANGED <<run, detached>>
  /\ UNCHANGED <<finished, produced, asked, active, stop, loop, snapshot>>

(* Mutant: the event is marked as detached before it is handed over.       *)
AbandonSilently(w) ==
  /\ request[w] = "acking"
  /\ request' = [request EXCEPT ![w] = "ending"]
  /\ detached' = detached \cup {w}
  /\ UNCHANGED <<runVars, status, active, stop, loop, snapshot>>

(* The generator is closed at its yield: the event is stopped, a stage     *)
(* fails or the pipeline task is cancelled.                                *)
Abandon(w) ==
  /\ request[w] = "acking"
  /\ request' = [request EXCEPT ![w] = "ending"]
  /\ CancelIfPending(w)
  /\ UNCHANGED <<runVars, detached, active, stop, loop, snapshot>>

(* Mutant: the clean-up of the request forgets that its event may be       *)
(* detached.                                                               *)
EndAlways(w) == active' = active \ {w} /\ CancelIfPending(w)

(* The finally block of scheduler.execute.                                 *)
EndUnlessDetached(w) ==
  IF w \in detached
    THEN UNCHANGED <<active, status>>
    ELSE active' = active \ {w} /\ CancelIfPending(w)

RequestEnds(w) ==
  /\ request[w] = "ending"
  /\ request' = [request EXCEPT ![w] = "end"]
  /\ EndUnlessDetached(w)
  /\ UNCHANGED <<runVars, detached, stop, loop, snapshot>>

(* submit_work_task: the event is registered, scheduled, and unregistered  *)
(* when the loop refuses it.                                               *)
Schedule(w) ==
  /\ w \in Tools
  /\ request[w] = "new"
  /\ request' = [request EXCEPT ![w] = "end"]
  /\ IF loop = "open"
       THEN /\ active' = active \cup {w}
            /\ status' = [status EXCEPT ![w] = "pending"]
            /\ Detach(w)
       ELSE UNCHANGED <<active, status, run, detached>>
  /\ UNCHANGED <<finished, produced, asked, stop, loop, snapshot>>

-----------------------------------------------------------------------------
(* The detached run *)

Goes(w, to) == run' = [run EXCEPT ![w] = to]
Becomes(w, s) == status' = [status EXCEPT ![w] = s]
Elsewhere == UNCHANGED <<request, detached, active, stop, loop, snapshot>>

(* The last clause of _run_detached: finalize_detached_event is entered.   *)
Finalizes(w) == Goes(w, "finalizing") /\ finished' = finished \cup {w}

Begin(w) ==
  /\ run[w] = "created"
  /\ w \notin asked
  /\ Goes(w, "waiting")
  /\ UNCHANGED <<finished, produced, asked, status>> /\ Elsewhere

(* Inside the semaphore: a run whose request was stopped does not start.   *)
Enter(w) ==
  /\ run[w] = "waiting"
  /\ w \notin asked
  /\ Cardinality(Running) < MaxConcurrency
  /\ IF w \in stop
       THEN Becomes(w, "cancelled") /\ Finalizes(w)
       ELSE Becomes(w, "running") /\ Goes(w, "executing") /\ UNCHANGED finished
  /\ UNCHANGED <<produced, asked>> /\ Elsewhere

(* The executor yields a result: it is delivered, or, after a stop, the    *)
(* executor is closed.                                                     *)
Yields(w) ==
  /\ run[w] = "executing"
  /\ w \notin asked
  /\ produced' = produced \cup {w}
  /\ IF w \in stop
       THEN Becomes(w, "cancelled") /\ Goes(w, "unwinding")
       ELSE Goes(w, "delivering") /\ UNCHANGED status
  /\ UNCHANGED <<finished, asked>> /\ Elsewhere

Delivered(w) ==
  /\ run[w] = "delivering"
  /\ w \notin asked
  /\ Goes(w, "executing")
  /\ UNCHANGED <<finished, produced, asked, status>> /\ Elsewhere

(* resolve_run_status, folded with what the platform said of the delivery. *)
Resolved(w, failed, receipt) ==
  IF failed \/ (w \notin produced /\ w \notin stop) THEN "failed"
  ELSE IF w \in stop THEN "cancelled"
  ELSE CASE receipt = "failed"  -> "failed"
         [] receipt = "unknown" -> "unconfirmed"
         [] OTHER               -> "completed"

Completes(w) ==
  /\ run[w] = "executing"
  /\ w \notin asked
  /\ \E failed \in BOOLEAN, receipt \in {"sent", "failed", "unknown"} :
       Becomes(w, Resolved(w, failed, receipt))
  /\ Finalizes(w)
  /\ UNCHANGED <<produced, asked>> /\ Elsewhere

(* The executor or the delivery raises, or closing the executor does.      *)
Fails(w) ==
  /\ run[w] \in Held
  /\ w \notin asked
  /\ Becomes(w, "failed")
  /\ Finalizes(w)
  /\ UNCHANGED <<produced, asked>> /\ Elsewhere

Unwound(w) ==
  /\ run[w] = "unwinding"
  /\ w \notin asked
  /\ Finalizes(w)
  /\ UNCHANGED <<produced, asked, status>> /\ Elsewhere

(* A cancelled task resumes; in the finalizer it only loses the empty      *)
(* completion, and before its first step it runs nothing of its own.       *)
Cancelled(w) ==
  /\ w \in asked
  /\ asked' = asked \ {w}
  /\ run[w] \in {"waiting"} \cup Held
  /\ Becomes(w, "cancelled")
  /\ Finalizes(w)
  /\ UNCHANGED produced /\ Elsewhere

CancelledUnstarted(w) ==
  /\ w \in asked
  /\ asked' = asked \ {w}
  /\ run[w] = "created"
  /\ Goes(w, "over")
  /\ UNCHANGED <<finished, produced, status>> /\ Elsewhere

Finalized(w) ==
  /\ run[w] = "finalizing"
  /\ asked' = asked \ {w}
  /\ Goes(w, "over")
  /\ active' = active \ {w}
  /\ UNCHANGED <<request, finished, produced, status, detached, stop, loop, snapshot>>

-----------------------------------------------------------------------------
(* Stop and close *)

(* The stop command or the registry: it finds only registered events.      *)
Stop(w) ==
  /\ w \in active \ stop
  /\ stop' = stop \cup {w}
  /\ UNCHANGED <<request, runVars, status, detached, active, loop, snapshot>>

Close ==
  /\ loop = "open"
  /\ loop' = "closing"
  /\ snapshot' = {w \in Works : run[w] \in Alive}
  /\ asked' = asked \cup snapshot'
  /\ UNCHANGED <<request, run, finished, produced, status, detached, active, stop>>

(* Mutant: tasks that never started are left as they are.                  *)
SettleNone == UNCHANGED <<status, finished, active>>

(* Tasks that never started are settled here.                              *)
SettleUnfinished ==
  LET left == snapshot \ finished
  IN /\ status' = [w \in Works |-> IF w \in left THEN "cancelled" ELSE status[w]]
     /\ finished' = finished \cup left
     /\ active' = active \ left

Closed ==
  /\ loop = "closing"
  /\ \A w \in snapshot : run[w] = "over"
  /\ loop' = "closed"
  /\ snapshot' = {}
  /\ SettleUnfinished
  /\ UNCHANGED <<request, run, produced, asked, detached, stop>>

-----------------------------------------------------------------------------

Ask(w) == Acknowledge(w) \/ Schedule(w)
OfRequest(w) == HandOff(w) \/ Abandon(w) \/ RequestEnds(w)
OfRun(w) == Begin(w) \/ Enter(w) \/ Unwound(w) \/ Cancelled(w)
            \/ CancelledUnstarted(w) \/ Finalized(w)
OfExecutor(w) == Yields(w) \/ Delivered(w) \/ Completes(w) \/ Fails(w)

Next ==
  \/ \E w \in Works : Ask(w) \/ OfRequest(w) \/ OfRun(w) \/ OfExecutor(w) \/ Stop(w)
  \/ Close \/ Closed

Spec == Init /\ [][Next]_vars

(* Acknowledgements are delivered or fail, ready tasks run, and platform   *)
(* calls and clean-ups return.  Executors need not end by themselves.      *)
Fairness ==
  /\ \A w \in Works : WF_vars(OfRequest(w)) /\ WF_vars(OfRun(w))
  /\ WF_vars(Closed)

FairSpec == Spec /\ Fairness

-----------------------------------------------------------------------------
(* Properties *)

(* A queued session has an owner that will start or cancel it: its request *)
(* has not ended, its task is registered, or close() is about to settle it *)
(* (runtime_registry.py: "the queue entry cannot outlive its request").    *)
PendingOwned ==
  \A w \in Works :
    status[w] = "pending" =>
      \/ w \notin detached /\ request[w] \in {"acking", "ending"}
      \/ run[w] \in {"created", "waiting"}
      \/ w \in snapshot \ finished

(* An event can be found by stop and reset as long as its request or its   *)
(* detached run is alive, and no longer.                                   *)
ReachableWhileAlive ==
  \A w \in Works :
    w \in active <=>
      \/ request[w] = "acking" \/ (request[w] = "ending" /\ w \notin detached)
      \/ run[w] \in Alive
      \/ w \in snapshot \ finished

(* Once the loop is closed, every session reaches a final status and every *)
(* event leaves the registry, started or not.                              *)
CloseSettles ==
  loop = "closing" ~> \A w \in Works : status[w] \in {"none"} \cup Ended /\ w \notin active
=============================================================================
