------------------------------- MODULE WebChat -------------------------------
(***************************************************************************)
(* webchat/run_coordinator.py and webchat/queue_manager.py for one chat    *)
(* session: a request opens a run with a response queue of its own, its    *)
(* task reads that queue, its input goes through the input queue of the    *)
(* session to the adapter, whose pipeline writes the responses.  Deleting  *)
(* the session closes its runs and removes its queues.                     *)
(*                                                                         *)
(* A run, its request id, its task, its response queue and the pipeline    *)
(* that answers it have one name.  The input queue is never full: the      *)
(* listener takes from it at once.                                         *)
(***************************************************************************)
EXTENDS Naturals

CONSTANTS
  Runs,
  Capacity,     \* back_queue_maxsize
  LateRequests  \* requests may come in while the session is being closed

VARIABLES
  run,        \* run[r]: in _runs ("open") or not any more ("closed")
  task,       \* task[r]: the worker of the run
  cancelled,  \* tasks that were cancelled
  back,       \* back[r]: its response queue in back_queues
  items,      \* items[r]: responses in the queue
  pipeline,   \* pipeline[r]: the input of the run and who answers it
  closer,     \* close_session
  victims     \* the runs it has collected

vars == <<run, task, cancelled, back, items, pipeline, closer, victims>>

TypeOK ==
  /\ run \in [Runs -> {"none", "open", "closed"}]
  /\ task \in [Runs -> {"none", "created", "reading", "saving", "over"}]
  /\ cancelled \subseteq Runs
  /\ back \in [Runs -> {"none", "open", "removed"}]
  /\ items \in [Runs -> 0 .. Capacity]
  /\ pipeline \in [Runs -> {"none", "queued", "lost", "writing", "blocked", "refused", "ended"}]
  /\ closer \in {"idle", "waiting"}
  /\ victims \subseteq Runs

Init ==
  /\ run = [r \in Runs |-> "none"]
  /\ task = [r \in Runs |-> "none"]
  /\ cancelled = {}
  /\ back = [r \in Runs |-> "none"]
  /\ items = [r \in Runs |-> 0]
  /\ pipeline = [r \in Runs |-> "none"]
  /\ closer = "idle"
  /\ victims = {}

-----------------------------------------------------------------------------
(* A request *)

(* create_run and start_task, or bind_task in the task of the request.     *)
CreateRun(r) ==
  /\ run[r] = "none"
  /\ closer = "waiting" => LateRequests
  /\ run' = [run EXCEPT ![r] = "open"]
  /\ back' = [back EXCEPT ![r] = "open"]
  /\ \E s \in {"created", "reading"} : task' = [task EXCEPT ![r] = s]
  /\ UNCHANGED <<cancelled, items, pipeline, closer, victims>>

(* A closed run is not dispatched any more.                                *)
Dispatch(r) ==
  /\ run[r] = "open"
  /\ pipeline[r] = "none"
  /\ pipeline' = [pipeline EXCEPT ![r] = "queued"]
  /\ UNCHANGED <<run, task, cancelled, back, items, closer, victims>>

Starts(r) ==
  /\ task[r] = "created"
  /\ r \notin cancelled
  /\ task' = [task EXCEPT ![r] = "reading"]
  /\ UNCHANGED <<run, cancelled, back, items, pipeline, closer, victims>>

(* Cancelled before its first step, supervise() never enters its finally.  *)
NeverStarts(r) ==
  /\ task[r] = "created"
  /\ r \in cancelled
  /\ task' = [task EXCEPT ![r] = "over"]
  /\ UNCHANGED <<run, cancelled, back, items, pipeline, closer, victims>>

(* next_result.  The last response ends the run.                           *)
Reads(r) ==
  /\ task[r] = "reading"
  /\ r \notin cancelled
  /\ items[r] > 0
  /\ run[r] = "open"
  /\ items' = [items EXCEPT ![r] = @ - 1]
  /\ task' = [task EXCEPT ![r] = IF pipeline[r] = "ended" /\ items[r] = 1
                                   THEN "saving" ELSE @]
  /\ UNCHANGED <<run, cancelled, back, pipeline, closer, victims>>

(* Cancelled, failed or inactive: what was read is saved.                  *)
Gives(r) ==
  /\ task[r] = "reading"
  /\ task' = [task EXCEPT ![r] = "saving"]
  /\ UNCHANGED <<run, cancelled, back, items, pipeline, closer, victims>>

(* remove_back_queue for the runs R: writers that wait are woken.          *)
Removed(R) ==
  /\ back' = [r \in Runs |-> IF r \in R /\ back[r] = "open" THEN "removed" ELSE back[r]]

CloseRuns(R) ==
  /\ run' = [r \in Runs |-> IF r \in R /\ run[r] = "open" THEN "closed" ELSE run[r]]

(* The finally of the worker: close_run.                                   *)
Saved(r) ==
  /\ task[r] = "saving"
  /\ task' = [task EXCEPT ![r] = "over"]
  /\ CloseRuns({r})
  /\ Removed({r})
  /\ UNCHANGED <<cancelled, items, pipeline, closer, victims>>

-----------------------------------------------------------------------------
(* The adapter and its pipeline *)

Listens(r) ==
  /\ pipeline[r] = "queued"
  /\ pipeline' = [pipeline EXCEPT ![r] = "writing"]
  /\ UNCHANGED <<run, task, cancelled, back, items, closer, victims>>

(* put_back_queue: accepted, refused, or waiting for room or for the end   *)
(* of the queue.                                                           *)
Puts(r) ==
  /\ pipeline[r] \in {"writing", "blocked"}
  /\ back[r] = "open"
  /\ items[r] < Capacity
  /\ items' = [items EXCEPT ![r] = @ + 1]
  /\ \E s \in {"writing", "ended"} : pipeline' = [pipeline EXCEPT ![r] = s]
  /\ UNCHANGED <<run, task, cancelled, back, closer, victims>>

Blocks(r) ==
  /\ pipeline[r] = "writing"
  /\ back[r] = "open"
  /\ items[r] = Capacity
  /\ pipeline' = [pipeline EXCEPT ![r] = "blocked"]
  /\ UNCHANGED <<run, task, cancelled, back, items, closer, victims>>

Refused(r) ==
  /\ pipeline[r] \in {"writing", "blocked"}
  /\ back[r] = "removed"
  /\ pipeline' = [pipeline EXCEPT ![r] = "refused"]
  /\ UNCHANGED <<run, task, cancelled, back, items, closer, victims>>

-----------------------------------------------------------------------------
(* close_session with remove_input_queue: the session is deleted *)

CloseSession ==
  /\ closer = "idle"
  /\ closer' = "waiting"
  /\ victims' = {r \in Runs : run[r] = "open"}
  /\ victims' # {}
  /\ cancelled' = cancelled \cup {r \in victims' : task[r] # "over"}
  /\ UNCHANGED <<run, task, back, items, pipeline>>

(* Mutant: the runs are left to their tasks.                               *)
CloseTrusting ==
  /\ Removed(Runs)
  /\ UNCHANGED run

(* close_run for the runs it collected and remove_queues for the session.  *)
CloseCollected ==
  /\ CloseRuns(victims)
  /\ Removed(Runs)

(* Its tasks are gathered.  That close_session is itself cancelled while   *)
(* it waits for them is left out: a run that never started would then      *)
(* stay in the index.                                                      *)
SessionClosed ==
  /\ closer = "waiting"
  /\ \A r \in victims : task[r] = "over"
  /\ closer' = "idle"
  /\ victims' = {}
  /\ CloseCollected
  /\ pipeline' = [r \in Runs |-> IF pipeline[r] = "queued" THEN "lost" ELSE pipeline[r]]
  /\ UNCHANGED <<task, cancelled, items>>

-----------------------------------------------------------------------------

OfTask(r) == Starts(r) \/ NeverStarts(r) \/ Reads(r) \/ Gives(r) \/ Saved(r)
OfPipeline(r) == Listens(r) \/ Puts(r) \/ Blocks(r) \/ Refused(r)

Next ==
  \/ \E r \in Runs : CreateRun(r) \/ Dispatch(r) \/ OfTask(r) \/ OfPipeline(r)
  \/ CloseSession \/ SessionClosed

Spec == Init /\ [][Next]_vars

-----------------------------------------------------------------------------
(* Properties *)

(* A run is indexed no longer than its task lives or close_session is      *)
(* about to close it, also when its task was cancelled before it ran; and  *)
(* a response queue no longer than its run.                                *)
NothingLeaks ==
  \A r \in Runs :
    /\ run[r] = "open" => task[r] # "over" \/ r \in victims
    /\ back[r] = "open" => run[r] = "open"

(* An active run has its response queue (run_coordinator.py: "a request    *)
(* task, its back queue, and its session index always move together").     *)
RunHasQueue == \A r \in Runs : run[r] = "open" => back[r] = "open"
=============================================================================
