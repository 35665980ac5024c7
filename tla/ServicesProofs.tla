--------------------------- MODULE ServicesProofs ---------------------------
(***************************************************************************)
(* Proofs about the services, for all values of their constants, in one    *)
(* section per component, and what follows for the services side by side.  *)
(* The names without prefix are those of WorkLoop.                         *)
(***************************************************************************)
EXTENDS Services, WaitQueueProofs

(* WorkLoop: detached work always has an owner, for any requests, tools    *)
(* and limit of concurrency.                                               *)

(* An event is detached exactly when it has a task, and its request is     *)
(* then about to end or has ended.                                         *)
DetachedExact ==
  \A w \in Works :
    /\ w \in detached <=> run[w] # "none"
    /\ run[w] # "none" => request[w] \in {"ending", "end"}

(* The finalizer runs once: it marks the event when it is entered.         *)
FinishedOnce ==
  \A w \in Works :
    /\ run[w] \in {"none", "created", "waiting"} \cup Held => w \notin finished
    /\ run[w] = "finalizing" => w \in finished

(* A session is queued only until its run is let in.                       *)
PendingBefore ==
  \A w \in Works : run[w] \in Held \cup {"finalizing"} => status[w] # "pending"

(* Only close() cancels tasks, and it awaits each until it has ended.      *)
AskedByClose ==
  /\ loop # "closing" => snapshot = {}
  /\ asked \subseteq snapshot
  /\ \A w \in asked : run[w] \in Alive
  /\ \A w \in snapshot : run[w] # "none"

WorkIInv ==
  /\ TypeOK
  /\ DetachedExact
  /\ FinishedOnce
  /\ PendingBefore
  /\ AskedByClose
  /\ PendingOwned
  /\ ReachableWhileAlive

-----------------------------------------------------------------------------

LEMMA WorkInitInv == Init => WorkIInv
BY DEF Init, WorkIInv, TypeOK, DetachedExact, FinishedOnce, PendingBefore,
       AskedByClose,
       PendingOwned, ReachableWhileAlive, Alive, Held

LEMMA WorkStutterInv == WorkIInv /\ UNCHANGED vars => WorkIInv'
BY DEF WorkIInv, TypeOK, DetachedExact, FinishedOnce, PendingBefore, AskedByClose,
       PendingOwned, ReachableWhileAlive, vars, runVars

(* The request and the scheduler behind it.                                *)
LEMMA WorkRequestInv ==
  ASSUME WorkIInv, NEW w \in Works, Ask(w) \/ OfRequest(w)
  PROVE  WorkIInv'
<1> USE DEF WorkIInv, TypeOK, runVars
<1>1. CASE Acknowledge(w)
  BY <1>1 DEF Acknowledge, DetachedExact, FinishedOnce, PendingBefore, AskedByClose,
              PendingOwned, ReachableWhileAlive, Alive, Held
<1>2. CASE Schedule(w)
  BY <1>2 DEF Schedule, Detach, DetachedExact, FinishedOnce, PendingBefore,
              AskedByClose, PendingOwned, ReachableWhileAlive, Alive, Held
<1>3. CASE HandOff(w)
  BY <1>3 DEF HandOff, Detach, CancelIfPending, DetachedExact, FinishedOnce,
              PendingBefore, AskedByClose, PendingOwned, ReachableWhileAlive, Alive,
              Held, Ended
<1>4. CASE Abandon(w)
  BY <1>4 DEF Abandon, CancelIfPending, DetachedExact, FinishedOnce, PendingBefore,
              AskedByClose, PendingOwned, ReachableWhileAlive, Ended
<1>5. CASE RequestEnds(w)
  BY <1>5 DEF RequestEnds, EndUnlessDetached, CancelIfPending, DetachedExact,
              FinishedOnce, PendingBefore, AskedByClose, PendingOwned,
              ReachableWhileAlive, Alive, Held, Ended
<1> QED
  BY <1>1, <1>2, <1>3, <1>4, <1>5 DEF Ask, OfRequest

(* A run goes on without coming to an end: its session is not queued any   *)
(* more, or it still waits.                                                *)
LEMMA WorkGoesOnInv ==
  ASSUME WorkIInv, NEW w \in Works, Elsewhere,
         NEW pc \in {"waiting"} \cup Held, Goes(w, pc),
         run[w] \in {"created", "waiting"} \cup Held,
         pc \in Held => status'[w] # "pending",
         pc = "waiting" => status'[w] = status[w] /\ run[w] = "created",
         NEW s \in {"none", "pending", "running"} \cup Ended, Becomes(w, s),
         UNCHANGED <<finished, asked>>,
         produced' \subseteq Works
  PROVE  WorkIInv'
BY DEF Elsewhere, Goes, Becomes, WorkIInv, TypeOK, DetachedExact, FinishedOnce,
       PendingBefore, AskedByClose, PendingOwned, ReachableWhileAlive, Alive, Held

(* A run comes to its finalizer with a final status.                       *)
LEMMA WorkFinalizesInv ==
  ASSUME WorkIInv, NEW w \in Works, Elsewhere, Finalizes(w),
         run[w] \in {"waiting"} \cup Held,
         NEW s \in Ended \cup {"running", "none"}, Becomes(w, s),
         asked' \subseteq asked, UNCHANGED produced
  PROVE  WorkIInv'
BY DEF Elsewhere, Finalizes, Goes, Becomes, WorkIInv, TypeOK, DetachedExact,
       FinishedOnce,
       PendingBefore, AskedByClose, PendingOwned, ReachableWhileAlive, Alive, Held, Ended

(* The detached task.                                                      *)
LEMMA WorkRunInv ==
  ASSUME WorkIInv, NEW w \in Works, OfRun(w) \/ OfExecutor(w)
  PROVE  WorkIInv'
<1> USE DEF WorkIInv
<1>0. /\ status[w] \in {"none", "pending", "running"} \cup Ended
      /\ status = [status EXCEPT ![w] = status[w]]
      /\ produced \cup {w} \subseteq Works
      /\ run[w] \in Held => status[w] # "pending"
  BY DEF TypeOK, PendingBefore
<1>1. CASE Begin(w)
  <2>1. Becomes(w, status[w]) /\ status'[w] = status[w]
    BY <1>0, <1>1 DEF Begin, Becomes
  <2> QED
    BY <1>0, <1>1, <2>1, WorkGoesOnInv DEF Begin, Held, TypeOK
<1>2. CASE Enter(w)
  <2>1. CASE w \in stop
    BY <1>2, <2>1, WorkFinalizesInv DEF Enter, Ended
  <2>2. CASE w \notin stop
    <3>1. status'[w] # "pending"
      BY <1>2, <2>2 DEF Enter, Becomes, TypeOK
    <3> QED
      BY <1>2, <2>2, <3>1, WorkGoesOnInv DEF Enter, Held, TypeOK
  <2> QED
    BY <2>1, <2>2
<1>3. CASE Yields(w)
  <2>1. CASE w \in stop
    <3>1. status'[w] # "pending"
      BY <1>3, <2>1 DEF Yields, Becomes, TypeOK
    <3> QED
      BY <1>0, <1>3, <2>1, <3>1, WorkGoesOnInv DEF Yields, Held, Ended
  <2>2. CASE w \notin stop
    <3>1. Becomes(w, status[w]) /\ status'[w] # "pending"
      BY <1>0, <1>3, <2>2 DEF Yields, Becomes, Held
    <3> QED
      BY <1>0, <1>3, <2>2, <3>1, WorkGoesOnInv DEF Yields, Held
  <2> QED
    BY <2>1, <2>2
<1>4. CASE Delivered(w)
  <2>1. Becomes(w, status[w]) /\ status'[w] # "pending"
    BY <1>0, <1>4 DEF Delivered, Becomes, Held
  <2> QED
    BY <1>0, <1>4, <2>1, WorkGoesOnInv DEF Delivered, Held, TypeOK
<1>5. CASE Completes(w)
  <2>1. PICK failed \in BOOLEAN, receipt \in {"sent", "failed", "unknown"} :
          Becomes(w, Resolved(w, failed, receipt))
    BY <1>5 DEF Completes
  <2>2. Resolved(w, failed, receipt) \in Ended
    BY DEF Resolved, Ended
  <2> QED
    BY <1>5, <2>1, <2>2, WorkFinalizesInv DEF Completes, Held
<1>6. CASE Fails(w)
  BY <1>6, WorkFinalizesInv DEF Fails, Ended
<1>7. CASE Unwound(w)
  <2>1. Becomes(w, status[w]) /\ status[w] # "pending"
    BY <1>0, <1>7 DEF Unwound, Becomes, Held
  <2> QED
    BY <1>0, <1>7, <2>1, WorkFinalizesInv DEF Unwound, Held
<1>8. CASE Cancelled(w)
  BY <1>8, WorkFinalizesInv DEF Cancelled, Ended
<1>9. CASE CancelledUnstarted(w)
  BY <1>9 DEF CancelledUnstarted, Goes, Elsewhere, TypeOK, DetachedExact,
              FinishedOnce,
              PendingBefore, AskedByClose, PendingOwned, ReachableWhileAlive, Alive, Held
<1>10. CASE Finalized(w)
  BY <1>10 DEF Finalized, Goes, TypeOK, DetachedExact, FinishedOnce, PendingBefore,
               AskedByClose, PendingOwned, ReachableWhileAlive, Alive, Held
<1> QED
  BY <1>1, <1>2, <1>3, <1>4, <1>5, <1>6, <1>7, <1>8, <1>9, <1>10
  DEF OfRun, OfExecutor

(* Stop requests, and the closing of the loop.                             *)
LEMMA WorkCloseInv ==
  ASSUME WorkIInv, (\E w \in Works : Stop(w)) \/ Close \/ Closed
  PROVE  WorkIInv'
<1> USE DEF WorkIInv
<1>1. ASSUME NEW w \in Works, Stop(w) PROVE WorkIInv'
  BY <1>1 DEF Stop, runVars, TypeOK, DetachedExact, FinishedOnce, PendingBefore,
              AskedByClose, PendingOwned, ReachableWhileAlive
<1>2. CASE Close
  BY <1>2 DEF Close, TypeOK, DetachedExact, FinishedOnce, PendingBefore,
              AskedByClose,
              PendingOwned, ReachableWhileAlive, Alive, Held
<1>3. CASE Closed
  <2>1. asked = {}
    BY <1>3 DEF Closed, AskedByClose, Alive, Held
  <2> QED
    BY <1>3, <2>1
    DEF Closed, SettleUnfinished, TypeOK, DetachedExact, FinishedOnce,
        PendingBefore,
        AskedByClose, PendingOwned, ReachableWhileAlive, Alive, Held, Ended
<1> QED
  BY <1>1, <1>2, <1>3

(* The owners of detached work hand it over without a gap.                 *)
THEOREM WorkInvariantHolds == Spec => []WorkIInv
<1>1. WorkIInv /\ [Next]_vars => WorkIInv'
  BY WorkRequestInv, WorkRunInv, WorkCloseInv, WorkStutterInv DEF Next
<1> QED
  BY WorkInitInv, <1>1, PTL DEF Spec

(* agent/btw/runtime_registry.py: a queued session has an owner that will  *)
(* start or cancel it.                                                     *)
THEOREM PendingIsOwned == Spec => []PendingOwned
<1>1. WorkIInv => PendingOwned
  BY DEF WorkIInv
<1> QED
  BY WorkInvariantHolds, <1>1, PTL

(* The registry of active events has an event exactly as long as its       *)
(* request or its detached run is alive.                                   *)
THEOREM ReachableExactly == Spec => []ReachableWhileAlive
<1>1. WorkIInv => ReachableWhileAlive
  BY DEF WorkIInv
<1> QED
  BY WorkInvariantHolds, <1>1, PTL

-----------------------------------------------------------------------------
(* WebChat: runs and response queues do not leak, for any runs and any size *)
(* of the queues.                                                          *)

ChatFunctions ==
  /\ chat_run = [r \in ChatRuns |-> chat_run[r]]
  /\ chat_task = [r \in ChatRuns |-> chat_task[r]]
  /\ chat_back = [r \in ChatRuns |-> chat_back[r]]

(* A task is cancelled with its run among the victims, never before it     *)
(* exists, so that a task that never runs leaves its run to close_session. *)
ChatCancelledKnown ==
  \A r \in ChatRuns : r \in chat_cancelled =>
    chat_run[r] # "none" /\ (chat_run[r] = "open" => r \in chat_victims)

ChatIInv == ChatFunctions /\ ChatCancelledKnown /\ Chat!NothingLeaks

LEMMA ChatRequestInv ==
  ASSUME ChatIInv, NEW r \in ChatRuns, Chat!CreateRun(r) \/ Chat!Dispatch(r)
  PROVE  ChatIInv'
<1> USE DEF ChatIInv, ChatFunctions, ChatCancelledKnown, Chat!NothingLeaks
<1>1. CASE Chat!CreateRun(r)
  <2>1. ChatFunctions'
    BY <1>1 DEF Chat!CreateRun
  <2>2. ChatCancelledKnown' /\ Chat!NothingLeaks'
    BY <1>1 DEF Chat!CreateRun
  <2> QED
    BY <2>1, <2>2
<1>2. CASE Chat!Dispatch(r)
  BY <1>2 DEF Chat!Dispatch
<1> QED
  BY <1>1, <1>2

LEMMA ChatTaskInv ==
  ASSUME ChatIInv, NEW r \in ChatRuns, Chat!OfTask(r)
  PROVE  ChatIInv'
<1> USE DEF ChatIInv, ChatFunctions, ChatCancelledKnown, Chat!NothingLeaks
<1>1. CASE Chat!Starts(r) \/ Chat!Reads(r) \/ Chat!Gives(r)
  BY <1>1 DEF Chat!Starts, Chat!Reads, Chat!Gives
<1>2. CASE Chat!NeverStarts(r)
  BY <1>2 DEF Chat!NeverStarts
<1>3. CASE Chat!Saved(r)
  <2>1. \A x \in ChatRuns :
          /\ chat_run'[x] = IF x = r /\ chat_run[x] = "open" THEN "closed" ELSE chat_run[x]
          /\ chat_back'[x] = IF x = r /\ chat_back[x] = "open" THEN "removed" ELSE chat_back[x]
          /\ chat_task'[x] = IF x = r THEN "over" ELSE chat_task[x]
    BY <1>3 DEF Chat!Saved, Chat!CloseRuns, Chat!Removed
  <2>2. ChatFunctions'
    BY <1>3 DEF Chat!Saved, Chat!CloseRuns, Chat!Removed
  <2>3. chat_cancelled' = chat_cancelled /\ chat_victims' = chat_victims
    BY <1>3 DEF Chat!Saved
  <2>4. ChatCancelledKnown'
    BY <2>1, <2>3
  <2>5. Chat!NothingLeaks'
    BY <2>1, <2>3
  <2> QED
    BY <2>2, <2>4, <2>5
<1> QED
  BY <1>1, <1>2, <1>3 DEF Chat!OfTask

LEMMA ChatPipelineInv ==
  ASSUME ChatIInv, NEW r \in ChatRuns, Chat!OfPipeline(r)
  PROVE  ChatIInv'
BY DEF Chat!OfPipeline, Chat!Listens, Chat!Puts, Chat!Blocks, Chat!Refused,
       ChatIInv, ChatFunctions, ChatCancelledKnown,
       Chat!NothingLeaks

LEMMA ChatCloseInv ==
  ASSUME ChatIInv, Chat!CloseSession \/ Chat!SessionClosed
  PROVE  ChatIInv'
<1> USE DEF ChatIInv, ChatFunctions, ChatCancelledKnown, Chat!NothingLeaks
<1>1. CASE Chat!CloseSession
  <2>1. /\ \A r \in ChatRuns : r \in chat_victims' <=> chat_run[r] = "open"
        /\ \A r \in ChatRuns : r \in chat_cancelled' => r \in chat_cancelled \/ chat_run[r] = "open"
        /\ UNCHANGED <<chat_run, chat_task, chat_back>>
    BY <1>1 DEF Chat!CloseSession
  <2> QED
    BY <2>1
<1>2. CASE Chat!SessionClosed
  <2>1. \A r \in ChatRuns :
          /\ chat_run'[r] = IF r \in chat_victims /\ chat_run[r] = "open" THEN "closed"
                                                                   ELSE chat_run[r]
          /\ chat_back'[r] = IF chat_back[r] = "open" THEN "removed" ELSE chat_back[r]
    BY <1>2 DEF Chat!SessionClosed, Chat!CloseCollected, Chat!CloseRuns,
                Chat!Removed
  <2>2. ChatFunctions'
    BY <1>2 DEF Chat!SessionClosed, Chat!CloseCollected, Chat!CloseRuns,
                Chat!Removed
  <2>3. UNCHANGED <<chat_task, chat_cancelled>> /\ chat_victims' = {}
    BY <1>2 DEF Chat!SessionClosed
  <2>4. ChatCancelledKnown'
    BY <2>1, <2>3
  <2>5. Chat!NothingLeaks'
    BY <2>1, <2>3
  <2> QED
    BY <2>2, <2>4, <2>5
<1> QED
  BY <1>1, <1>2

LEMMA ChatInvariantHolds == Chat!Spec => []ChatIInv
<1>1. Chat!Init => ChatIInv
  BY DEF Chat!Init, ChatIInv, ChatFunctions, ChatCancelledKnown, Chat!NothingLeaks
<1>2. ChatIInv /\ UNCHANGED Chat!vars => ChatIInv'
  BY DEF ChatIInv, ChatFunctions, ChatCancelledKnown, Chat!NothingLeaks, Chat!vars
<1>3. ChatIInv /\ [Chat!Next]_(Chat!vars) => ChatIInv'
  BY <1>2, ChatRequestInv, ChatTaskInv, ChatPipelineInv, ChatCloseInv DEF Chat!Next
<1> QED
  BY <1>1, <1>3, PTL DEF Chat!Spec

(* run_coordinator.py: a run is indexed no longer than its task lives or   *)
(* close_session is about to close it, also when its task was cancelled    *)
(* before its first step, and a response queue no longer than its run.     *)
THEOREM RunsDoNotLeak == Chat!Spec => []Chat!NothingLeaks
<1>1. ChatIInv => Chat!NothingLeaks
  BY DEF ChatIInv
<1> QED
  BY <1>1, ChatInvariantHolds, PTL

-----------------------------------------------------------------------------
(* Without requests during close_session it has collected all open runs    *)

ChatAllCollected ==
  /\ chat_closer = "waiting" => \A r \in ChatRuns : chat_run[r] = "open" => r \in chat_victims
  /\ Chat!RunHasQueue

LEMMA ChatCollectedStep ==
  ASSUME ~ChatLateRequests, ChatIInv, ChatAllCollected, [Chat!Next]_(Chat!vars)
  PROVE  ChatAllCollected'
<1> USE DEF ChatAllCollected, Chat!RunHasQueue
<1>1. ASSUME NEW r \in ChatRuns, Chat!CreateRun(r)
      PROVE  ChatAllCollected'
  BY <1>1 DEF Chat!CreateRun, ChatIInv, ChatFunctions
<1>2. ASSUME NEW r \in ChatRuns, Chat!Saved(r)
      PROVE  ChatAllCollected'
  BY <1>2 DEF Chat!Saved, Chat!CloseRuns, Chat!Removed
<1>3. ASSUME NEW r \in ChatRuns,
             \/ Chat!Dispatch(r) \/ Chat!Starts(r) \/ Chat!NeverStarts(r)
             \/ Chat!Reads(r) \/ Chat!Gives(r) \/ Chat!OfPipeline(r)
      PROVE  ChatAllCollected'
  BY <1>3 DEF Chat!Dispatch, Chat!Starts, Chat!NeverStarts, Chat!Reads,
              Chat!Gives, Chat!OfPipeline, Chat!Listens, Chat!Puts,
              Chat!Blocks, Chat!Refused
<1>4. CASE Chat!CloseSession
  BY <1>4 DEF Chat!CloseSession
<1>5. CASE Chat!SessionClosed
  BY <1>5 DEF Chat!SessionClosed, Chat!CloseCollected, Chat!CloseRuns, Chat!Removed
<1>6. CASE UNCHANGED Chat!vars
  BY <1>6 DEF Chat!vars
<1> QED
  BY <1>1, <1>2, <1>3, <1>4, <1>5, <1>6 DEF Chat!Next, Chat!OfTask

(* run_coordinator.py ("a request task, its back queue, and its session    *)
(* index always move together"): an active run has its response queue, as  *)
(* long as no request comes in while close_session waits for the tasks.    *)
THEOREM RunsKeepQueues ==
  ASSUME ~ChatLateRequests
  PROVE  Chat!Spec => []Chat!RunHasQueue
<1>1. Chat!Init => ChatAllCollected
  BY DEF Chat!Init, ChatAllCollected, Chat!RunHasQueue
<1>2. ChatIInv /\ ChatAllCollected /\ [Chat!Next]_(Chat!vars) => ChatAllCollected'
  BY ChatCollectedStep
<1>3. ChatAllCollected => Chat!RunHasQueue
  BY DEF ChatAllCollected
<1> QED
  BY <1>1, <1>2, <1>3, ChatInvariantHolds, PTL DEF Chat!Spec

-----------------------------------------------------------------------------
(* A response queue never holds more than its capacity, and every variable *)
(* keeps its type.                                                         *)

LEMMA ChatTypesOfRun ==
  ASSUME Chat!TypeOK, NEW r \in ChatRuns,
         Chat!CreateRun(r) \/ Chat!Dispatch(r) \/ Chat!OfTask(r) \/ Chat!OfPipeline(r)
  PROVE  Chat!TypeOK'
<1> USE DEF Chat!TypeOK
<1>1. CASE Chat!CreateRun(r) \/ Chat!Dispatch(r)
  BY <1>1 DEF Chat!CreateRun, Chat!Dispatch
<1>2. CASE Chat!Starts(r) \/ Chat!NeverStarts(r) \/ Chat!Gives(r)
  BY <1>2 DEF Chat!Starts, Chat!NeverStarts, Chat!Gives
<1>3. CASE Chat!Reads(r)
  <2>1. chat_items[r] - 1 \in 0 .. ChatCapacity
    BY <1>3, ChatAssumption DEF Chat!Reads
  <2> QED
    BY <1>3, <2>1 DEF Chat!Reads
<1>4. CASE Chat!Saved(r)
  BY <1>4 DEF Chat!Saved, Chat!CloseRuns, Chat!Removed
<1>5. CASE Chat!Puts(r)
  <2>1. chat_items[r] + 1 \in 0 .. ChatCapacity
    BY <1>5, ChatAssumption DEF Chat!Puts
  <2> QED
    BY <1>5, <2>1 DEF Chat!Puts
<1>6. CASE Chat!Listens(r) \/ Chat!Blocks(r) \/ Chat!Refused(r)
  BY <1>6 DEF Chat!Listens, Chat!Blocks, Chat!Refused
<1> QED
  BY <1>1, <1>2, <1>3, <1>4, <1>5, <1>6 DEF Chat!OfTask, Chat!OfPipeline

LEMMA ChatTypes == Chat!Spec => []Chat!TypeOK
<1>1. Chat!Init => Chat!TypeOK
  BY ChatAssumption DEF Chat!Init, Chat!TypeOK
<1>2. Chat!TypeOK /\ (Chat!CloseSession \/ Chat!SessionClosed) => Chat!TypeOK'
  BY DEF Chat!TypeOK, Chat!CloseSession, Chat!SessionClosed, Chat!CloseCollected,
         Chat!CloseRuns, Chat!Removed
<1>3. Chat!TypeOK /\ UNCHANGED Chat!vars => Chat!TypeOK'
  BY DEF Chat!TypeOK, Chat!vars
<1>4. Chat!TypeOK /\ [Chat!Next]_(Chat!vars) => Chat!TypeOK'
  BY <1>2, <1>3, ChatTypesOfRun DEF Chat!Next
<1> QED
  BY <1>1, <1>4, PTL DEF Chat!Spec

-----------------------------------------------------------------------------
(* Cron: no job runs without its row, for any runs, deletions and updates.  *)

(* The deletions that have raised the counter of the marker: delete_job    *)
(* calls and one-shot runs that delete themselves.                         *)
JobDeletersIn == {d \in JobDeleters : job_deleter[d] \in {"draining", "erasing"}}
JobRunsErasing == {r \in JobRuns : job_run[r] = "erasing"}

JobShaped ==
  /\ job_run \in [JobRuns -> {"idle", "reading", "marking", "executing", "recording",
                       "unwinding", "erasing", "over"}]
  /\ job_deleter \in [JobDeleters -> {"idle", "draining", "erasing", "done"}]
  /\ job_waits \in [JobDeleters -> SUBSET JobRuns]

(* The marker counts the deletions that are on their way.                  *)
JobMarkerExact ==
  /\ IsFiniteSet(JobDeletersIn)
  /\ IsFiniteSet(JobRunsErasing)
  /\ job_deleting = Cardinality(JobDeletersIn) + Cardinality(JobRunsErasing)

(* One run of the job at a time.                                           *)
JobOneRun ==
  /\ job_cancelled \subseteq Job!Tracked
  /\ \A r \in Job!Tracked : job_busy
  /\ \A r, s \in Job!Tracked : r = s

(* A deletion waits for every run there is, since none begins as long as   *)
(* the marker is set, and has none left when it erases the row.            *)
JobDeletionDrains ==
  \A d \in JobDeleters :
    /\ job_deleter[d] = "draining" => Job!Tracked \subseteq job_waits[d]
    /\ job_deleter[d] = "erasing" => Job!Tracked = {}

(* The row was read when the run was not yet executing.                    *)
JobRowFromReading == \A r \in JobRuns : job_run[r] \in {"marking", "executing"} => job_row

JobIInv == JobShaped /\ JobMarkerExact /\ JobOneRun /\ JobDeletionDrains /\ JobRowFromReading

-----------------------------------------------------------------------------
(* Deletions that begin and end *)

(* Counting one more, one less or as many deletions.                       *)
LEMMA CountMore ==
  ASSUME NEW S, IsFiniteSet(S), NEW x, x \notin S
  PROVE  IsFiniteSet(S \cup {x}) /\ Cardinality(S \cup {x}) = Cardinality(S) + 1
BY FS_AddElement

LEMMA CountLess ==
  ASSUME NEW S, IsFiniteSet(S), NEW x \in S
  PROVE  IsFiniteSet(S \ {x}) /\ Cardinality(S \ {x}) = Cardinality(S) - 1
BY FS_RemoveElement

(* The marker is set while a deletion is on its way.                       *)
LEMMA JobMarkerSet ==
  ASSUME JobMarkerExact
  PROVE  /\ job_deleting \in Nat
         /\ JobDeletersIn # {} \/ JobRunsErasing # {} => job_deleting > 0
<1>1. Cardinality(JobDeletersIn) \in Nat /\ Cardinality(JobRunsErasing) \in Nat
  BY FS_CardinalityType DEF JobMarkerExact
<1>2. /\ Cardinality(JobDeletersIn) = 0 <=> JobDeletersIn = {}
      /\ Cardinality(JobRunsErasing) = 0 <=> JobRunsErasing = {}
  BY FS_EmptySet DEF JobMarkerExact
<1> QED
  BY <1>1, <1>2 DEF JobMarkerExact

-----------------------------------------------------------------------------

LEMMA JobInitInv == Job!Init => JobIInv
<1> SUFFICES ASSUME Job!Init PROVE JobIInv
  OBVIOUS
<1>1. JobDeletersIn = {} /\ JobRunsErasing = {} /\ Job!Tracked = {}
  BY DEF Job!Init, JobDeletersIn, JobRunsErasing, Job!Tracked
<1>2. JobMarkerExact
  BY <1>1, FS_EmptySet DEF Job!Init, JobMarkerExact
<1>3. JobShaped /\ JobOneRun /\ JobDeletionDrains /\ JobRowFromReading
  BY <1>1 DEF Job!Init, JobShaped, JobOneRun, JobDeletionDrains, JobRowFromReading
<1> QED
  BY <1>2, <1>3 DEF JobIInv

LEMMA JobStutterInv == JobIInv /\ UNCHANGED Job!vars => JobIInv'
BY DEF JobIInv, JobShaped, JobMarkerExact, JobOneRun, JobDeletionDrains,
       JobRowFromReading, JobDeletersIn,
       JobRunsErasing, Job!Tracked, Job!vars, Job!jobVars, Job!runVars

(* A step of one run that ends no deletion and begins none.                *)
LEMMA JobSameMarker ==
  ASSUME JobMarkerExact, UNCHANGED <<job_deleting, job_deleter>>, JobRunsErasing' = JobRunsErasing
  PROVE  JobMarkerExact'
BY DEF JobMarkerExact, JobDeletersIn

LEMMA JobBeginsInv ==
  ASSUME JobIInv, NEW r \in JobRuns, NEW byHand \in BOOLEAN, Job!Begins(r, byHand)
  PROVE  JobIInv'
<1> USE DEF JobIInv
<1>1. JobShaped'
  BY DEF Job!Begins, JobShaped
<1>2. JobRunsErasing' = JobRunsErasing
  BY DEF Job!Begins, JobShaped, JobRunsErasing
<1>3. JobMarkerExact'
  BY <1>2, JobSameMarker DEF Job!Begins
<1>4. CASE job_busy \/ job_deleting > 0
  <2>1. Job!Tracked' = Job!Tracked
    BY <1>4 DEF Job!Begins, JobShaped, Job!Tracked
  <2> QED
    BY <1>1, <1>3, <1>4, <2>1
    DEF Job!Begins, JobShaped, JobOneRun, JobDeletionDrains, JobRowFromReading
<1>5. CASE ~(job_busy \/ job_deleting > 0)
  <2>1. Job!Tracked = {} /\ JobDeletersIn = {}
    BY <1>5, JobMarkerSet DEF JobOneRun
  <2>2. Job!Tracked' = {r} /\ job_busy'
    BY <1>5, <2>1 DEF Job!Begins, JobShaped, Job!Tracked
  <2>3. JobOneRun'
    BY <2>1, <2>2 DEF Job!Begins, JobOneRun
  <2>4. \A d \in JobDeleters : job_deleter[d] \notin {"draining", "erasing"}
    BY <2>1 DEF JobDeletersIn
  <2>5. JobDeletionDrains'
    BY <2>4 DEF Job!Begins, JobDeletionDrains
  <2>6. JobRowFromReading'
    BY <1>5 DEF Job!Begins, JobShaped, JobRowFromReading
  <2> QED
    BY <1>1, <1>3, <2>3, <2>5, <2>6
<1> QED
  BY <1>4, <1>5

(* A run goes on, and what it needs of the row was read.                   *)
LEMMA JobGoesInv ==
  ASSUME JobIInv, NEW r \in Job!Tracked,
         NEW pc \in {"reading", "marking", "executing", "recording", "unwinding"},
         Job!Goes(r, pc), job_run[r] # "erasing",
         pc \in {"marking", "executing"} => job_row,
         UNCHANGED <<job_row, job_deleting, job_busy, job_deleter, job_waits>>,
         job_cancelled' \subseteq job_cancelled
  PROVE  JobIInv'
<1> USE DEF JobIInv
<1>1. JobShaped' /\ Job!Tracked' = Job!Tracked /\ JobRunsErasing' = JobRunsErasing
  BY DEF Job!Goes, JobShaped, Job!Tracked, JobRunsErasing
<1>2. JobMarkerExact'
  BY <1>1, JobSameMarker
<1>3. JobOneRun' /\ JobDeletionDrains' /\ JobRowFromReading'
  BY <1>1 DEF Job!Goes, JobShaped, JobOneRun, JobDeletionDrains,
              JobRowFromReading, Job!Tracked
<1> QED
  BY <1>1, <1>2, <1>3

(* A run ends; if it was erasing, its deletion ends with it, whether the   *)
(* row is gone or not.                                                     *)
LEMMA JobLeavesInv ==
  ASSUME JobIInv, NEW r \in Job!Tracked, Job!Leaves(r),
         UNCHANGED <<job_deleter, job_waits>>,
         IF job_run[r] = "erasing" THEN Job!Unmarked ELSE UNCHANGED <<job_row, job_deleting>>
  PROVE  JobIInv'
<1> USE DEF JobIInv
<1>1. JobShaped' /\ Job!Tracked = {r} /\ Job!Tracked' = {}
  BY DEF Job!Leaves, Job!Goes, JobShaped, Job!Tracked, JobOneRun
<1>2. JobOneRun' /\ JobDeletionDrains'
  BY <1>1 DEF Job!Leaves, JobOneRun, JobDeletionDrains
<1>3. JobRowFromReading'
  BY <1>1 DEF Job!Tracked, JobRowFromReading
<1>4. JobMarkerExact'
  <2>1. CASE job_run[r] = "erasing"
    <3>1. JobDeletersIn' = JobDeletersIn
      BY DEF JobDeletersIn
    <3>2. JobRunsErasing' = JobRunsErasing \ {r} /\ r \in JobRunsErasing
      BY <2>1 DEF Job!Leaves, Job!Goes, JobShaped, JobRunsErasing, Job!Tracked
    <3>3. /\ IsFiniteSet(JobRunsErasing')
          /\ Cardinality(JobRunsErasing') = Cardinality(JobRunsErasing) - 1
      BY <3>2, CountLess DEF JobMarkerExact
    <3>4. Cardinality(JobDeletersIn) \in Nat /\ Cardinality(JobRunsErasing) \in Nat
      BY FS_CardinalityType DEF JobMarkerExact
    <3> QED
      BY <2>1, <3>1, <3>3, <3>4 DEF JobMarkerExact, Job!Unmarked
  <2>2. CASE job_run[r] # "erasing"
    <3>1. JobRunsErasing' = JobRunsErasing
      BY <2>2 DEF Job!Leaves, Job!Goes, JobShaped, JobRunsErasing, Job!Tracked
    <3> QED
      BY <2>2, <3>1, JobSameMarker
  <2> QED
    BY <2>1, <2>2
<1> QED
  BY <1>1, <1>2, <1>3, <1>4

(* A one-shot run becomes a deletion of its own job.                       *)
LEMMA JobSelfDeletionInv ==
  ASSUME JobIInv, NEW r \in Job!Tracked, Job!Goes(r, "erasing"), job_run[r] = "recording",
         job_deleting' = job_deleting + 1,
         UNCHANGED <<job_row, job_busy, job_cancelled, job_deleter, job_waits>>
  PROVE  JobIInv'
<1> USE DEF JobIInv
<1>1. JobShaped' /\ Job!Tracked' = Job!Tracked
  BY DEF Job!Goes, JobShaped, Job!Tracked
<1>2. JobRunsErasing' = JobRunsErasing \cup {r} /\ r \notin JobRunsErasing
  BY DEF Job!Goes, JobShaped, JobRunsErasing, Job!Tracked
<1>3. /\ IsFiniteSet(JobRunsErasing')
      /\ Cardinality(JobRunsErasing') = Cardinality(JobRunsErasing) + 1
  BY <1>2, CountMore DEF JobMarkerExact
<1>4. Cardinality(JobDeletersIn) \in Nat /\ Cardinality(JobRunsErasing) \in Nat
  BY FS_CardinalityType DEF JobMarkerExact
<1>5. JobMarkerExact'
  BY <1>3, <1>4 DEF JobMarkerExact, JobDeletersIn
<1>6. JobOneRun' /\ JobDeletionDrains' /\ JobRowFromReading'
  BY <1>1 DEF Job!Goes, JobShaped, JobOneRun, JobDeletionDrains,
              JobRowFromReading, Job!Tracked
<1> QED
  BY <1>1, <1>5, <1>6

LEMMA JobRunInv ==
  ASSUME JobIInv, NEW r \in JobRuns, Job!OfRun(r)
  PROVE  JobIInv'
<1> USE DEF JobIInv
<1>1. \A s \in job_cancelled : s \in Job!Tracked
  BY DEF JobOneRun
<1>2. CASE Job!ReadsRow(r)
  <2>1. r \in Job!Tracked
    BY <1>2 DEF Job!ReadsRow, Job!At, Job!Tracked
  <2>2. CASE job_row /\ (job_enabled \/ r \in job_manual)
    BY <1>2, <2>1, <2>2, JobGoesInv DEF Job!ReadsRow, Job!At, Job!jobVars
  <2>3. CASE ~(job_row /\ (job_enabled \/ r \in job_manual))
    BY <1>2, <2>1, <2>3, JobLeavesInv DEF Job!ReadsRow, Job!At, Job!jobVars
  <2> QED
    BY <2>2, <2>3
<1>3. CASE Job!Marked(r)
  BY <1>3, JobGoesInv DEF Job!Marked, Job!At, Job!Tracked, JobRowFromReading,
                          Job!jobVars
<1>4. CASE Job!Executed(r)
  BY <1>4, JobGoesInv DEF Job!Executed, Job!At, Job!Tracked, Job!jobVars
<1>5. CASE Job!Recorded(r)
  <2>1. r \in Job!Tracked /\ job_run[r] = "recording"
    BY <1>5 DEF Job!Recorded, Job!At, Job!Tracked
  <2>2. CASE job_once /\ r \notin job_manual
    BY <1>5, <2>1, <2>2, JobSelfDeletionInv DEF Job!Recorded
  <2>3. CASE ~(job_once /\ r \notin job_manual)
    BY <1>5, <2>1, <2>3, JobLeavesInv DEF Job!Recorded
  <2> QED
    BY <2>2, <2>3
<1>6. CASE Job!SelfDeleted(r)
  BY <1>6, JobLeavesInv DEF Job!SelfDeleted, Job!At, Job!Tracked
<1>7. CASE Job!Resumes(r)
  <2>1. r \in Job!Tracked
    BY <1>1, <1>7 DEF Job!Resumes
  <2>2. CASE job_run[r] = "executing"
    BY <1>7, <2>1, <2>2, JobGoesInv DEF Job!Resumes
  <2>3. CASE job_run[r] # "executing"
    BY <1>7, <2>1, <2>3, JobLeavesInv DEF Job!Resumes
  <2> QED
    BY <2>2, <2>3
<1>8. CASE Job!Unwound(r)
  BY <1>8, JobLeavesInv DEF Job!Unwound, Job!At, Job!Tracked, Job!jobVars
<1> QED
  BY <1>2, <1>3, <1>4, <1>5, <1>6, <1>7, <1>8 DEF Job!OfRun

LEMMA JobDeleterInv ==
  ASSUME JobIInv, NEW d \in JobDeleters, Job!DeleteBegins(d) \/ Job!Drained(d) \/ Job!Erased(d)
  PROVE  JobIInv'
<1> USE DEF JobIInv
<1>1. Cardinality(JobDeletersIn) \in Nat /\ Cardinality(JobRunsErasing) \in Nat
  BY FS_CardinalityType DEF JobMarkerExact
<1>2. JobShaped'
  BY DEF Job!DeleteBegins, Job!Drained, Job!Erased, JobShaped, Job!Tracked,
         Job!runVars
<1>3. Job!Tracked' = Job!Tracked /\ JobRunsErasing' = JobRunsErasing
  BY DEF Job!DeleteBegins, Job!Drained, Job!Erased, Job!Tracked, JobRunsErasing,
         Job!runVars
<1>4. JobOneRun'
  BY <1>3 DEF Job!DeleteBegins, Job!Drained, Job!Erased, JobOneRun, Job!runVars
<1>5. CASE Job!DeleteBegins(d)
  <2>1. JobDeletersIn' = JobDeletersIn \cup {d} /\ d \notin JobDeletersIn
    BY <1>5 DEF Job!DeleteBegins, JobDeletersIn, JobShaped
  <2>2. /\ IsFiniteSet(JobDeletersIn')
        /\ Cardinality(JobDeletersIn') = Cardinality(JobDeletersIn) + 1
    BY <2>1, CountMore DEF JobMarkerExact
  <2>3. JobMarkerExact'
    BY <1>1, <1>3, <1>5, <2>2 DEF Job!DeleteBegins, JobMarkerExact
  <2>4. JobDeletionDrains' /\ JobRowFromReading'
    BY <1>3, <1>5 DEF Job!DeleteBegins, JobDeletionDrains, JobRowFromReading,
                      JobShaped
  <2> QED
    BY <1>2, <1>4, <2>3, <2>4
<1>6. CASE Job!Drained(d)
  <2>1. JobDeletersIn' = JobDeletersIn
    BY <1>6 DEF Job!Drained, JobDeletersIn, JobShaped
  <2>2. JobMarkerExact'
    BY <1>3, <1>6, <2>1 DEF Job!Drained, JobMarkerExact
  <2>3. Job!Tracked = {}
    BY <1>6 DEF Job!Drained, JobDeletionDrains, Job!Tracked
  <2>4. JobDeletionDrains' /\ JobRowFromReading'
    BY <1>3, <1>6, <2>3
    DEF Job!Drained, JobDeletionDrains, JobRowFromReading, JobShaped, Job!jobVars,
        Job!runVars
  <2> QED
    BY <1>2, <1>4, <2>2, <2>4
<1>7. CASE Job!Erased(d)
  <2>1. JobDeletersIn' = JobDeletersIn \ {d} /\ d \in JobDeletersIn
    BY <1>7 DEF Job!Erased, JobDeletersIn, JobShaped
  <2>2. /\ IsFiniteSet(JobDeletersIn')
        /\ Cardinality(JobDeletersIn') = Cardinality(JobDeletersIn) - 1
    BY <2>1, CountLess DEF JobMarkerExact
  <2>3. JobMarkerExact'
    BY <1>1, <1>3, <1>7, <2>2 DEF Job!Erased, Job!Unmarked, JobMarkerExact
  <2>4. Job!Tracked = {}
    BY <1>7 DEF Job!Erased, JobDeletionDrains
  <2>5. JobDeletionDrains' /\ JobRowFromReading'
    BY <1>3, <1>7, <2>4
    DEF Job!Erased, JobDeletionDrains, JobRowFromReading, JobShaped, Job!Tracked,
        Job!runVars
  <2> QED
    BY <1>2, <1>4, <2>3, <2>5
<1> QED
  BY <1>5, <1>6, <1>7

(* Updates touch neither the row nor the runs.                             *)
LEMMA JobUpdaterInv ==
  ASSUME JobIInv, NEW u \in JobUpdaters,
         Job!UpdateBegins(u) \/ Job!UpdateWrites(u) \/ Job!UpdateSchedules(u)
  PROVE  JobIInv'
<1>1. UNCHANGED <<job_row, job_deleting, job_busy, job_run, job_cancelled, job_deleter, job_waits>>
  BY DEF Job!UpdateBegins, Job!UpdateWrites, Job!UpdateSchedules, Job!jobVars,
         Job!runVars
<1> QED
  BY <1>1 DEF JobIInv, JobShaped, JobMarkerExact, JobOneRun, JobDeletionDrains,
              JobRowFromReading,
              JobDeletersIn, JobRunsErasing, Job!Tracked

(* The marker counts the deletions, one run is tracked, deletions drain,   *)
(* and what executes has read its row: invariant whatever overlaps.        *)
THEOREM JobInvariantHolds == Job!Spec => []JobIInv
<1>1. JobIInv /\ [Job!Next]_(Job!vars) => JobIInv'
  <2> SUFFICES ASSUME JobIInv, [Job!Next]_(Job!vars) PROVE JobIInv'
    OBVIOUS
  <2>1. ASSUME NEW r \in JobRuns, Job!Fires(r) PROVE JobIInv'
    BY <2>1, JobBeginsInv DEF Job!Fires
  <2>2. ASSUME NEW r \in JobRuns, Job!RunNow(r) PROVE JobIInv'
    BY <2>2, JobBeginsInv DEF Job!RunNow
  <2> QED
    BY <2>1, <2>2, JobRunInv, JobDeleterInv, JobUpdaterInv, JobStutterInv
    DEF Job!Next
<1> QED
  BY JobInitInv, <1>1, PTL DEF Job!Spec

(* cron/manager.py: a job executes only as long as its row is there,       *)
(* however deletions, one-shot runs and updates overlap.                   *)
THEOREM RunsHaveRows == Job!Spec => []Job!RunHasRow
<1>1. JobIInv => Job!RunHasRow
  BY DEF JobIInv, JobRowFromReading, Job!RunHasRow
<1> QED
  BY JobInvariantHolds, <1>1, PTL

(* Every variable keeps its type: the marker counts each deletion once, and *)
(* at most one run that deletes its own job.                               *)

JobColumns ==
  /\ job_row \in BOOLEAN /\ job_enabled \in BOOLEAN /\ job_once \in BOOLEAN
  /\ job_scheduled \in BOOLEAN /\ job_busy \in BOOLEAN
  /\ job_manual \in SUBSET JobRuns /\ job_cancelled \in SUBSET JobRuns
  /\ job_updater \in [JobUpdaters -> {"idle", "writing", "enabled", "disabled", "done"}]

LEMMA JobColumnsStep == JobColumns /\ [Job!Next]_(Job!vars) => JobColumns'
<1> SUFFICES ASSUME JobColumns, [Job!Next]_(Job!vars) PROVE JobColumns'
  OBVIOUS
<1> USE DEF JobColumns
<1>1. CASE UNCHANGED Job!vars
  BY <1>1 DEF Job!vars, Job!jobVars, Job!runVars
<1>2. ASSUME NEW r \in JobRuns, NEW byHand \in BOOLEAN, Job!Begins(r, byHand),
             job_scheduled' \in BOOLEAN
      PROVE  JobColumns'
  BY <1>2 DEF Job!Begins
<1>3. ASSUME NEW r \in JobRuns, Job!Fires(r) \/ Job!RunNow(r)
      PROVE  JobColumns'
  <2>1. job_scheduled' \in BOOLEAN
    BY <1>3 DEF Job!Fires, Job!RunNow
  <2>2. CASE Job!Fires(r)
    BY <1>2, <2>1, <2>2 DEF Job!Fires
  <2>3. CASE Job!RunNow(r)
    BY <1>2, <2>1, <2>3 DEF Job!RunNow
  <2> QED
    BY <1>3, <2>2, <2>3
<1>4. ASSUME NEW r \in JobRuns, Job!OfRun(r)
      PROVE  JobColumns'
  <2>1. CASE Job!ReadsRow(r) \/ Job!Marked(r) \/ Job!Executed(r) \/ Job!Unwound(r)
    BY <2>1 DEF Job!ReadsRow, Job!Marked, Job!Executed, Job!Unwound, Job!Leaves, Job!jobVars
  <2>2. CASE Job!Recorded(r)
    BY <2>2 DEF Job!Recorded, Job!Leaves
  <2>3. CASE Job!SelfDeleted(r)
    BY <2>3 DEF Job!SelfDeleted, Job!Leaves
  <2>4. CASE Job!Resumes(r)
    BY <2>4 DEF Job!Resumes, Job!Leaves
  <2> QED
    BY <1>4, <2>1, <2>2, <2>3, <2>4 DEF Job!OfRun
<1>5. ASSUME NEW d \in JobDeleters, Job!DeleteBegins(d) \/ Job!Drained(d) \/ Job!Erased(d)
      PROVE  JobColumns'
  BY <1>5 DEF Job!DeleteBegins, Job!Drained, Job!Erased, Job!jobVars, Job!runVars,
              Job!Tracked
<1>6. ASSUME NEW u \in JobUpdaters,
             Job!UpdateBegins(u) \/ Job!UpdateWrites(u) \/ Job!UpdateSchedules(u)
      PROVE  JobColumns'
  BY <1>6 DEF Job!UpdateBegins, Job!UpdateWrites, Job!UpdateSchedules, Job!jobVars,
              Job!runVars
<1> QED
  BY <1>1, <1>3, <1>4, <1>5, <1>6 DEF Job!Next

LEMMA JobTypes == Job!Spec => []Job!TypeOK
<1>1. Job!Init => JobColumns
  BY DEF Job!Init, JobColumns
<1>2. JobIInv /\ JobColumns => Job!TypeOK
  <2> SUFFICES ASSUME JobIInv, JobColumns PROVE Job!TypeOK
    OBVIOUS
  <2>1. /\ IsFiniteSet(JobDeletersIn) /\ Cardinality(JobDeletersIn) <= Cardinality(JobDeleters)
        /\ Cardinality(JobDeleters) \in Nat /\ Cardinality(JobDeletersIn) \in Nat
    <3>1. JobDeletersIn \subseteq JobDeleters
      BY DEF JobDeletersIn
    <3> QED
      BY <3>1, JobAssumption, FS_Subset, FS_CardinalityType
  <2>2. Cardinality(JobRunsErasing) \in 0 .. 1
    <3>1. CASE JobRunsErasing = {}
      BY <3>1, FS_EmptySet
    <3>2. CASE JobRunsErasing # {}
      <4> PICK r \in JobRunsErasing : TRUE
        BY <3>2
      <4>1. \A s \in JobRunsErasing : s = r
        BY DEF JobIInv, JobOneRun, JobRunsErasing, Job!Tracked
      <4>2. JobRunsErasing = {r}
        BY <4>1
      <4> QED
        BY <4>2, FS_Singleton
    <3> QED
      BY <3>1, <3>2
  <2>3. job_deleting \in 0 .. Cardinality(JobDeleters) + 1
    BY <2>1, <2>2 DEF JobIInv, JobMarkerExact
  <2>4. Job!Cardinality(JobDeleters) = Cardinality(JobDeleters)
    BY DEF Job!Cardinality, Cardinality
  <2> QED
    BY <2>3, <2>4 DEF JobIInv, JobShaped, JobColumns, Job!TypeOK
<1> QED
  BY <1>1, <1>2, JobColumnsStep, JobInvariantHolds, PTL DEF Job!Spec

-----------------------------------------------------------------------------
(* Dispatch: permits do not leak and a stopped platform is quiet, for any   *)
(* events, platforms, background jobs and limit of concurrency.            *)

(* The queue holds every queued event, once, and dispatch has at most one  *)
(* in its hand.                                                            *)
BusQueued ==
  /\ Distinct(bus_queue)
  /\ \A e \in BusEvents : bus_at[e] = "queued" <=> e \in Members(bus_queue)
  /\ \A e \in BusEvents : bus_at[e] = "inHand" <=> bus_hand = e
  /\ bus_granted => bus_hand # BusNoEvent

BusSlots == IsFiniteSet(Bus!Pending) /\ Bus!SlotsExact

(* As long as a platform is stopped nothing of it begins: its pipelines    *)
(* are awaited or gone, and so are its jobs, whose events have the signal. *)
BusStops ==
  \A p \in BusPlatforms :
    /\ bus_stopper[p] # "idle" => p \in bus_stopped
    /\ bus_stopper[p] = "pipelines" =>
         Bus!Pending \cap Bus!EventsOf(p) \subseteq bus_waits[p]
    /\ bus_stopper[p] \in {"jobs", "returned"} =>
         /\ Bus!Pending \cap Bus!EventsOf(p) = {}
         /\ \A j \in Bus!Live \cap Bus!JobsOf(p) : BusJobOf[j] \in bus_signal
    /\ bus_stopper[p] = "jobs" => Bus!Live \cap Bus!JobsOf(p) \subseteq bus_waits[p]
    /\ bus_stopper[p] = "returned" => Bus!Live \cap Bus!JobsOf(p) = {}

BusAsked ==
  /\ Bus!JobsAskedOnce
  /\ \A j \in BusJobs : bus_job[j] = "none" => bus_asked[j] = 0

BusIInv == Bus!TypeOK /\ BusQueued /\ BusSlots /\ BusStops /\ BusAsked

LEMMA BusKept == ASSUME NEW q, NEW S PROVE Bus!Kept(q, S) = Kept(q, S)
BY DEF Bus!Kept, Kept, Bus!KeptUpTo, KeptUpTo

LEMMA BusCardinality == ASSUME NEW S PROVE Bus!Cardinality(S) = Cardinality(S)
BY DEF Bus!Cardinality, Cardinality

LEMMA BusInitInv == Bus!Init => BusIInv
<1> SUFFICES ASSUME Bus!Init PROVE BusIInv
  OBVIOUS
<1> USE DEF Bus!Init
<1>1. Bus!Pending = {} /\ Bus!Live = {}
  BY DEF Bus!Pending, Bus!Live
<1>2. Members(<<>>) = {} /\ Distinct(<<>>) /\ <<>> \in Seq(BusEvents)
  BY DEF Members, Distinct
<1>3. Bus!TypeOK
  <2>1. bus_permits \in 0 .. BusMaxConcurrency /\ 0 \in Nat
    BY BusAssumption
  <2> QED
    BY <1>2, <2>1 DEF Bus!TypeOK
<1>4. BusQueued
  BY <1>2, BusAssumption DEF BusQueued
<1>5. BusSlots
  <2>1. IsFiniteSet(Bus!Pending) /\ Cardinality(Bus!Pending) = 0
    BY <1>1, FS_EmptySet
  <2> QED
    BY <2>1, BusCardinality, BusAssumption DEF BusSlots, Bus!SlotsExact
<1>6. BusStops /\ BusAsked
  BY <1>1 DEF BusStops, BusAsked, Bus!JobsAskedOnce
<1> QED
  BY <1>3, <1>4, <1>5, <1>6 DEF BusIInv

LEMMA BusStutterInv == BusIInv /\ UNCHANGED Bus!vars => BusIInv'
BY DEF BusIInv, Bus!TypeOK, BusQueued, BusSlots, BusStops, BusAsked, Bus!SlotsExact,
       Bus!JobsAskedOnce, Bus!Pending, Bus!Live, Bus!vars, Bus!busVars,
       Bus!registryVars, Bus!stopVars

-----------------------------------------------------------------------------
(* Where an event is, and what that means for the permits *)

PendingAt == {"created", "running", "over"}

LEMMA BusMoves ==
  ASSUME BusIInv, NEW e \in BusEvents, NEW s, bus_at' = [bus_at EXCEPT ![e] = s]
  PROVE  /\ bus_at[e] \notin PendingAt /\ s \in PendingAt =>
              /\ Bus!Pending' = Bus!Pending \cup {e}
              /\ IsFiniteSet(Bus!Pending')
              /\ Cardinality(Bus!Pending') = Cardinality(Bus!Pending) + 1
         /\ bus_at[e] \in PendingAt /\ s \notin PendingAt =>
              /\ Bus!Pending' = Bus!Pending \ {e}
              /\ IsFiniteSet(Bus!Pending')
              /\ Cardinality(Bus!Pending') = Cardinality(Bus!Pending) - 1
         /\ (bus_at[e] \in PendingAt <=> s \in PendingAt) => Bus!Pending' = Bus!Pending
         /\ IsFiniteSet(Bus!Pending)
         /\ Cardinality(Bus!Pending) \in Nat
<1>1. bus_at \in [BusEvents -> {"new", "queued", "inHand", "dropped",
                                "created", "running", "over", "gone"}]
  BY DEF BusIInv, Bus!TypeOK
<1>2. IsFiniteSet(Bus!Pending) /\ Cardinality(Bus!Pending) \in Nat
  BY FS_CardinalityType DEF BusIInv, BusSlots
<1>3. \A x \in BusEvents : bus_at'[x] = IF x = e THEN s ELSE bus_at[x]
  BY <1>1
<1>4. e \in Bus!Pending <=> bus_at[e] \in PendingAt
  BY DEF Bus!Pending, PendingAt
<1>5. CASE bus_at[e] \notin PendingAt /\ s \in PendingAt
  <2>1. Bus!Pending' = Bus!Pending \cup {e}
    BY <1>3, <1>5 DEF Bus!Pending, PendingAt
  <2> QED
    BY <1>2, <1>4, <1>5, <2>1, FS_AddElement
<1>6. CASE bus_at[e] \in PendingAt /\ s \notin PendingAt
  <2>1. Bus!Pending' = Bus!Pending \ {e}
    BY <1>3, <1>6 DEF Bus!Pending, PendingAt
  <2> QED
    BY <1>2, <1>4, <1>6, <2>1, FS_RemoveElement
<1>7. CASE bus_at[e] \in PendingAt <=> s \in PendingAt
  BY <1>2, <1>3, <1>7 DEF Bus!Pending, PendingAt
<1> QED
  BY <1>2, <1>5, <1>6, <1>7

(* A permit more and a pipeline task less, and the like: the sum stays.    *)
LEMMA BusSlotsKept ==
  ASSUME BusIInv, IsFiniteSet(Bus!Pending'), bus_granted' \in BOOLEAN,
         bus_permits' \in Nat,
         bus_permits' + Cardinality(Bus!Pending') + (IF bus_granted' THEN 1 ELSE 0) =
           bus_permits + Cardinality(Bus!Pending) + (IF bus_granted THEN 1 ELSE 0)
  PROVE  BusSlots' /\ bus_permits' \in 0 .. BusMaxConcurrency
<1>1. Cardinality(Bus!Pending') \in Nat
  BY FS_CardinalityType
<1>2. bus_permits + Cardinality(Bus!Pending) + (IF bus_granted THEN 1 ELSE 0)
        = BusMaxConcurrency
  BY BusCardinality DEF BusIInv, BusSlots, Bus!SlotsExact
<1>3. bus_permits' + Cardinality(Bus!Pending') + (IF bus_granted' THEN 1 ELSE 0)
        = BusMaxConcurrency
  BY <1>2
<1>4. bus_permits' \in 0 .. BusMaxConcurrency
  <2>1. (IF bus_granted' THEN 1 ELSE 0) \in Nat
    OBVIOUS
  <2> QED
    BY <1>1, <1>3, <2>1, BusAssumption
<1>5. Bus!Cardinality(Bus!Pending') = Cardinality(Bus!Pending')
  BY BusCardinality
<1> QED
  BY <1>3, <1>4, <1>5 DEF BusSlots, Bus!SlotsExact

(* What stays true of the stopped platforms when events move: no pipeline  *)
(* task of one of them begins.                                             *)
LEMMA BusStopsKept ==
  ASSUME BusIInv, UNCHANGED <<Bus!stopVars, bus_signal, bus_job>>,
         \A e \in Bus!Pending' \ Bus!Pending : BusPlatformOf[e] \notin bus_stopped
  PROVE  BusStops'
<1>1. UNCHANGED <<bus_stopped, bus_stopper, bus_waits, bus_signal, bus_job>>
      /\ Bus!Live' = Bus!Live
  BY DEF Bus!stopVars, Bus!Live
<1>2. \A p \in BusPlatforms : bus_stopper[p] # "idle" =>
        Bus!Pending' \cap Bus!EventsOf(p) \subseteq Bus!Pending
  BY DEF BusIInv, BusStops, Bus!EventsOf
<1> QED
  BY <1>1, <1>2 DEF BusIInv, BusStops, Bus!EventsOf, Bus!JobsOf

(* dispatch, up to the pipeline task of an event.                          *)
LEMMA BusTaken ==
  ASSUME BusIInv, NEW e \in BusEvents, Bus!Taken(e)
  PROVE  /\ bus_queue' \in Seq(BusEvents) /\ Distinct(bus_queue')
         /\ Members(bus_queue') = Members(bus_queue) \ {e}
         /\ bus_at[e] = "queued" /\ bus_hand = BusNoEvent
<1>1. bus_queue \in Seq(BusEvents) /\ Distinct(bus_queue) /\ bus_queue # <<>>
      /\ e = Head(bus_queue) /\ bus_queue' = Tail(bus_queue) /\ bus_hand = BusNoEvent
  BY DEF BusIInv, Bus!TypeOK, BusQueued, Bus!Taken
<1> QED
  BY <1>1, TailKeeps DEF BusIInv, BusQueued

LEMMA BusGetInv ==
  ASSUME BusIInv, NEW e \in BusEvents,
         Bus!GetDrops(e) \/ Bus!GetStarts(e) \/ Bus!GetWaits(e)
  PROVE  BusIInv'
<1>1. Bus!Taken(e)
  BY DEF Bus!GetDrops, Bus!GetStarts, Bus!GetWaits
<1>2. /\ bus_queue' \in Seq(BusEvents) /\ Distinct(bus_queue')
      /\ Members(bus_queue') = Members(bus_queue) \ {e}
      /\ bus_at[e] = "queued" /\ bus_hand = BusNoEvent
  BY <1>1, BusTaken
<1>3. UNCHANGED <<bus_granted, bus_cancelled, Bus!registryVars, Bus!stopVars>>
  BY DEF Bus!GetDrops, Bus!GetStarts, Bus!GetWaits
<1>4. UNCHANGED <<bus_active, bus_signal, bus_job, bus_asked, bus_stopped,
                  bus_stopper, bus_waits>>
  BY <1>3 DEF Bus!registryVars, Bus!stopVars
<1>5. bus_granted = FALSE /\ bus_permits \in Nat /\ BusNoEvent \notin BusEvents
  BY <1>2, BusAssumption DEF BusIInv, Bus!TypeOK, BusQueued
<1>6. PICK s \in {"dropped", "created", "inHand"} :
        /\ bus_at' = [bus_at EXCEPT ![e] = s]
        /\ bus_hand' = IF s = "inHand" THEN e ELSE BusNoEvent
        /\ bus_permits' = IF s = "created" THEN bus_permits - 1 ELSE bus_permits
        /\ s = "created" => bus_permits > 0 /\ BusPlatformOf[e] \notin bus_stopped
  BY <1>2 DEF Bus!GetDrops, Bus!GetStarts, Bus!GetWaits, Bus!Served
<1>7. \A x \in BusEvents : bus_at'[x] = IF x = e THEN s ELSE bus_at[x]
  BY <1>6 DEF BusIInv, Bus!TypeOK
<1>8. /\ s = "created" => /\ Bus!Pending' = Bus!Pending \cup {e}
                          /\ IsFiniteSet(Bus!Pending')
                          /\ Cardinality(Bus!Pending') = Cardinality(Bus!Pending) + 1
      /\ s # "created" => Bus!Pending' = Bus!Pending
      /\ IsFiniteSet(Bus!Pending)
      /\ Cardinality(Bus!Pending) \in Nat
  BY <1>2, <1>6, BusMoves DEF PendingAt
<1>9. BusSlots' /\ bus_permits' \in 0 .. BusMaxConcurrency
  <2>1. bus_granted' = FALSE /\ bus_permits' \in Nat
    BY <1>3, <1>5, <1>6
  <2>2. IsFiniteSet(Bus!Pending') /\ bus_permits' + Cardinality(Bus!Pending')
                                       = bus_permits + Cardinality(Bus!Pending)
    BY <1>5, <1>6, <1>8
  <2> QED
    BY <1>5, <2>1, <2>2, BusSlotsKept
<1>10. BusStops'
  BY <1>3, <1>4, <1>6, <1>8, BusStopsKept
<1>11. BusQueued'
  BY <1>2, <1>4, <1>5, <1>6, <1>7, <1>3 DEF BusIInv, BusQueued
<1>12. Bus!TypeOK'
  BY <1>2, <1>3, <1>4, <1>6, <1>9 DEF BusIInv, Bus!TypeOK
<1>13. BusAsked'
  BY <1>4 DEF BusIInv, BusAsked, Bus!JobsAskedOnce, Bus!Live
<1> QED
  BY <1>9, <1>10, <1>11, <1>12, <1>13 DEF BusIInv


LEMMA BusReceiveInv ==
  ASSUME BusIInv, NEW e \in BusEvents, Bus!Receive(e)
  PROVE  BusIInv'
<1>1. /\ bus_at[e] = "new" /\ bus_at' = [bus_at EXCEPT ![e] = "queued"]
      /\ bus_queue' = Append(bus_queue, e)
      /\ UNCHANGED <<bus_hand, bus_granted, bus_permits, bus_cancelled,
                     Bus!registryVars, Bus!stopVars>>
  BY DEF Bus!Receive
<1>2. UNCHANGED <<bus_active, bus_signal, bus_job, bus_asked, bus_stopped,
                  bus_stopper, bus_waits>>
  BY <1>1 DEF Bus!registryVars, Bus!stopVars
<1>3. \A x \in BusEvents : bus_at'[x] = IF x = e THEN "queued" ELSE bus_at[x]
  BY <1>1 DEF BusIInv, Bus!TypeOK
<1>4. Bus!Pending' = Bus!Pending /\ IsFiniteSet(Bus!Pending)
  <2>1. bus_at[e] \in PendingAt <=> "queued" \in PendingAt
    BY <1>1 DEF PendingAt
  <2>2. bus_at' = [bus_at EXCEPT ![e] = "queued"]
    BY <1>1
  <2> QED
    BY <2>1, <2>2, BusMoves
<1>5. /\ bus_queue' \in Seq(BusEvents) /\ Distinct(bus_queue')
      /\ Members(bus_queue') = Members(bus_queue) \cup {e}
  <2>1. bus_queue \in Seq(BusEvents) /\ Distinct(bus_queue) /\ e \notin Members(bus_queue)
    BY <1>1 DEF BusIInv, Bus!TypeOK, BusQueued
  <2> QED
    BY <1>1, <2>1, MembersAppend, AppendProperties
<1>6. BusSlots'
  BY <1>1, <1>4 DEF BusIInv, BusSlots, Bus!SlotsExact
<1>7. BusStops'
  BY <1>1, <1>2, <1>4, BusStopsKept
<1>8. BusQueued'
  BY <1>1, <1>3, <1>5 DEF BusIInv, BusQueued
<1>9. Bus!TypeOK'
  BY <1>1, <1>2, <1>5 DEF BusIInv, Bus!TypeOK
<1>10. BusAsked'
  BY <1>2 DEF BusIInv, BusAsked, Bus!JobsAskedOnce, Bus!Live
<1> QED
  BY <1>6, <1>7, <1>8, <1>9, <1>10 DEF BusIInv

(* A permit was passed on to dispatch.                                     *)
LEMMA BusResumeInv ==
  ASSUME BusIInv, NEW e \in BusEvents, Bus!Resume(e)
  PROVE  BusIInv'
<1>1. /\ bus_hand = e /\ bus_granted = TRUE
      /\ bus_hand' = BusNoEvent /\ bus_granted' = FALSE
      /\ UNCHANGED <<bus_queue, bus_cancelled, Bus!registryVars, Bus!stopVars>>
  BY DEF Bus!Resume, BusIInv, Bus!TypeOK
<1>2. UNCHANGED <<bus_active, bus_signal, bus_job, bus_asked, bus_stopped,
                  bus_stopper, bus_waits>>
  BY <1>1 DEF Bus!registryVars, Bus!stopVars
<1>3. bus_permits \in Nat /\ BusNoEvent \notin BusEvents /\ bus_at[e] = "inHand"
  BY <1>1, BusAssumption DEF BusIInv, Bus!TypeOK, BusQueued
<1>4. PICK s \in {"dropped", "created"} :
        /\ bus_at' = [bus_at EXCEPT ![e] = s]
        /\ bus_permits' = IF s = "created" THEN bus_permits ELSE bus_permits + 1
        /\ s = "created" => BusPlatformOf[e] \notin bus_stopped
  BY DEF Bus!Resume, Bus!AfterWait, Bus!StartAfterWait, Bus!DropAfterWait
<1>5. \A x \in BusEvents : bus_at'[x] = IF x = e THEN s ELSE bus_at[x]
  BY <1>4 DEF BusIInv, Bus!TypeOK
<1>6. /\ s = "created" => /\ Bus!Pending' = Bus!Pending \cup {e}
                          /\ IsFiniteSet(Bus!Pending')
                          /\ Cardinality(Bus!Pending') = Cardinality(Bus!Pending) + 1
      /\ s # "created" => Bus!Pending' = Bus!Pending
      /\ IsFiniteSet(Bus!Pending)
      /\ Cardinality(Bus!Pending) \in Nat
  BY <1>3, <1>4, BusMoves DEF PendingAt
<1>7. BusSlots' /\ bus_permits' \in 0 .. BusMaxConcurrency
  <2>1. bus_permits' \in Nat
    BY <1>3, <1>4
  <2>2. IsFiniteSet(Bus!Pending') /\ bus_permits' + Cardinality(Bus!Pending')
                                       = bus_permits + Cardinality(Bus!Pending) + 1
    BY <1>3, <1>4, <1>6
  <2>3. (IF bus_granted' THEN 1 ELSE 0) = 0 /\ (IF bus_granted THEN 1 ELSE 0) = 1
        /\ bus_granted' \in BOOLEAN
    BY <1>1
  <2>4. Cardinality(Bus!Pending') \in Nat
    BY <2>2, FS_CardinalityType
  <2>5. bus_permits' + Cardinality(Bus!Pending') + (IF bus_granted' THEN 1 ELSE 0) =
          bus_permits + Cardinality(Bus!Pending) + (IF bus_granted THEN 1 ELSE 0)
    BY <1>3, <1>6, <2>1, <2>2, <2>3, <2>4
  <2> QED
    BY <2>1, <2>2, <2>3, <2>5, BusSlotsKept
<1>8. BusStops'
  BY <1>1, <1>2, <1>4, <1>6, BusStopsKept
<1>9. BusQueued'
  BY <1>1, <1>3, <1>4, <1>5 DEF BusIInv, BusQueued
<1>10. Bus!TypeOK'
  BY <1>1, <1>2, <1>4, <1>7 DEF BusIInv, Bus!TypeOK
<1>11. BusAsked'
  BY <1>2 DEF BusIInv, BusAsked, Bus!JobsAskedOnce, Bus!Live
<1> QED
  BY <1>7, <1>8, <1>9, <1>10, <1>11 DEF BusIInv

(* The pipeline task of an event, until its callback.                      *)
LEMMA BusTaskInv ==
  ASSUME BusIInv, NEW e \in BusEvents,
         Bus!TaskStarts(e) \/ Bus!TaskNeverStarts(e) \/ Bus!TaskEnds(e)
  PROVE  BusIInv'
<1>1. PICK s \in PendingAt : bus_at[e] \in PendingAt /\ bus_at' = [bus_at EXCEPT ![e] = s]
  BY DEF Bus!TaskStarts, Bus!TaskNeverStarts, Bus!TaskEnds, PendingAt
<1>2. /\ UNCHANGED <<bus_queue, bus_hand, bus_granted, bus_permits, bus_cancelled,
                     bus_signal, bus_job, bus_asked, Bus!stopVars>>
      /\ bus_active' \in SUBSET BusEvents
  BY DEF Bus!TaskStarts, Bus!TaskNeverStarts, Bus!TaskEnds, Bus!busVars,
         Bus!registryVars, BusIInv, Bus!TypeOK
<1>3. UNCHANGED <<bus_stopped, bus_stopper, bus_waits>>
  BY <1>2 DEF Bus!stopVars
<1>4. \A x \in BusEvents : bus_at'[x] = IF x = e THEN s ELSE bus_at[x]
  BY <1>1 DEF BusIInv, Bus!TypeOK
<1>5. Bus!Pending' = Bus!Pending /\ IsFiniteSet(Bus!Pending)
  BY <1>1, BusMoves
<1>6. BusSlots'
  BY <1>2, <1>5 DEF BusIInv, BusSlots, Bus!SlotsExact
<1>7. BusStops'
  BY <1>2, <1>5, BusStopsKept
<1>8. BusQueued'
  BY <1>1, <1>2, <1>4 DEF BusIInv, BusQueued, PendingAt
<1>9. Bus!TypeOK'
  BY <1>1, <1>2, <1>3 DEF BusIInv, Bus!TypeOK, PendingAt
<1>10. BusAsked'
  BY <1>2 DEF BusIInv, BusAsked, Bus!JobsAskedOnce, Bus!Live
<1> QED
  BY <1>6, <1>7, <1>8, <1>9, <1>10 DEF BusIInv

(* The callback gives the permit back.                                     *)
LEMMA BusDoneInv ==
  ASSUME BusIInv, NEW e \in BusEvents, Bus!TaskDone(e)
  PROVE  BusIInv'
<1>1. /\ bus_at[e] = "over" /\ bus_at' = [bus_at EXCEPT ![e] = "gone"]
      /\ UNCHANGED <<bus_queue, bus_hand, bus_cancelled, Bus!registryVars, Bus!stopVars>>
      /\ \/ bus_hand # BusNoEvent /\ bus_granted = FALSE /\ bus_granted' = TRUE
            /\ bus_permits' = bus_permits
         \/ bus_permits' = bus_permits + 1 /\ bus_granted' = bus_granted
  BY DEF Bus!TaskDone, Bus!Released, BusIInv, Bus!TypeOK
<1>2. UNCHANGED <<bus_active, bus_signal, bus_job, bus_asked, bus_stopped,
                  bus_stopper, bus_waits>>
  BY <1>1 DEF Bus!registryVars, Bus!stopVars
<1>3. \A x \in BusEvents : bus_at'[x] = IF x = e THEN "gone" ELSE bus_at[x]
  BY <1>1 DEF BusIInv, Bus!TypeOK
<1>4. /\ Bus!Pending' = Bus!Pending \ {e} /\ IsFiniteSet(Bus!Pending')
      /\ Cardinality(Bus!Pending') = Cardinality(Bus!Pending) - 1
      /\ Cardinality(Bus!Pending) \in Nat
  <2>1. bus_at[e] \in PendingAt /\ "gone" \notin PendingAt
    BY <1>1 DEF PendingAt
  <2>2. bus_at' = [bus_at EXCEPT ![e] = "gone"]
    BY <1>1
  <2>3. /\ bus_at[e] \in PendingAt /\ "gone" \notin PendingAt =>
             /\ Bus!Pending' = Bus!Pending \ {e}
             /\ IsFiniteSet(Bus!Pending')
             /\ Cardinality(Bus!Pending') = Cardinality(Bus!Pending) - 1
        /\ Cardinality(Bus!Pending) \in Nat
    BY <2>2, BusMoves, Zenon
  <2> QED
    BY <2>1, <2>3
<1>5. bus_granted' \in BOOLEAN /\ bus_granted \in BOOLEAN /\ bus_permits \in Nat
  <2>1. bus_granted \in BOOLEAN /\ bus_permits \in Nat
    BY BusAssumption DEF BusIInv, Bus!TypeOK
  <2> QED
    BY <1>1, <2>1
<1>6. BusSlots' /\ bus_permits' \in 0 .. BusMaxConcurrency
  <2>1. CASE bus_granted = FALSE /\ bus_granted' = TRUE /\ bus_permits' = bus_permits
    <3>1. bus_permits' \in Nat /\ (IF bus_granted THEN 1 ELSE 0) = 0
          /\ (IF bus_granted' THEN 1 ELSE 0) = 1
      BY <1>5, <2>1
    <3>2. bus_permits' + Cardinality(Bus!Pending') + (IF bus_granted' THEN 1 ELSE 0) =
            bus_permits + Cardinality(Bus!Pending) + (IF bus_granted THEN 1 ELSE 0)
      BY <1>4, <1>5, <2>1, <3>1
    <3> QED
      BY <1>4, <1>5, <3>1, <3>2, BusSlotsKept
  <2>2. CASE bus_permits' = bus_permits + 1 /\ bus_granted' = bus_granted
    <3>1. (IF bus_granted THEN 1 ELSE 0) \in Nat
      OBVIOUS
    <3>2. bus_permits' \in Nat
      BY <1>5, <2>2
    <3>3. bus_permits' + Cardinality(Bus!Pending') + (IF bus_granted' THEN 1 ELSE 0) =
            bus_permits + Cardinality(Bus!Pending) + (IF bus_granted THEN 1 ELSE 0)
      BY <1>4, <1>5, <2>2, <3>1
    <3> QED
      BY <1>4, <1>5, <3>2, <3>3, BusSlotsKept
  <2> QED
    BY <1>1, <2>1, <2>2
<1>7. BusStops'
  BY <1>1, <1>2, <1>4, BusStopsKept
<1>8. BusQueued'
  BY <1>1, <1>3 DEF BusIInv, BusQueued
<1>9. Bus!TypeOK'
  BY <1>1, <1>2, <1>5, <1>6 DEF BusIInv, Bus!TypeOK
<1>10. BusAsked'
  BY <1>2 DEF BusIInv, BusAsked, Bus!JobsAskedOnce, Bus!Live
<1> QED
  BY <1>6, <1>7, <1>8, <1>9, <1>10 DEF BusIInv

-----------------------------------------------------------------------------
(* Background jobs and stop requests *)

(* Steps that leave the events where they are.                             *)
LEMMA BusElsewhere ==
  ASSUME BusIInv, UNCHANGED <<bus_at, bus_cancelled, Bus!busVars>>
  PROVE  /\ Bus!Pending' = Bus!Pending
         /\ BusQueued' /\ BusSlots'
         /\ UNCHANGED <<bus_queue, bus_hand, bus_granted, bus_permits>>
BY DEF BusIInv, BusQueued, BusSlots, Bus!SlotsExact, Bus!Pending, Bus!busVars

LEMMA BusJobInv ==
  ASSUME BusIInv, NEW j \in BusJobs, Bus!Submit(j) \/ Bus!JobWakes(j) \/ Bus!JobEnds(j)
  PROVE  BusIInv'
<1>1. UNCHANGED <<bus_at, bus_cancelled, Bus!busVars, bus_active, bus_signal, bus_asked,
                  bus_stopped, bus_stopper, bus_waits>>
  BY DEF Bus!Submit, Bus!JobWakes, Bus!JobEnds, Bus!stopVars
<1>2. /\ Bus!Pending' = Bus!Pending
      /\ BusQueued' /\ BusSlots'
      /\ UNCHANGED <<bus_queue, bus_hand, bus_granted, bus_permits>>
  BY <1>1, BusElsewhere
<1>3. PICK s \in {"working", "waking", "over"} :
        /\ bus_job' = [bus_job EXCEPT ![j] = s]
        /\ bus_job[j] # "none" => j \in Bus!Live
        /\ bus_job[j] = "none" =>
             /\ s = "working" /\ BusJobOf[j] \notin bus_signal
             /\ \/ bus_at[BusJobOf[j]] = "running"
                \/ \E i \in Bus!Live : BusJobOf[i] = BusJobOf[j]
  BY DEF Bus!Submit, Bus!JobWakes, Bus!JobEnds, Bus!Live
<1>4. \A i \in BusJobs : bus_job'[i] = IF i = j THEN s ELSE bus_job[i]
  BY <1>3 DEF BusIInv, Bus!TypeOK
<1>5. Bus!Live' \subseteq Bus!Live \cup {j}
  BY <1>4 DEF Bus!Live
<1>6. Bus!TypeOK'
  BY <1>1, <1>2, <1>3 DEF BusIInv, Bus!TypeOK
<1>7. BusAsked'
  BY <1>1, <1>3, <1>4 DEF BusIInv, BusAsked, Bus!JobsAskedOnce, Bus!Live
<1>8. BusStops'
  <2>1. CASE bus_job[j] # "none"
    <3>1. Bus!Live' \subseteq Bus!Live
      BY <1>3, <1>5, <2>1
    <3> QED
      BY <1>1, <1>2, <3>1 DEF BusIInv, BusStops, Bus!EventsOf, Bus!JobsOf
  <2>2. CASE bus_job[j] = "none"
    <3>1. BusJobOf[j] \in BusEvents /\ BusPlatformOf[BusJobOf[j]] \in BusPlatforms
      BY BusAssumption
    <3>2. bus_stopper[BusPlatformOf[BusJobOf[j]]] \notin {"jobs", "returned"}
      <4>1. CASE bus_at[BusJobOf[j]] = "running"
        <5>1. BusJobOf[j] \in Bus!Pending \cap Bus!EventsOf(BusPlatformOf[BusJobOf[j]])
          BY <3>1, <4>1 DEF Bus!Pending, Bus!EventsOf
        <5> QED
          BY <3>1, <5>1 DEF BusIInv, BusStops
      <4>2. CASE \E i \in Bus!Live : BusJobOf[i] = BusJobOf[j]
        <5> PICK i \in Bus!Live : BusJobOf[i] = BusJobOf[j]
          BY <4>2
        <5>1. i \in Bus!Live \cap Bus!JobsOf(BusPlatformOf[BusJobOf[j]])
          BY DEF Bus!JobsOf, Bus!Live
        <5>2. BusJobOf[i] \notin bus_signal
          BY <1>3, <2>2
        <5> QED
          BY <3>1, <5>1, <5>2 DEF BusIInv, BusStops
      <4> QED
        BY <1>3, <2>2, <4>1, <4>2
    <3>3. \A p \in BusPlatforms : bus_stopper[p] \in {"jobs", "returned"} =>
            Bus!Live' \cap Bus!JobsOf(p) \subseteq Bus!Live
      BY <1>5, <3>2 DEF Bus!JobsOf
    <3> QED
      BY <1>1, <1>2, <3>3 DEF BusIInv, BusStops, Bus!EventsOf, Bus!JobsOf
  <2> QED
    BY <2>1, <2>2
<1> QED
  BY <1>2, <1>6, <1>7, <1>8 DEF BusIInv

(* A request sets the signal of the events it reaches and cancels their    *)
(* jobs, each once.                                                        *)
LEMMA BusAsks ==
  ASSUME BusIInv, NEW p \in BusPlatforms, NEW x, Bus!StopAgents(p, x),
         bus_job' = bus_job, \A j \in Bus!Live : BusJobOf[j] # x
  PROVE  /\ BusAsked'
         /\ bus_asked' \in [BusJobs -> Nat]
         /\ bus_signal \subseteq bus_signal' /\ bus_signal' \in SUBSET BusEvents
         /\ \A j \in Bus!Live \cap Bus!JobsOf(p) : BusJobOf[j] \in bus_signal'
<1>1. /\ bus_active \in SUBSET BusEvents /\ bus_signal \in SUBSET BusEvents
      /\ bus_asked \in [BusJobs -> Nat]
      /\ BusJobOf \in [BusJobs -> BusEvents]
  BY BusAssumption DEF BusIInv, Bus!TypeOK
<1>2. Bus!Live \subseteq BusJobs /\ Bus!Live' = Bus!Live
  BY DEF Bus!Live
<1>3. bus_signal' = bus_signal \cup Bus!Reached(p, x)
      /\ bus_asked' = [j \in BusJobs |->
                         IF j \in Bus!Live \cap Bus!JobsOf(p) /\ BusJobOf[j] # x
                              /\ bus_asked[j] = 0
                           THEN bus_asked[j] + 1 ELSE bus_asked[j]]
  BY DEF Bus!StopAgents, Bus!Asked
<1>4. \A j \in Bus!Live :
        BusJobOf[j] \in bus_signal' <=> BusJobOf[j] \in bus_signal \/ BusJobOf[j] \in Bus!Reached(p, x)
  BY <1>3
<1>5. \A j \in Bus!Live \cap Bus!JobsOf(p) : BusJobOf[j] \in Bus!Reached(p, x)
  BY DEF Bus!Reached
<1>6. \A j \in Bus!Live : BusJobOf[j] \in Bus!Reached(p, x) => j \in Bus!JobsOf(p)
  BY <1>2 DEF Bus!Reached, Bus!EventsOf, Bus!JobsOf
<1>7. BusAsked'
  <2>1. \A j \in Bus!Live : bus_asked[j] = IF BusJobOf[j] \in bus_signal THEN 1 ELSE 0
    BY DEF BusIInv, BusAsked, Bus!JobsAskedOnce
  <2>2. \A j \in Bus!Live : bus_asked'[j] = IF BusJobOf[j] \in bus_signal' THEN 1 ELSE 0
    BY <1>2, <1>3, <1>4, <1>5, <1>6, <2>1
  <2>3. \A j \in BusJobs : bus_job'[j] = "none" => bus_asked'[j] = 0
    BY <1>3 DEF BusIInv, BusAsked, Bus!Live
  <2> QED
    BY <1>2, <2>2, <2>3 DEF BusAsked, Bus!JobsAskedOnce
<1>8. bus_asked' \in [BusJobs -> Nat]
  BY <1>1, <1>3
<1>9. Bus!Reached(p, x) \subseteq BusEvents
  BY <1>1, <1>2 DEF Bus!Reached
<1> QED
  BY <1>1, <1>3, <1>5, <1>7, <1>8, <1>9

LEMMA BusRequestInv ==
  ASSUME BusIInv, NEW p \in BusPlatforms, NEW x \in BusEvents \cup {BusNoEvent},
         Bus!RequestStop(p, x)
  PROVE  BusIInv'
<1>1. /\ Bus!StopAgents(p, x)
      /\ UNCHANGED <<bus_at, bus_cancelled, Bus!busVars, bus_active, bus_job,
                     bus_stopped, bus_stopper, bus_waits>>
  BY DEF Bus!RequestStop, Bus!stopVars
<1>2. \A j \in Bus!Live : BusJobOf[j] # x
  BY BusAssumption DEF Bus!RequestStop, Bus!Live
<1>3. /\ BusAsked'
      /\ bus_asked' \in [BusJobs -> Nat]
      /\ bus_signal \subseteq bus_signal' /\ bus_signal' \in SUBSET BusEvents
  BY <1>1, <1>2, BusAsks
<1>4. /\ Bus!Pending' = Bus!Pending
      /\ BusQueued' /\ BusSlots'
      /\ UNCHANGED <<bus_queue, bus_hand, bus_granted, bus_permits>>
  BY <1>1, BusElsewhere
<1>5. Bus!TypeOK'
  BY <1>1, <1>3, <1>4 DEF BusIInv, Bus!TypeOK
<1>6. BusStops'
  BY <1>1, <1>3, <1>4 DEF BusIInv, BusStops, Bus!EventsOf, Bus!JobsOf, Bus!Live
<1> QED
  BY <1>3, <1>4, <1>5, <1>6 DEF BusIInv

(* What is queued for the platform leaves the queue, what runs is awaited. *)
LEMMA BusStopPlatformInv ==
  ASSUME BusIInv, NEW p \in BusPlatforms, Bus!StopPlatform(p)
  PROVE  BusIInv'
<1>1. /\ bus_stopper[p] = "idle"
      /\ bus_stopper' = [bus_stopper EXCEPT ![p] = "pipelines"]
      /\ bus_stopped' = bus_stopped \cup {p}
      /\ bus_queue' = Kept(bus_queue, BusEvents \ Bus!EventsOf(p))
      /\ bus_at' = [e \in BusEvents |->
                      IF bus_at[e] = "queued" /\ BusPlatformOf[e] = p
                        THEN "dropped" ELSE bus_at[e]]
      /\ bus_waits' = [bus_waits EXCEPT ![p] = Bus!Pending \cap Bus!EventsOf(p)]
      /\ bus_cancelled' \subseteq bus_cancelled \cup BusEvents
      /\ UNCHANGED <<bus_hand, bus_granted, bus_permits, bus_active, bus_signal,
                     bus_job, bus_asked>>
  BY BusKept DEF Bus!StopPlatform, Bus!registryVars, Bus!EventsOf
<1>2. Bus!Pending' = Bus!Pending /\ Bus!Live' = Bus!Live
  BY <1>1 DEF BusIInv, Bus!TypeOK, Bus!Pending, Bus!Live
<1>3. /\ bus_queue' \in Seq(BusEvents) /\ Distinct(bus_queue')
      /\ Members(bus_queue') = Members(bus_queue) \cap (BusEvents \ Bus!EventsOf(p))
  <2>1. bus_queue \in Seq(BusEvents) /\ Distinct(bus_queue)
    BY DEF BusIInv, Bus!TypeOK, BusQueued
  <2> QED
    BY <1>1, <2>1, KeptMembers
<1>4. BusQueued'
  BY <1>1, <1>3 DEF BusIInv, BusQueued, Bus!EventsOf
<1>5. BusSlots'
  BY <1>1, <1>2 DEF BusIInv, BusSlots, Bus!SlotsExact
<1>6. BusStops'
  <2>1. /\ bus_stopper'[p] = "pipelines" /\ p \in bus_stopped'
        /\ bus_waits'[p] = Bus!Pending \cap Bus!EventsOf(p)
    BY <1>1 DEF BusIInv, Bus!TypeOK
  <2>2. \A q \in BusPlatforms : q # p =>
          /\ bus_stopper'[q] = bus_stopper[q] /\ bus_waits'[q] = bus_waits[q]
          /\ q \in bus_stopped => q \in bus_stopped'
    BY <1>1 DEF BusIInv, Bus!TypeOK
  <2> QED
    BY <1>1, <1>2, <2>1, <2>2 DEF BusIInv, BusStops, Bus!EventsOf, Bus!JobsOf
<1>7. Bus!TypeOK'
  <2>1. Bus!Pending \cap Bus!EventsOf(p) \subseteq BusEvents \cup BusJobs
    BY DEF Bus!Pending
  <2> QED
    BY <1>1, <1>3, <2>1 DEF BusIInv, Bus!TypeOK
<1>8. BusAsked'
  BY <1>1, <1>2 DEF BusIInv, BusAsked, Bus!JobsAskedOnce
<1> QED
  BY <1>4, <1>5, <1>6, <1>7, <1>8 DEF BusIInv

(* The awaited pipelines are gone, which leaves no task of the platform.   *)
LEMMA BusStopJobsInv ==
  ASSUME BusIInv, NEW p \in BusPlatforms, Bus!StopJobs(p)
  PROVE  BusIInv'
<1>1. /\ bus_stopper[p] = "pipelines"
      /\ \A e \in bus_waits[p] : bus_at[e] = "gone"
      /\ bus_stopper' = [bus_stopper EXCEPT ![p] = "jobs"]
      /\ bus_waits' = [bus_waits EXCEPT ![p] = Bus!Live \cap Bus!JobsOf(p)]
      /\ Bus!StopAgents(p, BusNoEvent)
      /\ UNCHANGED <<bus_at, bus_cancelled, Bus!busVars, bus_active, bus_job, bus_stopped>>
  BY DEF Bus!StopJobs
<1>2. \A j \in Bus!Live : BusJobOf[j] # BusNoEvent
  BY BusAssumption DEF Bus!Live
<1>3. /\ BusAsked'
      /\ bus_asked' \in [BusJobs -> Nat]
      /\ bus_signal \subseteq bus_signal' /\ bus_signal' \in SUBSET BusEvents
      /\ \A j \in Bus!Live \cap Bus!JobsOf(p) : BusJobOf[j] \in bus_signal'
  BY <1>1, <1>2, BusAsks
<1>4. /\ Bus!Pending' = Bus!Pending
      /\ BusQueued' /\ BusSlots'
      /\ UNCHANGED <<bus_queue, bus_hand, bus_granted, bus_permits>>
  BY <1>1, BusElsewhere
<1>5. Bus!TypeOK'
  <2>1. Bus!Live \cap Bus!JobsOf(p) \subseteq BusEvents \cup BusJobs
    BY DEF Bus!Live
  <2> QED
    BY <1>1, <1>3, <1>4, <2>1 DEF BusIInv, Bus!TypeOK
<1>6. BusStops'
  <2>1. Bus!Pending \cap Bus!EventsOf(p) = {}
    BY <1>1 DEF BusIInv, BusStops, Bus!Pending
  <2>2. Bus!Live' = Bus!Live
    BY <1>1 DEF Bus!Live
  <2>3. /\ bus_stopper'[p] = "jobs" /\ p \in bus_stopped'
        /\ bus_waits'[p] = Bus!Live \cap Bus!JobsOf(p)
    BY <1>1 DEF BusIInv, Bus!TypeOK, BusStops
  <2>4. \A q \in BusPlatforms : q # p =>
          bus_stopper'[q] = bus_stopper[q] /\ bus_waits'[q] = bus_waits[q]
    BY <1>1 DEF BusIInv, Bus!TypeOK
  <2> QED
    BY <1>1, <1>3, <1>4, <2>1, <2>2, <2>3, <2>4
       DEF BusIInv, BusStops, Bus!EventsOf, Bus!JobsOf
<1> QED
  BY <1>3, <1>4, <1>5, <1>6 DEF BusIInv

(* stop_platform returns, and the platform is loaded again.                *)
LEMMA BusReturnInv ==
  ASSUME BusIInv, NEW p \in BusPlatforms, Bus!StopReturns(p) \/ Bus!LoadAgain(p)
  PROVE  BusIInv'
<1>1. UNCHANGED <<bus_at, bus_cancelled, Bus!busVars, bus_active, bus_signal, bus_job,
                  bus_asked>>
  BY DEF Bus!StopReturns, Bus!LoadAgain, Bus!registryVars
<1>2. /\ Bus!Pending' = Bus!Pending
      /\ BusQueued' /\ BusSlots'
      /\ UNCHANGED <<bus_queue, bus_hand, bus_granted, bus_permits>>
  BY <1>1, BusElsewhere
<1>3. /\ bus_stopper' \in [BusPlatforms -> {"idle", "pipelines", "jobs", "returned"}]
      /\ bus_stopped' \in SUBSET BusPlatforms
      /\ bus_waits' \in [BusPlatforms -> SUBSET (BusEvents \cup BusJobs)]
  BY DEF BusIInv, Bus!TypeOK, Bus!StopReturns, Bus!LoadAgain
<1>4. Bus!TypeOK'
  BY <1>1, <1>2, <1>3 DEF BusIInv, Bus!TypeOK
<1>5. BusAsked'
  BY <1>1 DEF BusIInv, BusAsked, Bus!JobsAskedOnce, Bus!Live
<1>6. BusStops'
  <2>1. \A q \in BusPlatforms : q # p =>
          /\ bus_stopper'[q] = bus_stopper[q] /\ bus_waits'[q] = bus_waits[q]
          /\ q \in bus_stopped <=> q \in bus_stopped'
    BY DEF BusIInv, Bus!TypeOK, Bus!StopReturns, Bus!LoadAgain
  <2>2. Bus!Live' = Bus!Live
    BY <1>1 DEF Bus!Live
  <2>3. CASE Bus!StopReturns(p)
    <3>1. /\ bus_stopper[p] = "jobs" /\ bus_stopper'[p] = "returned"
          /\ bus_waits[p] \cap Bus!Live = {} /\ bus_stopped' = bus_stopped
      BY <2>3 DEF BusIInv, Bus!TypeOK, Bus!StopReturns
    <3>2. Bus!Live \cap Bus!JobsOf(p) = {}
      BY <3>1 DEF BusIInv, BusStops
    <3> QED
      BY <1>1, <1>2, <2>1, <2>2, <3>1, <3>2
         DEF BusIInv, BusStops, Bus!EventsOf, Bus!JobsOf
  <2>4. CASE Bus!LoadAgain(p)
    <3>1. bus_stopper'[p] = "idle"
      BY <2>4 DEF BusIInv, Bus!TypeOK, Bus!LoadAgain
    <3> QED
      BY <1>1, <1>2, <2>1, <2>2, <3>1 DEF BusIInv, BusStops, Bus!EventsOf, Bus!JobsOf
  <2> QED
    BY <2>3, <2>4
<1> QED
  BY <1>2, <1>4, <1>5, <1>6 DEF BusIInv

-----------------------------------------------------------------------------

LEMMA BusNextInv == BusIInv /\ [Bus!Next]_(Bus!vars) => BusIInv'
<1> SUFFICES ASSUME BusIInv, [Bus!Next]_(Bus!vars) PROVE BusIInv'
  OBVIOUS
<1>1. CASE UNCHANGED Bus!vars
  BY <1>1, BusStutterInv
<1>2. ASSUME NEW e \in BusEvents,
             \/ Bus!Receive(e) \/ Bus!Get(e) \/ Bus!TaskStarts(e)
             \/ Bus!TaskNeverStarts(e) \/ Bus!TaskEnds(e) \/ Bus!TaskDone(e)
      PROVE  BusIInv'
  BY <1>2, BusReceiveInv, BusGetInv, BusResumeInv, BusTaskInv, BusDoneInv DEF Bus!Get
<1>3. ASSUME NEW j \in BusJobs, Bus!Submit(j) \/ Bus!JobWakes(j) \/ Bus!JobEnds(j)
      PROVE  BusIInv'
  BY <1>3, BusJobInv
<1>4. ASSUME NEW p \in BusPlatforms,
             \/ \E x \in BusEvents \cup {BusNoEvent} : Bus!RequestStop(p, x)
             \/ Bus!StopPlatform(p) \/ Bus!StopJobs(p)
             \/ Bus!StopReturns(p) \/ Bus!LoadAgain(p)
      PROVE  BusIInv'
  BY <1>4, BusRequestInv, BusStopPlatformInv, BusStopJobsInv, BusReturnInv
<1> QED
  BY <1>1, <1>2, <1>3, <1>4 DEF Bus!Next

(* The invariant of dispatch holds in every reachable state, for any       *)
(* events, platforms and jobs and any limit of concurrency.                *)
THEOREM BusInvariantHolds == Bus!Spec => []BusIInv
BY BusInitInv, BusNextInv, PTL DEF Bus!Spec

(* Permits neither leak nor are given back twice, and a platform is quiet  *)
(* once its stop has returned.                                             *)
THEOREM DispatchIsSafe == Bus!Spec => [](Bus!SlotsExact /\ Bus!StoppedIsQuiet /\ Bus!JobsAskedOnce)
<1>1. BusIInv => Bus!SlotsExact /\ Bus!StoppedIsQuiet /\ Bus!JobsAskedOnce
  BY DEF BusIInv, BusSlots, BusStops, BusAsked, Bus!StoppedIsQuiet
<1> QED
  BY <1>1, BusInvariantHolds, PTL

-----------------------------------------------------------------------------
(* Waits of plugins: the types, for any waits and messages.                *)

(* What the library of queues says of the copies that Waiters refers to.   *)
LEMMA WaitersQueues ==
  /\ \A q : Waiters!Members(q) = Members(q)
  /\ \A q, S : Waiters!Kept(q, S) = Kept(q, S)
BY DEF Waiters!Members, Members, Waiters!Kept, Kept, Waiters!KeptUpTo, KeptUpTo

WaitersInv ==
  /\ waiter_wait \in [WaiterWaits -> {"idle", "waiting", "over"}]
  /\ waiter_future \in [WaiterWaits -> {"none", "pending", "done"}]
  /\ waiter_current \in WaiterWaits \cup {WaiterNoWait}
  /\ waiter_filters \in Seq(WaiterWaits)
  /\ waiter_timer \subseteq WaiterWaits
  /\ waiter_due \in [WaiterWaits -> Nat]
  /\ waiter_lock \in [WaiterWaits -> Seq(WaiterEvents)]
  /\ waiter_event \in [WaiterEvents -> {"idle", "scanning", "queued", "handling", "over"}]
  /\ waiter_rest \in [WaiterEvents -> Nat]
  /\ waiter_running \in BOOLEAN

LEMMA WaitersOfWait ==
  ASSUME WaitersInv, NEW w \in WaiterWaits,
         Waiters!WaitBegins(w) \/ Waiters!WaitCancelled(w) \/ Waiters!OfWait(w)
  PROVE  WaitersInv'
<1> USE DEF WaitersInv, Waiters!waitVars, Waiters!timerVars, Waiters!eventVars
<1>1. CASE Waiters!WaitBegins(w)
  BY <1>1 DEF Waiters!WaitBegins
<1>2. CASE Waiters!WaitCancelled(w)
  BY <1>2 DEF Waiters!WaitCancelled
<1>3. CASE Waiters!Expires(w)
  BY <1>3 DEF Waiters!Expires
<1>4. CASE Waiters!TimesOut(w)
  BY <1>4 DEF Waiters!TimesOut, Waiters!Stop
<1>5. CASE Waiters!WaitOver(w)
  <2>1. waiter_filters' = Kept(waiter_filters, WaiterWaits \ {w})
    BY <1>5, WaitersQueues DEF Waiters!WaitOver
  <2>2. waiter_filters' \in Seq(WaiterWaits)
    BY <2>1, KeptMembers
  <2> QED
    BY <1>5, <2>2 DEF Waiters!WaitOver, Waiters!Unregister
<1> QED
  BY <1>1, <1>2, <1>3, <1>4, <1>5 DEF Waiters!OfWait

LEMMA WaitersOfEvent ==
  ASSUME WaitersInv, NEW e \in WaiterEvents, Waiters!DispatchBegins(e) \/ Waiters!OfEvent(e)
  PROVE  WaitersInv'
<1> USE DEF WaitersInv, Waiters!waitVars, Waiters!timerVars, Waiters!eventVars
<1>1. CASE Waiters!DispatchBegins(e)
  BY <1>1 DEF Waiters!DispatchBegins
<1>2. CASE Waiters!Looks(e)
  <2>1. CASE waiter_rest[e] = 0
    BY <1>2, <2>1 DEF Waiters!Looks
  <2>2. CASE waiter_rest[e] # 0
    <3>1. waiter_rest[e] - 1 \in Nat
      BY <2>2
    <3>2. waiter_rest' = [waiter_rest EXCEPT ![e] = waiter_rest[e] - 1]
          /\ UNCHANGED <<Waiters!waitVars, Waiters!timerVars, waiter_running>>
      BY <1>2, <2>2 DEF Waiters!Looks
    <3>3. CASE UNCHANGED <<waiter_lock, waiter_event>>
      BY <3>1, <3>2, <3>3
    <3>4. CASE /\ waiter_current # WaiterNoWait
               /\ waiter_lock' = [waiter_lock EXCEPT ![waiter_current] = Append(@, e)]
               /\ waiter_event' = [waiter_event EXCEPT ![e] = "queued"]
      <4>1. waiter_current \in WaiterWaits
        BY <3>4
      <4>2. Append(waiter_lock[waiter_current], e) \in Seq(WaiterEvents)
        BY <4>1
      <4>3. waiter_lock' \in [WaiterWaits -> Seq(WaiterEvents)]
        BY <3>4, <4>1, <4>2
      <4>4. waiter_event' \in [WaiterEvents -> {"idle", "scanning", "queued", "handling", "over"}]
        BY <3>4
      <4> QED
        BY <3>1, <3>2, <4>3, <4>4
    <3> QED
      BY <1>2, <2>2, <3>3, <3>4 DEF Waiters!Looks
  <2> QED
    BY <2>1, <2>2
<1>3. ASSUME NEW w \in WaiterWaits, Waiters!LockGained(e, w) \/ Waiters!Handled(e, w)
      PROVE  WaitersInv'
  <2>1. Tail(waiter_lock[w]) \in Seq(WaiterEvents)
    BY <1>3 DEF Waiters!LockGained, Waiters!Handled, Waiters!Holds
  <2>2. CASE Waiters!LockGained(e, w)
    BY <2>1, <2>2 DEF Waiters!LockGained, Waiters!Unlock
  <2>3. CASE Waiters!Handled(e, w)
    BY <2>1, <2>3 DEF Waiters!Handled, Waiters!Unlock, Waiters!Stop
  <2> QED
    BY <1>3, <2>2, <2>3
<1> QED
  BY <1>1, <1>2, <1>3 DEF Waiters!OfEvent

LEMMA WaitersTypes == Waiters!Spec => []Waiters!TypeOK
<1>1. Waiters!Init => WaitersInv
  BY DEF Waiters!Init, WaitersInv
<1>2. WaitersInv /\ UNCHANGED Waiters!vars => WaitersInv'
  BY DEF WaitersInv, Waiters!vars, Waiters!waitVars, Waiters!timerVars, Waiters!eventVars
<1>3. WaitersInv /\ Waiters!Terminates => WaitersInv'
  <2> SUFFICES ASSUME WaitersInv, Waiters!Terminates PROVE WaitersInv'
    OBVIOUS
  <2>1. waiter_future' \in [WaiterWaits -> {"none", "pending", "done"}]
    BY DEF WaitersInv, Waiters!Terminates, Waiters!StopRegistered, Waiters!Stop
  <2>2. waiter_filters' \in Seq(WaiterWaits) /\ waiter_due' \in [WaiterWaits -> Nat]
    BY DEF Waiters!Terminates
  <2> QED
    BY <2>1, <2>2 DEF WaitersInv, Waiters!Terminates, Waiters!eventVars
<1>4. WaitersInv /\ [Waiters!Next]_(Waiters!vars) => WaitersInv'
  BY <1>2, <1>3, WaitersOfWait, WaitersOfEvent DEF Waiters!Next
<1>5. WaitersInv => Waiters!TypeOK
  <2>1. \A S, q : q \in Seq(S) => Members(q) \subseteq S
    BY MembersType
  <2> QED
    BY <2>1, WaitersQueues DEF WaitersInv, Waiters!TypeOK
<1> QED
  BY <1>1, <1>4, <1>5, PTL DEF Waiters!Spec

-----------------------------------------------------------------------------
(* The services side by side: every one of them behaves as specified.       *)

LEMMA GateBehaves == AllSpec => Gate!Spec
<1>1. AllInit => Gate!Init
  BY DEF AllInit
<1>2. [AllNext]_allVars => [Gate!Next]_(Gate!vars)
  <2>1. UNCHANGED gateVars => UNCHANGED Gate!vars
    BY DEF gateVars, Gate!vars
  <2>2. CASE GateStep
    BY <2>2 DEF GateStep
  <2>3. CASE BusStep \/ WorkStep \/ AgentStep \/ ChatStep
          \/ CronStep \/ HistoryStep \/ UpsetStep \/ WaitersStep
    BY <2>1, <2>3 DEF BusStep, WorkStep, AgentStep, ChatStep, CronStep, HistoryStep,
        UpsetStep, WaitersStep
  <2>4. CASE UNCHANGED allVars
    BY <2>1, <2>4 DEF allVars
  <2> QED
    BY <2>2, <2>3, <2>4 DEF AllNext
<1> QED
  BY <1>1, <1>2, PTL DEF AllSpec, Gate!Spec

LEMMA BusBehaves == AllSpec => Bus!Spec
<1>1. AllInit => Bus!Init
  BY DEF AllInit
<1>2. [AllNext]_allVars => [Bus!Next]_(Bus!vars)
  <2>1. UNCHANGED busVars => UNCHANGED Bus!vars
    BY DEF busVars, Bus!vars, Bus!busVars, Bus!registryVars, Bus!stopVars
  <2>2. CASE BusStep
    BY <2>2 DEF BusStep
  <2>3. CASE GateStep \/ WorkStep \/ AgentStep \/ ChatStep
          \/ CronStep \/ HistoryStep \/ UpsetStep \/ WaitersStep
    BY <2>1, <2>3 DEF GateStep, WorkStep, AgentStep, ChatStep, CronStep,
        HistoryStep, UpsetStep, WaitersStep
  <2>4. CASE UNCHANGED allVars
    BY <2>1, <2>4 DEF allVars
  <2> QED
    BY <2>2, <2>3, <2>4 DEF AllNext
<1> QED
  BY <1>1, <1>2, PTL DEF AllSpec, Bus!Spec

LEMMA WorkBehaves == AllSpec => Spec
<1>1. AllInit => Init
  BY DEF AllInit
<1>2. [AllNext]_allVars => [Next]_vars
  <2>1. CASE WorkStep
    BY <2>1 DEF WorkStep
  <2>2. CASE GateStep \/ BusStep \/ AgentStep \/ ChatStep
          \/ CronStep \/ HistoryStep \/ UpsetStep \/ WaitersStep
    BY <2>2 DEF GateStep, BusStep, AgentStep, ChatStep, CronStep, HistoryStep,
        UpsetStep, WaitersStep
  <2>3. CASE UNCHANGED allVars
    BY <2>3 DEF allVars
  <2> QED
    BY <2>1, <2>2, <2>3 DEF AllNext
<1> QED
  BY <1>1, <1>2, PTL DEF AllSpec, Spec

LEMMA AgentBehaves == AllSpec => Agent!Spec
<1>1. AllInit => Agent!Init
  BY DEF AllInit
<1>2. [AllNext]_allVars => [Agent!Next]_(Agent!vars)
  <2>1. UNCHANGED agentVars => UNCHANGED Agent!vars
    BY DEF agentVars, Agent!vars, Agent!modelVars, Agent!toolVars
  <2>2. CASE AgentStep
    BY <2>2 DEF AgentStep
  <2>3. CASE GateStep \/ BusStep \/ WorkStep \/ ChatStep
          \/ CronStep \/ HistoryStep \/ UpsetStep \/ WaitersStep
    BY <2>1, <2>3 DEF GateStep, BusStep, WorkStep, ChatStep, CronStep, HistoryStep,
        UpsetStep, WaitersStep
  <2>4. CASE UNCHANGED allVars
    BY <2>1, <2>4 DEF allVars
  <2> QED
    BY <2>2, <2>3, <2>4 DEF AllNext
<1> QED
  BY <1>1, <1>2, PTL DEF AllSpec, Agent!Spec

LEMMA ChatBehaves == AllSpec => Chat!Spec
<1>1. AllInit => Chat!Init
  BY DEF AllInit
<1>2. [AllNext]_allVars => [Chat!Next]_(Chat!vars)
  <2>1. UNCHANGED chatVars => UNCHANGED Chat!vars
    BY DEF chatVars, Chat!vars
  <2>2. CASE ChatStep
    BY <2>2 DEF ChatStep
  <2>3. CASE GateStep \/ BusStep \/ WorkStep \/ AgentStep
          \/ CronStep \/ HistoryStep \/ UpsetStep \/ WaitersStep
    BY <2>1, <2>3 DEF GateStep, BusStep, WorkStep, AgentStep, CronStep, HistoryStep,
        UpsetStep, WaitersStep
  <2>4. CASE UNCHANGED allVars
    BY <2>1, <2>4 DEF allVars
  <2> QED
    BY <2>2, <2>3, <2>4 DEF AllNext
<1> QED
  BY <1>1, <1>2, PTL DEF AllSpec, Chat!Spec

LEMMA JobBehaves == AllSpec => Job!Spec
<1>1. AllInit => Job!Init
  BY DEF AllInit
<1>2. [AllNext]_allVars => [Job!Next]_(Job!vars)
  <2>1. UNCHANGED jobVars => UNCHANGED Job!vars
    BY DEF jobVars, Job!vars, Job!jobVars, Job!runVars
  <2>2. CASE CronStep
    BY <2>2 DEF CronStep
  <2>3. CASE GateStep \/ BusStep \/ WorkStep \/ AgentStep
          \/ ChatStep \/ HistoryStep \/ UpsetStep \/ WaitersStep
    BY <2>1, <2>3 DEF GateStep, BusStep, WorkStep, AgentStep, ChatStep, HistoryStep,
        UpsetStep, WaitersStep
  <2>4. CASE UNCHANGED allVars
    BY <2>1, <2>4 DEF allVars
  <2> QED
    BY <2>2, <2>3, <2>4 DEF AllNext
<1> QED
  BY <1>1, <1>2, PTL DEF AllSpec, Job!Spec

LEMMA LogBehaves == AllSpec => Log!Spec
<1>1. AllInit => Log!Init
  BY DEF AllInit
<1>2. [AllNext]_allVars => [Log!Next]_(Log!vars)
  <2>1. UNCHANGED logVars => UNCHANGED Log!vars
    BY DEF logVars, Log!vars, Log!turnVars, Log!cronVars
  <2>2. CASE HistoryStep
    BY <2>2 DEF HistoryStep
  <2>3. CASE GateStep \/ BusStep \/ WorkStep \/ AgentStep
          \/ ChatStep \/ CronStep \/ UpsetStep \/ WaitersStep
    BY <2>1, <2>3 DEF GateStep, BusStep, WorkStep, AgentStep, ChatStep, CronStep,
        UpsetStep, WaitersStep
  <2>4. CASE UNCHANGED allVars
    BY <2>1, <2>4 DEF allVars
  <2> QED
    BY <2>2, <2>3, <2>4 DEF AllNext
<1> QED
  BY <1>1, <1>2, PTL DEF AllSpec, Log!Spec

LEMMA UpsetBehaves == AllSpec => Upset!Spec
<1>1. AllInit => Upset!Init
  BY DEF AllInit
<1>2. [AllNext]_allVars => [Upset!Next]_(Upset!vars)
  <2>1. UNCHANGED upsetVars => UNCHANGED Upset!vars
    BY DEF upsetVars, Upset!vars, Upset!turnVars, Upset!cronVars
  <2>2. CASE UpsetStep
    BY <2>2 DEF UpsetStep
  <2>3. CASE GateStep \/ BusStep \/ WorkStep \/ AgentStep
          \/ ChatStep \/ CronStep \/ HistoryStep \/ WaitersStep
    BY <2>1, <2>3 DEF GateStep, BusStep, WorkStep, AgentStep, ChatStep, CronStep,
        HistoryStep, WaitersStep
  <2>4. CASE UNCHANGED allVars
    BY <2>1, <2>4 DEF allVars
  <2> QED
    BY <2>2, <2>3, <2>4 DEF AllNext
<1> QED
  BY <1>1, <1>2, PTL DEF AllSpec, Upset!Spec

LEMMA WaitersBehaves == AllSpec => Waiters!Spec
<1>1. AllInit => Waiters!Init
  BY DEF AllInit
<1>2. [AllNext]_allVars => [Waiters!Next]_(Waiters!vars)
  <2>1. UNCHANGED waiterVars => UNCHANGED Waiters!vars
    BY DEF waiterVars, Waiters!vars, Waiters!waitVars, Waiters!timerVars, Waiters!eventVars
  <2>2. CASE WaitersStep
    BY <2>2 DEF WaitersStep
  <2>3. CASE GateStep \/ BusStep \/ WorkStep \/ AgentStep
          \/ ChatStep \/ CronStep \/ HistoryStep \/ UpsetStep
    BY <2>1, <2>3 DEF GateStep, BusStep, WorkStep, AgentStep, ChatStep, CronStep,
        HistoryStep, UpsetStep
  <2>4. CASE UNCHANGED allVars
    BY <2>1, <2>4 DEF allVars
  <2> QED
    BY <2>2, <2>3, <2>4 DEF AllNext
<1> QED
  BY <1>1, <1>2, PTL DEF AllSpec, Waiters!Spec

-----------------------------------------------------------------------------
GateProved == INSTANCE OutboundGateProofs WITH
  Events <- GateEvents, Children <- GateChildren, Others <- GateOthers,
  Umo <- GateUmo, Sends <- GateSends, LateSends <- GateLateSends,
  Serial <- GateSerial, Reuse <- GateReuse, MaxSends <- GateMaxSends,
  NoTask <- GateNoTask, phase <- gate_phase, home <- gate_home,
  reg <- gate_reg, pending <- gate_pending, depth <- gate_depth,
  act <- gate_act, next <- gate_next, sent <- gate_sent, open <- gate_open,
  late <- gate_late, line <- gate_line, owner <- gate_owner

LEMMA GateSame == Gate!Spec => GateProved!Spec
<1>1. Gate!Init => GateProved!Init
  BY DEF Gate!Init, Gate!Tasks, Gate!Mutex!Init, GateProved!Init,
         GateProved!Tasks, GateProved!Mutex!Init
<1>2. Gate!Next => GateProved!Next
  BY DEF Gate!Next, Gate!Tasks, Gate!Send, Gate!Continue, Gate!CancelWait,
         Gate!BeginTurn, Gate!ChildBegins, Gate!ChildEnds, Gate!EndTurn,
         Gate!SendDirect, Gate!SendInTurn, Gate!SendAround, Gate!SendUnseen,
         Gate!GainHold, Gate!GainAround, Gate!Post, Gate!PostAround,
         Gate!CancelHold, Gate!CancelAround, Gate!gateVars, Gate!ReleaseTurn,
         Gate!HasEvent, Gate!Sending, Gate!HasTurn, Gate!HoldTurn,
         Gate!HasTurnHolder, Gate!EventOf, Gate!Mates, Gate!Posted,
         Gate!Known, Gate!MaySend, Gate!HoldKnown, Gate!HoldNested,
         Gate!HoldAsks, Gate!Mutex!Enqueue, Gate!Mutex!Handover,
         Gate!Mutex!Release, Gate!Mutex!Quit, Gate!Mutex!InLine,
         Gate!Mutex!Without, Gate!Mutex!Place, GateProved!Next,
         GateProved!Tasks, GateProved!Send, GateProved!Continue,
         GateProved!CancelWait, GateProved!BeginTurn, GateProved!ChildBegins,
         GateProved!ChildEnds, GateProved!EndTurn, GateProved!SendDirect,
         GateProved!SendInTurn, GateProved!SendAround, GateProved!SendUnseen,
         GateProved!GainHold, GateProved!GainAround, GateProved!Post,
         GateProved!PostAround, GateProved!CancelHold,
         GateProved!CancelAround, GateProved!gateVars, GateProved!ReleaseTurn,
         GateProved!HasEvent, GateProved!Sending, GateProved!HasTurn,
         GateProved!HoldTurn, GateProved!HasTurnHolder, GateProved!EventOf,
         GateProved!Mates, GateProved!Posted, GateProved!Known,
         GateProved!MaySend, GateProved!HoldKnown, GateProved!HoldNested,
         GateProved!HoldAsks, GateProved!Mutex!Enqueue,
         GateProved!Mutex!Handover, GateProved!Mutex!Release,
         GateProved!Mutex!Quit, GateProved!Mutex!InLine,
         GateProved!Mutex!Without, GateProved!Mutex!Place
<1>3. UNCHANGED Gate!vars => UNCHANGED GateProved!vars
  BY DEF Gate!vars, GateProved!vars
<1>4. [Gate!Next]_(Gate!vars) => [GateProved!Next]_(GateProved!vars)
  BY <1>2, <1>3
<1> QED
  BY <1>1, <1>4, PTL DEF Gate!Spec, GateProved!Spec

AgentProved == INSTANCE AgentRunProofs WITH
  MaxSteps <- AgentMaxSteps, MaxCalls <- AgentMaxCalls,
  Fallbacks <- AgentFallbacks, Results <- AgentResults,
  Faulty <- AgentFaulty, pc <- agent_pc,
  steps <- agent_steps, state <- agent_state, abort <- agent_abort,
  outcome <- agent_outcome, provider <- agent_provider, tried <- agent_tried,
  spoke <- agent_spoke, parallel <- agent_parallel, call <- agent_call,
  missing <- agent_missing

LEMMA AgentSame == Agent!Spec => AgentProved!Spec
<1>1. Agent!Init => AgentProved!Init
  BY DEF Agent!Init, Agent!NoCalls, Agent!Slots, AgentProved!Init,
         AgentProved!NoCalls, AgentProved!Slots
<1>2. Agent!Next => AgentProved!Next
  <2>1. /\ Agent!RunBegins => AgentProved!RunBegins
        /\ Agent!StepBegins => AgentProved!StepBegins
        /\ Agent!LoopEnds => AgentProved!LoopEnds
        /\ Agent!Interrupted => AgentProved!Interrupted
        /\ Agent!Aborted => AgentProved!Aborted
        /\ Agent!Completed => AgentProved!Completed
        /\ Agent!Ask => AgentProved!Ask
        /\ Agent!Breaks => AgentProved!Breaks
        /\ Agent!RequestStop => AgentProved!RequestStop
    BY DEF Agent!RunBegins, Agent!StepBegins, Agent!LoopEnds, Agent!Interrupted,
           Agent!Aborted, Agent!Completed, Agent!Ask, Agent!Breaks,
           Agent!RequestStop, Agent!modelVars, Agent!toolVars, Agent!Done,
           Agent!Abort, Agent!Fails, Agent!NoCalls, Agent!Slots,
           AgentProved!RunBegins, AgentProved!StepBegins, AgentProved!LoopEnds,
           AgentProved!Interrupted, AgentProved!Aborted, AgentProved!Completed,
           AgentProved!Ask, AgentProved!Breaks, AgentProved!RequestStop,
           AgentProved!modelVars, AgentProved!toolVars, AgentProved!Done,
           AgentProved!Abort, AgentProved!Fails, AgentProved!NoCalls,
           AgentProved!Slots
  <2>2. /\ Agent!Prepared => AgentProved!Prepared
        /\ Agent!Chunk => AgentProved!Chunk
        /\ Agent!FallsBack => AgentProved!FallsBack
        /\ Agent!ErrorAnswer => AgentProved!ErrorAnswer
        /\ Agent!NoAnswer => AgentProved!NoAnswer
        /\ Agent!Answer => AgentProved!Answer
        /\ Agent!Requeried => AgentProved!Requeried
    BY DEF Agent!Prepared, Agent!Chunk, Agent!FallsBack, Agent!ErrorAnswer,
           Agent!NoAnswer, Agent!Answer, Agent!Requeried, Agent!toolVars,
           Agent!Answering, Agent!modelVars, Agent!Complete, Agent!Slots,
           Agent!Batch, Agent!Forced, AgentProved!Prepared, AgentProved!Chunk,
           AgentProved!FallsBack, AgentProved!ErrorAnswer, AgentProved!NoAnswer,
           AgentProved!Answer, AgentProved!Requeried, AgentProved!toolVars,
           AgentProved!Answering, AgentProved!modelVars, AgentProved!Complete,
           AgentProved!Slots, AgentProved!Batch, AgentProved!Forced
  <2>3. \A S : Agent!Cardinality(S) = AgentProved!Cardinality(S)
    BY DEF Agent!Cardinality, AgentProved!Cardinality
  <2>4. /\ Agent!Announce => AgentProved!Announce
        /\ Agent!SpawnStopped => AgentProved!SpawnStopped
        /\ Agent!Spawn => AgentProved!Spawn
        /\ Agent!BatchEnds => AgentProved!BatchEnds
    BY <2>3 DEF Agent!Announce, Agent!SpawnStopped, Agent!Spawn, Agent!BatchEnds,
           Agent!Abort, Agent!modelVars, Agent!Fails, Agent!toolVars, Agent!Slots,
           Agent!Finished, Agent!NoCalls, AgentProved!Announce,
           AgentProved!SpawnStopped, AgentProved!Spawn, AgentProved!BatchEnds,
           AgentProved!Abort, AgentProved!modelVars, AgentProved!Fails,
           AgentProved!toolVars, AgentProved!Slots, AgentProved!Finished,
           AgentProved!NoCalls
  <2>5. /\ \A i : Agent!StartCall(i) => AgentProved!StartCall(i)
        /\ \A i : Agent!HookDone(i) => AgentProved!HookDone(i)
        /\ \A i : Agent!StopCall(i) => AgentProved!StopCall(i)
        /\ \A i : Agent!ToolEnds(i) => AgentProved!ToolEnds(i)
    BY DEF Agent!StartCall, Agent!HookDone, Agent!StopCall, Agent!ToolEnds,
           Agent!At, Agent!Forced, Agent!Slots, Agent!modelVars, Agent!Abort,
           Agent!Turn, Agent!NoCalls, Agent!Finished, AgentProved!StartCall,
           AgentProved!HookDone, AgentProved!StopCall, AgentProved!ToolEnds,
           AgentProved!At, AgentProved!Forced, AgentProved!Slots,
           AgentProved!modelVars, AgentProved!Abort, AgentProved!Turn,
           AgentProved!NoCalls, AgentProved!Finished
  <2> QED
    BY <2>1, <2>2, <2>4, <2>5 DEF Agent!Next, Agent!Loop, Agent!Model,
           Agent!OfBatch, Agent!Slots, Agent!OfCall, AgentProved!Next,
           AgentProved!Loop, AgentProved!Model, AgentProved!OfBatch,
           AgentProved!Slots, AgentProved!OfCall
<1>3. UNCHANGED Agent!vars => UNCHANGED AgentProved!vars
  BY DEF Agent!vars, Agent!modelVars, Agent!toolVars, AgentProved!vars,
         AgentProved!modelVars, AgentProved!toolVars
<1>4. [Agent!Next]_(Agent!vars) => [AgentProved!Next]_(AgentProved!vars)
  BY <1>2, <1>3
<1> QED
  BY <1>1, <1>4, PTL DEF Agent!Spec, AgentProved!Spec

-----------------------------------------------------------------------------
LogProved == INSTANCE HistoryProofs WITH
  Turns <- LogTurns, Crons <- {}, Look <- LogLook, Merging <- LogMerging,
  Disturbers <- {}, stored <- log_stored, issued <- log_issued,
  latest <- log_latest, receipt <- log_receipt, turn <- log_turn,
  number <- log_number, base <- log_base, lead <- log_lead, unit <- log_unit,
  text <- log_text, queue <- log_queue, cron <- log_cron, seen <- log_seen,
  committed <- log_committed, gone <- log_gone, disturbed <- log_disturbed

LEMMA LogSame == Log!Spec => LogProved!Spec
<1>1. Log!Init => LogProved!Init
  BY DEF Log!Init, Log!Old, LogProved!Init, LogProved!Old
<1>2. Log!Next => LogProved!Next
  <2>1. \A q : Log!Members(q) = LogProved!Members(q)
    BY DEF Log!Members, LogProved!Members
  <2>2. \A q, S : Log!Kept(q, S) = LogProved!Kept(q, S)
    BY DEF Log!Kept, Log!KeptUpTo, LogProved!Kept, LogProved!KeptUpTo
  <2>3. \A t : Log!Snapshots(t) = LogProved!Snapshots(t)
    BY DEF Log!Snapshots, Log!Lefts, Log!Ends, Log!Cuts, Log!Summary,
           Log!Question, Log!Answer, LogProved!Snapshots, LogProved!Lefts,
           LogProved!Ends, LogProved!Cuts, LogProved!Summary,
           LogProved!Question, LogProved!Answer
  <2>4. /\ \A t : Log!Builds(t) => LogProved!Builds(t)
        /\ \A t : Log!Numbers(t) => LogProved!Numbers(t)
        /\ \A t : Log!Delivered(t) => LogProved!Delivered(t)
        /\ \A t : Log!Undelivered(t) => LogProved!Undelivered(t)
    BY <2>3 DEF Log!Builds, Log!Numbers, Log!Delivered, Log!Undelivered, Log!Goes,
           Log!cronVars, LogProved!Builds, LogProved!Numbers,
           LogProved!Delivered, LogProved!Undelivered, LogProved!Goes,
           LogProved!cronVars
  <2>5. /\ \A t : Log!EntersCommit(t) => LogProved!EntersCommit(t)
        /\ \A t : Log!LoadFails(t) => LogProved!LoadFails(t)
        /\ \A t : Log!Fails(t) => LogProved!Fails(t)
    BY <2>2 DEF Log!EntersCommit, Log!LoadFails, Log!Fails, Log!Holds, Log!Stale,
           Log!Leaves, Log!Goes, Log!Own, Log!Unmerged, Log!cronVars,
           LogProved!EntersCommit, LogProved!LoadFails, LogProved!Fails,
           LogProved!Holds, LogProved!Stale, LogProved!Leaves, LogProved!Goes,
           LogProved!Own, LogProved!Unmerged, LogProved!cronVars
  <2>6. \A t : Log!Loads(t) => LogProved!Loads(t)
    BY DEF Log!Loads, Log!Holds, Log!Goes, Log!Own, Log!Rest, Log!Merged,
           Log!Misled, Log!Shape, Log!StartsWith, Log!cronVars,
           LogProved!Loads, LogProved!Holds, LogProved!Goes, LogProved!Own,
           LogProved!Rest, LogProved!Merged, LogProved!Misled,
           LogProved!Shape, LogProved!StartsWith, LogProved!cronVars
  <2>7. \A t : Log!Writes(t) => LogProved!Writes(t)
    BY <2>1, <2>2 DEF Log!Writes, Log!Holds, Log!Leaves, Log!Goes, Log!Own, Log!Shape,
           Log!cronVars, Log!Summary, Log!Question, Log!Answer, Log!Parts,
           LogProved!Writes, LogProved!Holds, LogProved!Leaves,
           LogProved!Goes, LogProved!Own, LogProved!Shape, LogProved!cronVars,
           LogProved!Summary, LogProved!Question, LogProved!Answer,
           LogProved!Parts
  <2>8. /\ \A c : Log!CronBegins(c) => LogProved!CronBegins(c)
        /\ \A c : Log!CronWrites(c) => LogProved!CronWrites(c)
    BY DEF Log!CronBegins, Log!CronWrites, Log!Woken, Log!turnVars,
           LogProved!CronBegins, LogProved!CronWrites, LogProved!Woken,
           LogProved!turnVars
  <2>9. /\ Log!Edited => LogProved!Edited
        /\ Log!Forgotten => LogProved!Forgotten
    BY <2>1 DEF Log!Edited, Log!Forgotten, Log!turnVars, Log!cronVars,
           LogProved!Edited, LogProved!Forgotten, LogProved!turnVars,
           LogProved!cronVars
  <2> QED
    BY <2>4, <2>5, <2>6, <2>7, <2>8, <2>9 DEF Log!Next, LogProved!Next
<1>3. UNCHANGED Log!vars => UNCHANGED LogProved!vars
  BY DEF Log!vars, Log!turnVars, Log!cronVars, LogProved!vars,
           LogProved!turnVars, LogProved!cronVars
<1>4. [Log!Next]_(Log!vars) => [LogProved!Next]_(LogProved!vars)
  BY <1>2, <1>3
<1> QED
  BY <1>1, <1>4, PTL DEF Log!Spec, LogProved!Spec

UpsetProved == INSTANCE HistoryProofs WITH
  Turns <- UpsetTurns, Crons <- UpsetCrons, Look <- UpsetLook,
  Merging <- UpsetMerging, Disturbers <- UpsetBy, stored <- upset_stored,
  issued <- upset_issued, latest <- upset_latest, receipt <- upset_receipt,
  turn <- upset_turn, number <- upset_number, base <- upset_base,
  lead <- upset_lead, unit <- upset_unit, text <- upset_text,
  queue <- upset_queue, cron <- upset_cron, seen <- upset_seen,
  committed <- upset_committed, gone <- upset_gone,
  disturbed <- upset_disturbed

LEMMA UpsetSame == Upset!Spec => UpsetProved!Spec
<1>1. Upset!Init => UpsetProved!Init
  BY DEF Upset!Init, Upset!Old, UpsetProved!Init, UpsetProved!Old
<1>2. Upset!Next => UpsetProved!Next
  <2>1. \A q : Upset!Members(q) = UpsetProved!Members(q)
    BY DEF Upset!Members, UpsetProved!Members
  <2>2. \A q, S : Upset!Kept(q, S) = UpsetProved!Kept(q, S)
    BY DEF Upset!Kept, Upset!KeptUpTo, UpsetProved!Kept, UpsetProved!KeptUpTo
  <2>3. \A t : Upset!Snapshots(t) = UpsetProved!Snapshots(t)
    BY DEF Upset!Snapshots, Upset!Lefts, Upset!Ends, Upset!Cuts,
           Upset!Summary, Upset!Question, Upset!Answer, UpsetProved!Snapshots,
           UpsetProved!Lefts, UpsetProved!Ends, UpsetProved!Cuts,
           UpsetProved!Summary, UpsetProved!Question, UpsetProved!Answer
  <2>4. /\ \A t : Upset!Builds(t) => UpsetProved!Builds(t)
        /\ \A t : Upset!Numbers(t) => UpsetProved!Numbers(t)
        /\ \A t : Upset!Delivered(t) => UpsetProved!Delivered(t)
        /\ \A t : Upset!Undelivered(t) => UpsetProved!Undelivered(t)
    BY <2>3 DEF Upset!Builds, Upset!Numbers, Upset!Delivered, Upset!Undelivered,
           Upset!Goes, Upset!cronVars, UpsetProved!Builds,
           UpsetProved!Numbers, UpsetProved!Delivered,
           UpsetProved!Undelivered, UpsetProved!Goes, UpsetProved!cronVars
  <2>5. /\ \A t : Upset!EntersCommit(t) => UpsetProved!EntersCommit(t)
        /\ \A t : Upset!LoadFails(t) => UpsetProved!LoadFails(t)
        /\ \A t : Upset!Fails(t) => UpsetProved!Fails(t)
    BY <2>2 DEF Upset!EntersCommit, Upset!LoadFails, Upset!Fails, Upset!Holds,
           Upset!Stale, Upset!Leaves, Upset!Goes, Upset!Own, Upset!Unmerged,
           Upset!cronVars, UpsetProved!EntersCommit, UpsetProved!LoadFails,
           UpsetProved!Fails, UpsetProved!Holds, UpsetProved!Stale,
           UpsetProved!Leaves, UpsetProved!Goes, UpsetProved!Own,
           UpsetProved!Unmerged, UpsetProved!cronVars
  <2>6. \A t : Upset!Loads(t) => UpsetProved!Loads(t)
    BY DEF Upset!Loads, Upset!Holds, Upset!Goes, Upset!Own, Upset!Rest,
           Upset!Merged, Upset!Misled, Upset!Shape, Upset!StartsWith,
           Upset!cronVars, UpsetProved!Loads, UpsetProved!Holds,
           UpsetProved!Goes, UpsetProved!Own, UpsetProved!Rest,
           UpsetProved!Merged, UpsetProved!Misled, UpsetProved!Shape,
           UpsetProved!StartsWith, UpsetProved!cronVars
  <2>7. \A t : Upset!Writes(t) => UpsetProved!Writes(t)
    BY <2>1, <2>2 DEF Upset!Writes, Upset!Holds, Upset!Leaves, Upset!Goes, Upset!Own,
           Upset!Shape, Upset!cronVars, Upset!Summary, Upset!Question,
           Upset!Answer, Upset!Parts, UpsetProved!Writes, UpsetProved!Holds,
           UpsetProved!Leaves, UpsetProved!Goes, UpsetProved!Own,
           UpsetProved!Shape, UpsetProved!cronVars, UpsetProved!Summary,
           UpsetProved!Question, UpsetProved!Answer, UpsetProved!Parts
  <2>8. /\ \A c : Upset!CronBegins(c) => UpsetProved!CronBegins(c)
        /\ \A c : Upset!CronWrites(c) => UpsetProved!CronWrites(c)
    BY DEF Upset!CronBegins, Upset!CronWrites, Upset!Woken, Upset!turnVars,
           UpsetProved!CronBegins, UpsetProved!CronWrites, UpsetProved!Woken,
           UpsetProved!turnVars
  <2>9. /\ Upset!Edited => UpsetProved!Edited
        /\ Upset!Forgotten => UpsetProved!Forgotten
    BY <2>1 DEF Upset!Edited, Upset!Forgotten, Upset!turnVars, Upset!cronVars,
           UpsetProved!Edited, UpsetProved!Forgotten, UpsetProved!turnVars,
           UpsetProved!cronVars
  <2> QED
    BY <2>4, <2>5, <2>6, <2>7, <2>8, <2>9 DEF Upset!Next, UpsetProved!Next
<1>3. UNCHANGED Upset!vars => UNCHANGED UpsetProved!vars
  BY DEF Upset!vars, Upset!turnVars, Upset!cronVars, UpsetProved!vars,
           UpsetProved!turnVars, UpsetProved!cronVars
<1>4. [Upset!Next]_(Upset!vars) => [UpsetProved!Next]_(UpsetProved!vars)
  BY <1>2, <1>3
<1> QED
  BY <1>1, <1>4, PTL DEF Upset!Spec, UpsetProved!Spec

-----------------------------------------------------------------------------
(* What follows for the services side by side *)

(* Every registered outbound lock is really held, and whoever has the     *)
(* lock is in the middle of one message around the turns or is registered  *)
(* with an event in its turn, or with one that was sent to after its turn. *)
THEOREM OutboundLockAccounted == AllSpec => []LockAccounted
<1>1. GateProved!Spec => []GateProved!LockAccounted
  BY GateAssumption, GateProved!LockIsAccounted DEF Gate!Tasks, GateProved!Tasks
<1>2. GateProved!LockAccounted => LockAccounted
  BY DEF GateProved!LockAccounted, LockAccounted, Gate!LockAccounted,
         GateProved!Tasks, Gate!Tasks
<1> QED
  BY <1>1, <1>2, GateBehaves, GateSame, PTL

(* A turn whose event is not sent to later leaves no registration and no   *)
(* depth of its pipeline task behind, and a task outside of the turns has  *)
(* no depth but with the lock.                                             *)
THEOREM OutboundTurnsEnd == AllSpec => []TurnLeavesNothing
<1>1. GateProved!Spec => []GateProved!TurnLeavesNothing
  BY GateAssumption, GateProved!TurnsLeaveNothing DEF Gate!Tasks, GateProved!Tasks
<1>2. GateProved!TurnLeavesNothing => TurnLeavesNothing
  BY DEF GateProved!TurnLeavesNothing, TurnLeavesNothing, Gate!TurnLeavesNothing,
         GateProved!Tasks, Gate!Tasks
<1> QED
  BY <1>1, <1>2, GateBehaves, GateSame, PTL

(* No permit of the event bus leaks or is given back twice.                *)
THEOREM BusSlotsAreExact == AllSpec => []SlotsExact
<1>1. Bus!SlotsExact /\ Bus!StoppedIsQuiet /\ Bus!JobsAskedOnce => SlotsExact
  BY DEF SlotsExact
<1> QED
  BY <1>1, BusBehaves, DispatchIsSafe, PTL

(* A platform that was stopped is quiet, and what was told to stop was     *)
(* cancelled once.                                                         *)
THEOREM BusStopsAreQuiet == AllSpec => []StoppedIsQuiet
<1>1. Bus!SlotsExact /\ Bus!StoppedIsQuiet /\ Bus!JobsAskedOnce => StoppedIsQuiet
  BY DEF StoppedIsQuiet
<1> QED
  BY <1>1, BusBehaves, DispatchIsSafe, PTL

(* WebChat runs and response queues are dropped with their tasks.          *)
THEOREM ChatsLeakNothing == AllSpec => []NothingLeaks
<1>1. Chat!NothingLeaks => NothingLeaks
  BY DEF NothingLeaks
<1> QED
  BY <1>1, ChatBehaves, RunsDoNotLeak, PTL

(* A cron job is never executed after its row was deleted.                 *)
THEOREM JobsHaveRows == AllSpec => []RunHasRow
<1>1. Job!RunHasRow => RunHasRow
  BY DEF RunHasRow
<1> QED
  BY <1>1, JobBehaves, RunsHaveRows, PTL

(* After a stop the agent starts no model request and no tool.             *)
THEOREM AgentsStopQuietly == AllSpec => QuietAfterStop
<1> DEFINE Starts(slots) ==
             agent_abort => /\ agent_pc' \in {"model", "requery"} => agent_pc' = agent_pc
                            /\ \A i \in slots :
                                 agent_call'[i] = "running" => agent_call[i] = "running"
<1>1. AgentProved!Spec => [][Starts(AgentProved!Slots)]_(AgentProved!vars)
  BY AgentProved!StoppedRunsAreQuiet DEF AgentProved!QuietAfterStop
<1>2. [Starts(AgentProved!Slots)]_(AgentProved!vars) => [Starts(Agent!Slots)]_(Agent!vars)
  BY DEF AgentProved!Slots, Agent!Slots, Agent!vars, Agent!modelVars, Agent!toolVars,
         AgentProved!vars, AgentProved!modelVars, AgentProved!toolVars
<1>3. AllSpec => [][Starts(Agent!Slots)]_(Agent!vars)
  BY <1>1, <1>2, AgentBehaves, AgentSame, PTL
<1> QED
  BY <1>3 DEF QuietAfterStop, Agent!QuietAfterStop

(* What a commit has stored stays in the history until a later turn        *)
(* compacts it, in a conversation that is left alone and in one that is    *)
(* not, until somebody interferes, a turn without user message is written  *)
(* or the looks of two histories mislead the merge.                        *)
THEOREM HistoryIsKept == AllSpec => []CommittedStaysAlone
<1>1. LogProved!Spec => []LogProved!CommittedStaysAlone
  <2>1. LogProved!TurnsAssumed
    BY HistoryAssumption DEF LogProved!TurnsAssumed, LogProved!IsFiniteSet, IsFiniteSet
  <2> QED
    BY <2>1, LogProved!CommitsAreKept
<1>2. UpsetProved!Spec => []UpsetProved!CommittedStaysAlone
  <2>1. UpsetProved!TurnsAssumed
    BY HistoryAssumption DEF UpsetProved!TurnsAssumed, UpsetProved!IsFiniteSet, IsFiniteSet
  <2> QED
    BY <2>1, UpsetProved!CommitsAreKept
<1>3. LogProved!CommittedStaysAlone /\ UpsetProved!CommittedStaysAlone => CommittedStaysAlone
  BY DEF LogProved!CommittedStaysAlone, LogProved!CommittedStays,
         LogProved!Members, Log!CommittedStaysAlone, Log!CommittedStays,
         Log!Members, UpsetProved!CommittedStaysAlone,
         UpsetProved!CommittedStays, UpsetProved!Members,
         Upset!CommittedStaysAlone, Upset!CommittedStays, Upset!Members,
         CommittedStaysAlone
<1> QED
  BY <1>1, <1>2, <1>3, LogBehaves, LogSame, UpsetBehaves, UpsetSame, PTL

(* A committed turn does not bring back what another turn has compacted,   *)
(* under the same conditions.                                              *)
THEOREM HistoryIsNotResurrected == AllSpec => []NoResurrection
<1>1. LogProved!Spec => []LogProved!NoResurrection
  <2>1. LogProved!TurnsAssumed
    BY HistoryAssumption DEF LogProved!TurnsAssumed, LogProved!IsFiniteSet, IsFiniteSet
  <2> QED
    BY <2>1, LogProved!SummariesReplace
<1>2. UpsetProved!Spec => []UpsetProved!NoResurrection
  <2>1. UpsetProved!TurnsAssumed
    BY HistoryAssumption DEF UpsetProved!TurnsAssumed, UpsetProved!IsFiniteSet, IsFiniteSet
  <2> QED
    BY <2>1, UpsetProved!SummariesReplace
<1>3. LogProved!NoResurrection /\ UpsetProved!NoResurrection => NoResurrection
  BY DEF LogProved!NoResurrection, LogProved!Members, Log!NoResurrection,
         Log!Members, UpsetProved!NoResurrection, UpsetProved!Members,
         Upset!NoResurrection, Upset!Members, NoResurrection
<1> QED
  BY <1>1, <1>2, <1>3, LogBehaves, LogSame, UpsetBehaves, UpsetSame, PTL

(* The variables of all services keep their types.                         *)
THEOREM ServicesTypeCorrect == AllSpec => []ServicesTypeOK
<1>1. GateProved!Spec => []GateProved!IInv
  BY GateAssumption, GateProved!InvariantHolds DEF Gate!Tasks, GateProved!Tasks
<1>2. GateProved!IInv => Gate!TypeOK
  BY DEF GateProved!IInv, GateProved!GateInv, GateProved!TypeOK, Gate!TypeOK,
         GateProved!Tasks, Gate!Tasks
<1>3. BusIInv => Bus!TypeOK
  BY DEF BusIInv
<1>4. WorkIInv => TypeOK
  BY DEF WorkIInv
<1>5. AgentProved!Spec => []AgentProved!TypeOK
  <2>1. AgentProved!Limits
    BY AgentAssumption DEF AgentProved!Limits
  <2> QED
    BY <2>1, AgentProved!TypeCorrectness
<1>6. AgentProved!TypeOK => Agent!TypeOK
  BY DEF AgentProved!TypeOK, Agent!TypeOK, AgentProved!Slots, Agent!Slots,
         AgentProved!Finished, Agent!Finished
<1>7. LogProved!Spec => []LogProved!TypeOK
  <2>1. LogProved!TurnsAssumed
    BY HistoryAssumption DEF LogProved!TurnsAssumed, LogProved!IsFiniteSet, IsFiniteSet
  <2> QED
    BY <2>1, LogProved!TypeCorrectness
<1>8. UpsetProved!Spec => []UpsetProved!TypeOK
  <2>1. UpsetProved!TurnsAssumed
    BY HistoryAssumption DEF UpsetProved!TurnsAssumed, UpsetProved!IsFiniteSet, IsFiniteSet
  <2> QED
    BY <2>1, UpsetProved!TypeCorrectness
<1>9. LogProved!TypeOK => Log!TypeOK
  BY DEF LogProved!TypeOK, LogProved!Members, LogProved!Pieces, LogProved!Old,
         LogProved!Parts, LogProved!Summary, LogProved!Question,
         LogProved!Answer, LogProved!Woken, LogProved!Cardinality, Log!TypeOK,
         Log!Members, Log!Pieces, Log!Old, Log!Parts, Log!Summary,
         Log!Question, Log!Answer, Log!Woken, Log!Cardinality
<1>10. UpsetProved!TypeOK => Upset!TypeOK
  BY DEF UpsetProved!TypeOK, UpsetProved!Members, UpsetProved!Pieces,
         UpsetProved!Old, UpsetProved!Parts, UpsetProved!Summary,
         UpsetProved!Question, UpsetProved!Answer, UpsetProved!Woken,
         UpsetProved!Cardinality, Upset!TypeOK, Upset!Members, Upset!Pieces,
         Upset!Old, Upset!Parts, Upset!Summary, Upset!Question, Upset!Answer,
         Upset!Woken, Upset!Cardinality
<1>11. /\ Gate!TypeOK /\ Bus!TypeOK /\ TypeOK /\ Agent!TypeOK /\ Chat!TypeOK
       /\ Job!TypeOK /\ Log!TypeOK /\ Upset!TypeOK /\ Waiters!TypeOK
       => ServicesTypeOK
  BY DEF ServicesTypeOK
<1> QED
  BY <1>1, <1>2, <1>3, <1>4, <1>5, <1>6, <1>7, <1>8, <1>9, <1>10, <1>11,
     GateBehaves, GateSame, BusBehaves, BusInvariantHolds, WorkBehaves, WorkInvariantHolds,
     AgentBehaves, AgentSame, ChatBehaves, ChatTypes, JobBehaves, JobTypes,
     LogBehaves, LogSame, UpsetBehaves, UpsetSame, WaitersBehaves, WaitersTypes, PTL
=============================================================================
