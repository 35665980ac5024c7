---------------------------- MODULE SessionLock -----------------------------
(***************************************************************************)
(* utils/session_lock.py: a table of asyncio locks, one per session key    *)
(* and event loop, created on demand and dropped when the last user has    *)
(* gone.  A user is counted before it waits, so that a lock that somebody  *)
(* waits for is never dropped from the table.                              *)
(*                                                                         *)
(* One step is what a task does between two suspensions.  The critical     *)
(* sections under _access_lock never suspend, so _access_lock is never     *)
(* seen taken by another task of its loop and needs no variable.           *)
(*                                                                         *)
(* The asyncio lock is modelled with its waiters' futures, because a       *)
(* cancelled waiter stays in the queue until its task runs again, and a    *)
(* waiter that was already woken can still be cancelled.                   *)
(***************************************************************************)
EXTENDS Naturals, FiniteSets, WaitQueue

CONSTANTS
  Tasks,      \* the tasks that call acquire_lock
  Loops,      \* the event loops
  Sessions,   \* the session keys
  LoopOf,     \* LoopOf[t]: the loop that runs task t
  Locks,      \* identities of asyncio.Lock objects
  NoLock      \* "the table has no entry"

ASSUME LoopOfAssumption == LoopOf \in [Tasks -> Loops]
ASSUME NoLockAssumption == NoLock \notin Locks \cup Tasks
ASSUME TasksAssumption == IsFiniteSet(Tasks)
Slots == Loops \X Sessions
NoSlot == <<>>

VARIABLES
  table,    \* table[s]: the entry of _locks, or NoLock
  count,    \* count[s]: the entry of _lock_count, 0 when there is none
  locked,   \* locked[l]: asyncio.Lock._locked
  waiters,  \* waiters[l]: asyncio.Lock._waiters, by task
  fut,      \* fut[t]: the future task t waits on
  doomed,   \* tasks cancelled after their future was set
  pc,       \* where task t is in acquire_lock
  slot,     \* slot[t]: the slot task t asked for, NoSlot outside
  mine      \* mine[t]: the local variable `lock' of task t

vars == <<table, count, locked, waiters, fut, doomed, pc, slot, mine>>

TypeOK ==
  /\ table \in [Slots -> Locks \cup {NoLock}]
  /\ count \in [Slots -> Nat]
  /\ locked \in [Locks -> BOOLEAN]
  /\ waiters \in [Locks -> Seq(Tasks)]
  /\ fut \in [Tasks -> {"pending", "set", "cancelled"}]
  /\ doomed \in SUBSET Tasks
  /\ pc \in [Tasks -> {"out", "waiting", "in"}]
  /\ slot \in [Tasks -> Slots \cup {NoSlot}]
  /\ mine \in [Tasks -> Locks \cup {NoLock}]

-----------------------------------------------------------------------------

(* An object is collected once neither the table nor a task refers to it.  *)
Unreferenced ==
  {l \in Locks : /\ \A s \in Slots : table[s] # l
                 /\ \A t \in Tasks : mine[t] # l}

(* _wake_up_first: the oldest waiter's future is set unless it is done.    *)
WokenIn(queue, futures) ==
  IF queue # <<>> /\ futures[Head(queue)] = "pending"
    THEN [futures EXCEPT ![Head(queue)] = "set"]
    ELSE futures

(* Mutant: the entry goes with every user.                                 *)
UncountedDrops(t, s) ==
  /\ count' = [count EXCEPT ![s] = @ - 1]
  /\ table' = [table EXCEPT ![s] = NoLock]
  /\ slot' = [slot EXCEPT ![t] = NoSlot]
  /\ mine' = [mine EXCEPT ![t] = NoLock]

(* The count goes down, the entry goes with its last user, and the locals  *)
(* of the call are gone.                                                   *)
Uncounted(t, s) ==
  /\ count' = [count EXCEPT ![s] = @ - 1]
  /\ table' = [table EXCEPT ![s] = IF count[s] = 1 THEN NoLock ELSE @]
  /\ slot' = [slot EXCEPT ![t] = NoSlot]
  /\ mine' = [mine EXCEPT ![t] = NoLock]

Init ==
  /\ table = [s \in Slots |-> NoLock]
  /\ count = [s \in Slots |-> 0]
  /\ locked = [l \in Locks |-> FALSE]
  /\ waiters = [l \in Locks |-> <<>>]
  /\ fut = [t \in Tasks |-> "pending"]
  /\ doomed = {}
  /\ pc = [t \in Tasks |-> "out"]
  /\ slot = [t \in Tasks |-> NoSlot]
  /\ mine = [t \in Tasks |-> NoLock]

-----------------------------------------------------------------------------

(* Mutant: only the user that creates the entry is counted.                *)
CountedOnce(t, s, l) ==
  /\ IF table[s] = NoLock THEN l \in Unreferenced ELSE l = table[s]
  /\ table' = [table EXCEPT ![s] = l]
  /\ count' = [count EXCEPT ![s] = IF table[s] = NoLock THEN 1 ELSE @]
  /\ slot' = [slot EXCEPT ![t] = s]
  /\ mine' = [mine EXCEPT ![t] = l]

(* The entry is found or created and counted.                              *)
Counted(t, s, l) ==
  /\ IF table[s] = NoLock THEN l \in Unreferenced ELSE l = table[s]
  /\ table' = [table EXCEPT ![s] = l]
  /\ count' = [count EXCEPT ![s] = @ + 1]
  /\ slot' = [slot EXCEPT ![t] = s]
  /\ mine' = [mine EXCEPT ![t] = l]

(* acquire_lock, when the lock is free and no live waiter is before us.    *)
EnterAtOnce(t, s, l) ==
  /\ pc[t] = "out"
  /\ Counted(t, s, l)
  /\ ~locked[l]
  /\ \A i \in DOMAIN waiters[l] : fut[waiters[l][i]] = "cancelled"
  /\ locked' = [locked EXCEPT ![l] = TRUE]
  /\ pc' = [pc EXCEPT ![t] = "in"]
  /\ UNCHANGED <<waiters, fut, doomed>>

(* acquire_lock, when we have to wait.                                     *)
EnterAndWait(t, s, l) ==
  /\ pc[t] = "out"
  /\ Counted(t, s, l)
  /\ \/ locked[l]
     \/ \E i \in DOMAIN waiters[l] : fut[waiters[l][i]] # "cancelled"
  /\ waiters' = [waiters EXCEPT ![l] = Append(@, t)]
  /\ fut' = [fut EXCEPT ![t] = "pending"]
  /\ pc' = [pc EXCEPT ![t] = "waiting"]
  /\ UNCHANGED <<locked, doomed>>

(* A woken waiter runs again and takes the lock.                           *)
Resume(t) ==
  /\ pc[t] = "waiting"
  /\ fut[t] = "set"
  /\ t \notin doomed
  /\ waiters' = [waiters EXCEPT ![mine[t]] = Without(@, t)]
  /\ locked' = [locked EXCEPT ![mine[t]] = TRUE]
  /\ pc' = [pc EXCEPT ![t] = "in"]
  /\ UNCHANGED <<table, count, fut, doomed, slot, mine>>

(* Somebody cancels a waiting task: its future, or, if that is already     *)
(* set, the task itself, at its next step.                                 *)
Cancel(t) ==
  /\ pc[t] = "waiting"
  /\ fut[t] # "cancelled"
  /\ t \notin doomed
  /\ IF fut[t] = "pending"
       THEN fut' = [fut EXCEPT ![t] = "cancelled"] /\ UNCHANGED doomed
       ELSE doomed' = doomed \cup {t} /\ UNCHANGED fut
  /\ UNCHANGED <<table, count, locked, waiters, pc, slot, mine>>

(* Mutant: a cancelled task does not pass the wake-up on.                  *)
ResumeCancelledSilently(t) ==
  /\ pc[t] = "waiting"
  /\ fut[t] = "cancelled" \/ t \in doomed
  /\ waiters' = [waiters EXCEPT ![mine[t]] = Without(@, t)]
  /\ doomed' = doomed \ {t}
  /\ Uncounted(t, slot[t])
  /\ pc' = [pc EXCEPT ![t] = "out"]
  /\ UNCHANGED <<locked, fut>>

(* The cancelled task runs: it leaves the queue, passes the wake-up on     *)
(* when the lock is free, and gives up its count.                          *)
ResumeCancelled(t) ==
  /\ pc[t] = "waiting"
  /\ fut[t] = "cancelled" \/ t \in doomed
  /\ LET queue == Without(waiters[mine[t]], t)
     IN /\ waiters' = [waiters EXCEPT ![mine[t]] = queue]
        /\ fut' = IF locked[mine[t]] THEN fut ELSE WokenIn(queue, fut)
  /\ doomed' = doomed \ {t}
  /\ Uncounted(t, slot[t])
  /\ pc' = [pc EXCEPT ![t] = "out"]
  /\ UNCHANGED locked

(* The body ends, normally, by an exception or by cancellation: the lock   *)
(* is released, the oldest waiter woken, the count given up.               *)
Exit(t) ==
  /\ pc[t] = "in"
  /\ locked' = [locked EXCEPT ![mine[t]] = FALSE]
  /\ fut' = WokenIn(waiters[mine[t]], fut)
  /\ Uncounted(t, slot[t])
  /\ pc' = [pc EXCEPT ![t] = "out"]
  /\ UNCHANGED <<waiters, doomed>>

Enter(t) ==
  \E x \in Sessions, l \in Locks :
    \/ EnterAtOnce(t, <<LoopOf[t], x>>, l)
    \/ EnterAndWait(t, <<LoopOf[t], x>>, l)

Next ==
  \E t \in Tasks :
    \/ Enter(t)
    \/ Resume(t)
    \/ Cancel(t)
    \/ ResumeCancelled(t)
    \/ Exit(t)

Spec == Init /\ [][Next]_vars

(* The loop runs every ready task, and a body that holds the lock ends;    *)
(* nobody is obliged to ask for the lock or to cancel.                     *)
FairSpec ==
  /\ Spec
  /\ \A t \in Tasks : WF_vars(Resume(t)) /\ WF_vars(ResumeCancelled(t))
  /\ \A t \in Tasks : WF_vars(Exit(t))

-----------------------------------------------------------------------------
(* Properties *)

Inside(s) == {t \in Tasks : pc[t] = "in" /\ slot[t] = s}
Users(s) == {t \in Tasks : pc[t] # "out" /\ slot[t] = s}

(* Two tasks of one event loop are never inside the same session at once,  *)
(* whatever enters, waits and is cancelled around them (the purpose of     *)
(* acquire_lock).                                                          *)
MutualExclusion ==
  \A t, u \in Tasks :
    pc[t] = "in" /\ pc[u] = "in" /\ slot[t] = slot[u] => t = u

(* Everybody who is waiting for or inside a session holds the very lock    *)
(* object the table holds for it: the table never drops a lock that is in  *)
(* use and hands a second one to the next caller.                          *)
OneLockPerSlot ==
  \A t \in Tasks : pc[t] # "out" => mine[t] # NoLock /\ mine[t] = table[slot[t]]

(* A lock object serves a single session of a single loop, also when its   *)
(* identity is used again after it was collected.                          *)
NoSharedLock ==
  \A s, r \in Slots : table[s] # NoLock /\ table[s] = table[r] => s = r

(* The reference count is the number of tasks between their entry and      *)
(* their exit, after any exception or cancellation, and the entry is there *)
(* exactly while somebody counts on it.                                    *)
CountExact ==
  \A s \in Slots : /\ count[s] = Cardinality(Users(s))
                   /\ count[s] = 0 <=> table[s] = NoLock

(* A free lock that somebody waits for has always woken, or is about to    *)
(* wake, a waiter: a cancellation never swallows the wake-up.              *)
NoLostWakeup ==
  \A l \in Locks :
    ~locked[l] /\ waiters[l] # <<>> => fut[Head(waiters[l])] # "pending"

(* Waiting tasks get in or are cancelled, when every body ends.            *)
WaitEnds == \A t \in Tasks : pc[t] = "waiting" ~> pc[t] # "waiting"

(* What the proofs of the properties above need besides them.              *)

(* Outside acquire_lock a task has no locals; inside it asked for a slot   *)
(* of its own loop.                                                        *)
LocalsFit ==
  \A t \in Tasks :
    IF pc[t] = "out" THEN slot[t] = NoSlot /\ mine[t] = NoLock
                     ELSE slot[t] \in Slots /\ mine[t] \in Locks

(* A lock's queue holds each of the tasks that wait for it, once.          *)
QueueExact ==
  \A l \in Locks :
    /\ \A i, j \in 1 .. Len(waiters[l]) : waiters[l][i] = waiters[l][j] => i = j
    /\ \A t \in Tasks : (\E i \in 1 .. Len(waiters[l]) : waiters[l][i] = t)
                          <=> pc[t] = "waiting" /\ mine[t] = l

(* The body runs with its lock taken, and a waiter has been woken only at  *)
(* the head of the queue of a free lock.                                   *)
WokenFirst ==
  \A t \in Tasks :
    /\ pc[t] = "in" => locked[mine[t]]
    /\ pc[t] = "waiting" /\ fut[t] = "set"
         => ~locked[mine[t]] /\ Head(waiters[mine[t]]) = t

(* Only a waiter that was woken before it was cancelled is doomed.         *)
DoomedWoken == \A t \in doomed : pc[t] = "waiting" /\ fut[t] = "set"

(* The inductive invariant.                                                *)
IInv ==
  /\ TypeOK
  /\ LocalsFit
  /\ OneLockPerSlot
  /\ NoSharedLock
  /\ CountExact
  /\ QueueExact
  /\ WokenFirst
  /\ MutualExclusion
  /\ NoLostWakeup

-----------------------------------------------------------------------------
(* The lock manager implements the first-come first-served mutex: a task   *)
(* stands in line until it enters or is cancelled, which may be long       *)
(* before it leaves the deque, and the slot is its owner's while its body  *)
(* runs.                                                                   *)
LiveTasks == {t \in Tasks : fut[t] # "cancelled" /\ t \notin doomed}

Line(s) ==
  IF table[s] = NoLock THEN <<>> ELSE Kept(waiters[table[s]], LiveTasks)

Owner(s) == IF Inside(s) = {} THEN NoLock ELSE CHOOSE t \in Tasks : t \in Inside(s)

Mutex == INSTANCE SessionMutex WITH
  NoTask <- NoLock,
  line <- [s \in Slots |-> Line(s)],
  owner <- [s \in Slots |-> Owner(s)]

(* Every step of the lock manager is a step of SessionMutex or leaves its  *)
(* line and its owner alone.                                               *)
ImplementsMutex == Mutex!Spec
=============================================================================
