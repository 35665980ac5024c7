---------------------------- MODULE SessionMutex ----------------------------
(***************************************************************************)
(* What SessionLockManager.acquire_lock promises to its callers: for each  *)
(* slot (an event loop and a session key) at most one task is inside, and  *)
(* the tasks that wait are let in in the order in which they asked, except *)
(* the ones that were cancelled.  No lock object, no reference count and   *)
(* no future appears here; SessionLock implements this specification, and  *)
(* FollowUp uses its actions where the pipeline takes the session lock.    *)
(***************************************************************************)
EXTENDS WaitQueue

CONSTANTS Tasks, Slots, NoTask

VARIABLES
  line,   \* line[s]: the tasks that wait for slot s, oldest first
  owner   \* owner[s]: the task inside slot s, or NoTask

vars == <<line, owner>>

InLine(t, s) == LET q == line[s] IN \E i \in DOMAIN q : q[i] = t

Init ==
  /\ line = [s \in Slots |-> <<>>]
  /\ owner = [s \in Slots |-> NoTask]

(* A task that finds the slot free and nobody waiting goes straight in.    *)
Grab(t, s) ==
  /\ owner[s] = NoTask
  /\ line[s] = <<>>
  /\ owner' = [owner EXCEPT ![s] = t]
  /\ UNCHANGED line

(* Any other task joins the end of the line.                               *)
Enqueue(t, s) ==
  /\ owner[s] # t
  /\ ~InLine(t, s)
  /\ line' = [line EXCEPT ![s] = Append(@, t)]
  /\ UNCHANGED owner

(* Only the oldest waiting task enters, and only when nobody is inside.    *)
Handover(t, s) ==
  /\ owner[s] = NoTask
  /\ line[s] # <<>>
  /\ Head(line[s]) = t
  /\ line' = [line EXCEPT ![s] = Tail(@)]
  /\ owner' = [owner EXCEPT ![s] = t]

Release(t, s) ==
  /\ owner[s] = t
  /\ owner' = [owner EXCEPT ![s] = NoTask]
  /\ UNCHANGED line

(* A cancelled task leaves the line wherever it stands.                    *)
Quit(t, s) ==
  /\ InLine(t, s)
  /\ line' = [line EXCEPT ![s] = Without(@, t)]
  /\ UNCHANGED owner

Next ==
  \E t \in Tasks, s \in Slots :
    \/ Grab(t, s)
    \/ Enqueue(t, s)
    \/ Handover(t, s)
    \/ Release(t, s)
    \/ Quit(t, s)

Spec == Init /\ [][Next]_vars
=============================================================================
