--------------------------- MODULE SessionWaiters ---------------------------
(***************************************************************************)
(* utils/session_waiter.py for one session: plugins wait for the next      *)
(* message of the session, messages are handed to the handler of the wait, *)
(* which may end it, prolong it or fail, and a timer ends it otherwise.    *)
(*                                                                         *)
(* Every wait has a filter of its own.  A wait whose place was taken by a  *)
(* later one of the same session keeps its filter and its timer, but no    *)
(* message reaches it any more.                                            *)
(***************************************************************************)
EXTENDS WaitQueue

CONSTANTS
  Waits,      \* calls of wait_for
  Events,     \* messages of the session
  NoWait

VARIABLES
  wait,       \* wait[w]: the task that waits
  future,     \* future[w]: the future of its controller
  current,    \* _sessions: the wait that messages are handed to
  filters,    \* _filters, by the waits they belong to
  timer,      \* waits with a timer that runs
  due,        \* due[w]: its timers that have expired and not resumed yet
  lock,       \* lock[w]: the messages at the lock of the wait; the first has it
  event,      \* event[e]: how far the dispatch of a message is
  rest,       \* rest[e]: how many filters it has not looked at yet
  running     \* the registry was not terminated

waitVars == <<wait, future, current, filters>>
timerVars == <<timer, due>>
eventVars == <<lock, event, rest>>
vars == <<waitVars, timerVars, eventVars, running>>

TypeOK ==
  /\ wait \in [Waits -> {"idle", "waiting", "over"}]
  /\ future \in [Waits -> {"none", "pending", "done"}]
  /\ current \in Waits \cup {NoWait}
  /\ Members(filters) \subseteq Waits
  /\ timer \subseteq Waits
  /\ \A w \in Waits : due[w] \in Nat /\ Members(lock[w]) \subseteq Events
  /\ event \in [Events -> {"idle", "scanning", "queued", "handling", "over"}]
  /\ \A e \in Events : rest[e] \in Nat
  /\ running \in BOOLEAN

Init ==
  /\ wait = [w \in Waits |-> "idle"]
  /\ future = [w \in Waits |-> "none"]
  /\ current = NoWait
  /\ filters = <<>>
  /\ timer = {}
  /\ due = [w \in Waits |-> 0]
  /\ lock = [w \in Waits |-> <<>>]
  /\ event = [e \in Events |-> "idle"]
  /\ rest = [e \in Events |-> 0]
  /\ running = TRUE

(* SessionController.stop: only the first call has an effect.              *)
Stop(w) == future' = [future EXCEPT ![w] = "done"]

-----------------------------------------------------------------------------
(* A wait *)

WaitBegins(w) ==
  /\ running
  /\ wait[w] = "idle"
  /\ wait' = [wait EXCEPT ![w] = "waiting"]
  /\ future' = [future EXCEPT ![w] = "pending"]
  /\ current' = w
  /\ filters' = Append(filters, w)
  /\ timer' = timer \cup {w}
  /\ UNCHANGED <<due, eventVars, running>>

(* The time is over; the timer resumes later and cannot be kept from it.   *)
Expires(w) ==
  /\ w \in timer
  /\ timer' = timer \ {w}
  /\ due' = [due EXCEPT ![w] = @ + 1]
  /\ UNCHANGED <<waitVars, eventVars, running>>

TimesOut(w) ==
  /\ due[w] > 0
  /\ due' = [due EXCEPT ![w] = @ - 1]
  /\ Stop(w)
  /\ UNCHANGED <<wait, current, filters, timer, eventVars, running>>

(* The task of the plugin is cancelled, and its future with it.            *)
WaitCancelled(w) ==
  /\ wait[w] = "waiting"
  /\ future[w] = "pending"
  /\ future' = [future EXCEPT ![w] = "done"]
  /\ UNCHANGED <<wait, current, filters, timerVars, eventVars, running>>

Unregister(w) == current' = IF current = w THEN NoWait ELSE current

(* The task resumes and cleans up; the timer is left to itself.            *)
WaitOver(w) ==
  /\ wait[w] = "waiting"
  /\ future[w] = "done"
  /\ wait' = [wait EXCEPT ![w] = "over"]
  /\ Unregister(w)
  /\ filters' = Kept(filters, Waits \ {w})
  /\ UNCHANGED <<future, timerVars, eventVars, running>>

-----------------------------------------------------------------------------
(* dispatch() *)

DispatchBegins(e) ==
  /\ event[e] = "idle"
  /\ event' = [event EXCEPT ![e] = "scanning"]
  /\ rest' = [rest EXCEPT ![e] = Len(filters)]
  /\ UNCHANGED <<waitVars, timerVars, lock, running>>

(* Every filter leads to the wait that has the session now.                *)
Looks(e) ==
  /\ event[e] = "scanning"
  /\ IF rest[e] = 0
       THEN event' = [event EXCEPT ![e] = "over"] /\ UNCHANGED <<lock, rest>>
       ELSE /\ rest' = [rest EXCEPT ![e] = @ - 1]
            /\ IF current = NoWait \/ (current # NoWait /\ future[current] = "done")
                 THEN UNCHANGED <<lock, event>>
                 ELSE /\ lock' = [lock EXCEPT ![current] = Append(@, e)]
                      /\ event' = [event EXCEPT ![e] = "queued"]
  /\ UNCHANGED <<waitVars, timerVars, running>>

Holds(e, w) == lock[w] # <<>> /\ Head(lock[w]) = e

Unlock(e, w) ==
  /\ lock' = [lock EXCEPT ![w] = Tail(@)]
  /\ event' = [event EXCEPT ![e] = "scanning"]

LockGained(e, w) ==
  /\ event[e] = "queued"
  /\ Holds(e, w)
  /\ IF future[w] = "done"
       THEN Unlock(e, w)
       ELSE event' = [event EXCEPT ![e] = "handling"] /\ UNCHANGED lock
  /\ UNCHANGED <<waitVars, timerVars, rest, running>>

(* The handler has stopped the wait, failed, prolonged it or left it alone. *)
Handled(e, w) ==
  /\ event[e] = "handling"
  /\ Holds(e, w)
  /\ Unlock(e, w)
  /\ \/ Stop(w) /\ UNCHANGED timer
     \/ timer' = timer \cup {w} /\ UNCHANGED future
     \/ UNCHANGED <<future, timer>>
  /\ UNCHANGED <<wait, current, filters, due, rest, running>>

-----------------------------------------------------------------------------

(* Mutant: the waits are forgotten without being stopped.                  *)
StopNone == UNCHANGED future

(* Only the wait that has the session is stopped.                          *)
StopRegistered == IF current = NoWait THEN UNCHANGED future ELSE Stop(current)

(* All timers are cancelled, also those of waits that were not stopped.    *)
Terminates ==
  /\ running
  /\ running' = FALSE
  /\ StopRegistered
  /\ current' = NoWait
  /\ filters' = <<>>
  /\ timer' = {}
  /\ due' = [w \in Waits |-> 0]
  /\ UNCHANGED <<wait, eventVars>>

OfWait(w) == Expires(w) \/ TimesOut(w) \/ WaitOver(w)

OfEvent(e) == Looks(e) \/ \E w \in Waits : LockGained(e, w) \/ Handled(e, w)

Next ==
  \/ \E w \in Waits : WaitBegins(w) \/ WaitCancelled(w) \/ OfWait(w)
  \/ \E e \in Events : DispatchBegins(e) \/ OfEvent(e)
  \/ Terminates

Spec == Init /\ [][Next]_vars

(* Time passes, and handlers end by themselves.                            *)
Fairness ==
  /\ \A w \in Waits : WF_vars(Expires(w)) /\ WF_vars(TimesOut(w)) /\ WF_vars(WaitOver(w))
  /\ \A e \in Events : WF_vars(OfEvent(e))

FairSpec == Spec /\ Fairness

-----------------------------------------------------------------------------
(* Properties *)

(* A wait that has the session ends, by its handler, its timer or the      *)
(* termination of the registry, unless another wait takes its place.       *)
WaiterEnds ==
  \A w \in Waits :
    current = w ~> wait[w] = "over" \/ current \in Waits \ {w}
=============================================================================
