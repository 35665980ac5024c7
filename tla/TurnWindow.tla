----------------------------- MODULE TurnWindow -----------------------------
(***************************************************************************)
(* pipeline/turn_window.py with the two pipeline stages that call it: the  *)
(* messages that a user sends one after the other in a private chat are    *)
(* buffered in a window and go to the model as one turn, after a quiet     *)
(* time, or when the window has been open for max_total_seconds.  A typing *)
(* notice stops the clock of the window until the typing stops, or until a *)
(* guard decides that the stop notice was lost.                            *)
(*                                                                         *)
(* In a private chat one user writes, so that the chat is the key of the   *)
(* window and of the typing notices.  Nothing in the manager suspends but  *)
(* its timers; a cancelled timer task has no further effect.  Time goes by *)
(* in ticks, and a timer that is due fires before the next one.            *)
(***************************************************************************)
EXTENDS FiniteSets, WaitQueue

CONSTANTS
  Chats,         \* private chats
  Msgs,          \* messages
  ChatOf,        \* ChatOf[m]: the chat of message m
  Bare,          \* messages without the prefix that wakes the model
  Tasks,         \* identities of flush tasks; a free one is used again
  MaxWindows, MaxFragments, MaxTyping,
  Wait,          \* wait_seconds
  MaxTotal,      \* max_total_seconds
  TypingWait,    \* max_typing_wait
  NoWindow, NoTask, NoTimer, NoGuard

Window == [frags : Seq(Msgs), age : 0 .. MaxTotal + 1, paused : BOOLEAN,
           task : Tasks \cup {NoTask}]
Timer == [chat : Chats, left : Nat]

ASSUME ChatOfAssumption == ChatOf \in [Msgs -> Chats]
ASSUME BareAssumption == Bare \subseteq Msgs
ASSUME LimitAssumption == {MaxWindows, MaxFragments, MaxTyping} \subseteq Nat \ {0}
ASSUME TasksAssumption ==
  \E S \in SUBSET Tasks : IsFiniteSet(S) /\ Cardinality(S) = MaxWindows
ASSUME TimeAssumption == {Wait, MaxTotal, TypingWait} \subseteq Nat
ASSUME NoneAssumption ==
  /\ NoWindow \notin Window
  /\ NoTask \notin Tasks
  /\ NoTimer \notin Timer
  /\ NoGuard \notin Nat

VARIABLES
  window,  \* window[k]: the entry of _windows; age is the time since opened_at,
           \* task the flush_task
  order,   \* the keys of _windows, oldest first
  timer,   \* timer[t]: what the flush task t sleeps for
  typing,  \* the keys of _typing, oldest first
  guard,   \* guard[k]: what the guard task of _typing_tasks still sleeps for
  stage    \* stage[m]: where message m is

vars == <<window, order, timer, typing, guard, stage>>

Open == {k \in Chats : window[k] # NoWindow}
Typing(k) == k \in Members(typing)
Fragments(k) == Members(window[k].frags)
Live == {t \in Tasks : timer[t] # NoTimer}

TypeOK ==
  /\ window \in [Chats -> Window \cup {NoWindow}]
  /\ order \in Seq(Chats) /\ Len(order) <= MaxWindows
  /\ \A k \in Open : Len(window[k].frags) \in 1 .. MaxFragments
  /\ timer \in [Tasks -> Timer \cup {NoTimer}]
  /\ typing \in Seq(Chats) /\ Len(typing) <= MaxTyping
  /\ guard \in [Chats -> 0 .. TypingWait \cup {NoGuard}]
  /\ stage \in [Msgs -> {"new", "woken", "stopped", "buffered", "flushed",
                         "dropped", "refused"}]

Init ==
  /\ window = [k \in Chats |-> NoWindow]
  /\ order = <<>>
  /\ timer = [t \in Tasks |-> NoTimer]
  /\ typing = <<>>
  /\ guard = [k \in Chats |-> NoGuard]
  /\ stage = [m \in Msgs |-> "new"]

-----------------------------------------------------------------------------
(* Timers and windows *)

(* A mutant of Cancelled: the task is forgotten but not cancelled.         *)
CancelledNone(ks) == timer

(* _cancel_window_task: what the timers are without those of chats ks.     *)
Cancelled(ks) ==
  [t \in Tasks |-> IF \E k \in ks \cap Open : window[k].task = t
                     THEN NoTimer ELSE timer[t]]

(* A mutant of Delay: every fragment gets the whole quiet time.            *)
DelayUncut(age) == Wait

(* The quiet time, cut short by the end of the window's life.              *)
Delay(age) ==
  CASE age >= MaxTotal -> 0
    [] age < MaxTotal /\ MaxTotal - age < Wait -> MaxTotal - age
    [] OTHER -> Wait

(* _arm_flush for window w of chat k, with the timers of chats ks already  *)
(* cancelled; `others' are the windows beside it.                          *)
ArmFlush(k, w, others, ks) ==
  LET left == Cancelled(ks \cup {k})
      t == CHOOSE t \in Tasks : left[t] = NoTimer
  IN IF w.paused
       THEN /\ window' = [others EXCEPT ![k] = w]
            /\ timer' = Cancelled(ks)
       ELSE /\ window' = [others EXCEPT ![k] = [w EXCEPT !.task = t]]
            /\ timer' = [left EXCEPT ![t] = [chat |-> k, left |-> Delay(w.age)]]

(* The keys of an OrderedDict after those of chats ks were popped.         *)
Popped(keys, ks) == Kept(keys, Chats \ ks)

(* A mutant of Closed: the window is read from the table and stays there.  *)
ClosedNot(ks) == window

Closed(ks) == [k \in Chats |-> IF k \in ks THEN NoWindow ELSE window[k]]

Staged(ms, s) == [m \in Msgs |-> IF m \in ms THEN s ELSE stage[m]]

FragmentsOf(ks) == UNION {Fragments(k) : k \in ks}

(* The windows of chats ks are thrown away with their fragments.           *)
Drop(ks) ==
  /\ window' = Closed(ks)
  /\ order' = Popped(order, ks)
  /\ timer' = Cancelled(ks)
  /\ stage' = Staged(FragmentsOf(ks), "dropped")

-----------------------------------------------------------------------------
(* The pipeline *)

(* The waking stage lets a message without prefix through only as the      *)
(* continuation of an open turn.  Admission and session checks follow, so  *)
(* that the coalesce stage sees the message in a later step.               *)
Wake(m) ==
  /\ stage[m] = "new"
  /\ stage' = [stage EXCEPT ![m] =
                 IF m \in Bare /\ ChatOf[m] \notin Open THEN "stopped" ELSE "woken"]
  /\ UNCHANGED <<window, order, timer, typing, guard>>

(* A mutant of Evicted: one window too many.                               *)
EvictedLate == IF Len(order) <= MaxWindows THEN {} ELSE {order[1]}

(* _evict_oldest_window                                                    *)
Evicted == IF Len(order) < MaxWindows THEN {} ELSE {order[1]}

(* A mutant of Opened: the typing that is under way is not looked up.      *)
OpenedRunning(m) ==
  [frags |-> <<m>>, age |-> 0, paused |-> FALSE, task |-> NoTask]

(* The window that message m opens.                                        *)
Opened(m) ==
  [frags |-> <<m>>, age |-> 0, paused |-> Typing(ChatOf[m]), task |-> NoTask]

(* accept, for the first message of a turn.                                *)
AcceptFirst(m) ==
  LET k == ChatOf[m]
  IN /\ stage[m] = "woken"
     /\ k \notin Open
     /\ ArmFlush(k, Opened(m), Closed(Evicted), Evicted)
     /\ order' = Append(Popped(order, Evicted), k)
     /\ stage' = [Staged(FragmentsOf(Evicted), "dropped") EXCEPT ![m] = "buffered"]
     /\ UNCHANGED <<typing, guard>>

(* accept, for a later one; the oldest fragment makes room.                *)
AcceptMore(m) ==
  LET k == ChatOf[m]
      w == window[k]
      full == Len(w.frags) >= MaxFragments
      kept == IF full THEN Tail(w.frags) ELSE w.frags
  IN /\ stage[m] = "woken"
     /\ k \in Open
     /\ ArmFlush(k, [w EXCEPT !.frags = Append(kept, m)], window, {})
     /\ stage' = [Staged(IF full THEN {Head(w.frags)} ELSE {}, "dropped")
                    EXCEPT ![m] = "buffered"]
     /\ UNCHANGED <<order, typing, guard>>

(* discard: a command arrives in the chat.                                 *)
Discard(k) ==
  /\ k \in Open
  /\ Drop({k})
  /\ UNCHANGED <<typing, guard>>

(* recall: a message is withdrawn while it is buffered; the timer of a     *)
(* window that keeps other fragments goes on.                              *)
Recall(m) ==
  LET k == ChatOf[m]
      kept == Kept(window[k].frags, Msgs \ {m})
  IN /\ k \in Open
     /\ m \in Fragments(k)
     /\ IF kept = <<>>
          THEN Drop({k})
          ELSE /\ window' = [window EXCEPT ![k].frags = kept]
               /\ stage' = [stage EXCEPT ![m] = "dropped"]
               /\ UNCHANGED <<order, timer>>
     /\ UNCHANGED <<typing, guard>>

-----------------------------------------------------------------------------
(* Typing notices *)

(* _evict_oldest_typing: the chat whose typing is forgotten, if any.       *)
Forgotten == IF Len(typing) < MaxTyping THEN {} ELSE {typing[1]}

(* pause_typing: a first start notice; further ones change nothing.        *)
PauseTyping(k) ==
  LET stopped == IF k \notin Open THEN window
                   ELSE [window EXCEPT ![k].paused = TRUE, ![k].task = NoTask]
      woken == Forgotten \cap Open
  IN /\ ~Typing(k)
     /\ typing' = Append(Popped(typing, Forgotten), k)
     /\ guard' = [j \in Chats |-> CASE j = k -> TypingWait
                                    [] j \in Forgotten -> NoGuard
                                    [] OTHER -> guard[j]]
     /\ IF woken = {}
          THEN window' = stopped /\ timer' = Cancelled({k})
          ELSE \A j \in woken :
                 ArmFlush(j, [window[j] EXCEPT !.paused = FALSE], stopped, {k})
     /\ UNCHANGED <<order, stage>>

(* resume_typing                                                           *)
ResumeTyping(k) ==
  /\ Typing(k)
  /\ typing' = Popped(typing, {k})
  /\ guard' = [guard EXCEPT ![k] = NoGuard]
  /\ IF k \in Open
       THEN ArmFlush(k, [window[k] EXCEPT !.paused = FALSE], window, {})
       ELSE UNCHANGED <<window, timer>>
  /\ UNCHANGED <<order, stage>>

(* A mutant of GuardFires: the typing ends but the window is not re-armed. *)
GuardForgets(k) ==
  /\ guard[k] = 0
  /\ typing' = Popped(typing, {k})
  /\ guard' = [guard EXCEPT ![k] = NoGuard]
  /\ UNCHANGED <<window, timer, order, stage>>

(* _resume_typing_after_guard: the stop notice did not come in time.       *)
GuardFires(k) == guard[k] = 0 /\ ResumeTyping(k)

-----------------------------------------------------------------------------
(* Timers *)

(* _flush_after wakes: the window is taken out and its fragments go back   *)
(* to the event queue as one event, if the queue has room.                 *)
Flush(t) ==
  LET k == timer[t].chat
  IN /\ t \in Live
     /\ timer[t].left = 0
     /\ timer' = [timer EXCEPT ![t] = NoTimer]
     /\ window' = Closed({k})
     /\ order' = Popped(order, {k})
     /\ \E outcome \in {"flushed", "refused"} :
          stage' = Staged(FragmentsOf({k} \cap Open), outcome)
     /\ UNCHANGED <<typing, guard>>

(* discard_all: a profile is reloaded, or the runtime stops.               *)
DiscardAll ==
  /\ Drop(Open)
  /\ typing' = <<>>
  /\ guard' = [k \in Chats |-> NoGuard]

Older(w) == IF w = NoWindow THEN w
              ELSE [w EXCEPT !.age = IF @ > MaxTotal THEN @ ELSE @ + 1]

Tick ==
  /\ \A t \in Live : timer[t].left > 0
  /\ \A k \in Chats : guard[k] # 0
  /\ window' = [k \in Chats |-> Older(window[k])]
  /\ timer' = [t \in Tasks |-> IF t \in Live THEN [timer[t] EXCEPT !.left = @ - 1]
                                             ELSE NoTimer]
  /\ guard' = [k \in Chats |-> IF guard[k] = NoGuard THEN NoGuard ELSE guard[k] - 1]
  /\ UNCHANGED <<order, typing, stage>>

-----------------------------------------------------------------------------

Next ==
  \/ \E m \in Msgs : Wake(m) \/ AcceptFirst(m) \/ AcceptMore(m) \/ Recall(m)
  \/ \E k \in Chats :
       Discard(k) \/ PauseTyping(k) \/ ResumeTyping(k) \/ GuardFires(k)
  \/ \E t \in Tasks : Flush(t)
  \/ DiscardAll
  \/ Tick

Spec == Init /\ [][Next]_vars

(* Time goes on and timers fire.  A notice may cancel a timer that is due, *)
(* but it does not come just before the timer again and again.             *)
Fairness ==
  /\ WF_vars(Tick)
  /\ \A k \in Chats : WF_vars(GuardFires(k))
  /\ \A t \in Tasks : SF_vars(Flush(t))

FairSpec == Spec /\ Fairness

-----------------------------------------------------------------------------
(* Properties *)

(* Every window is on its way out: it sleeps on one flush task, its own,   *)
(* or it is paused and has none.  No flush task outlives its window and    *)
(* takes out the next one of the chat before its time.                     *)
TimerExact ==
  /\ \A k \in Open :
       IF window[k].paused
         THEN window[k].task = NoTask
         ELSE window[k].task \in Live /\ timer[window[k].task].chat = k
  /\ \A t \in Live : timer[t].chat \in Open /\ window[timer[t].chat].task = t

(* A window is paused exactly while its user is known to type, also when   *)
(* it is opened during the typing or the typing table is full, and a guard *)
(* stands by to resume it.                                                 *)
PauseGuarded ==
  \A k \in Chats :
    /\ k \in Open => (window[k].paused <=> Typing(k))
    /\ Typing(k) <=> guard[k] # NoGuard

(* New fragments, recalls and pauses never put off the flush beyond the    *)
(* life of the window (_arm_flush).                                        *)
FlushInTime ==
  \A t \in Live :
    timer[t].left > 0 => timer[t].left + window[timer[t].chat].age <= MaxTotal

(* Every accepted fragment is in the one open window of its chat, once,    *)
(* until it is flushed or dropped, and the table and its order agree.      *)
FragmentsHeld ==
  /\ \A m \in Msgs :
       stage[m] = "buffered" <=> ChatOf[m] \in Open /\ m \in Fragments(ChatOf[m])
  /\ \A k \in Open : Cardinality(Fragments(k)) = Len(window[k].frags)
  /\ Cardinality(Open) = Len(order)
  /\ Open = Members(order)

(* What the proofs of the properties above need besides them: a window     *)
(* holds messages of its own chat, and no key or fragment comes twice.     *)
OwnChat == \A k \in Open : \A m \in Fragments(k) : ChatOf[m] = k
OnceEach ==
  /\ Distinct(order)
  /\ Distinct(typing)
  /\ \A k \in Open : Distinct(window[k].frags)

(* The inductive invariant.                                                *)
IInv ==
  /\ TypeOK
  /\ TimerExact
  /\ PauseGuarded
  /\ FlushInTime
  /\ FragmentsHeld
  /\ OwnChat
  /\ OnceEach

(* No message stays in the buffer, whatever typing notices are lost.       *)
BufferedEnds == \A m \in Msgs : stage[m] = "buffered" ~> stage[m] # "buffered"
=============================================================================
