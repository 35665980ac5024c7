-------------------------- MODULE TurnWindowProofs --------------------------
(***************************************************************************)
(* Proofs about TurnWindow, for any chats, messages, limits and times.     *)
(*                                                                         *)
(* The inductive invariant is taken apart by the tables it speaks of, so   *)
(* that each step is shown to keep the parts it touches: the windows with  *)
(* their timers (Timed), with their fragments (Held), with their order     *)
(* (Ordered) and with the typing notices (Guarded).                        *)
(***************************************************************************)
EXTENDS TurnWindow, WaitQueueProofs

(* Every window sleeps on its own timer or is paused, every timer is some  *)
(* window's and comes in time.                                             *)
Timed(win, tim) ==
  /\ win \in [Chats -> Window \cup {NoWindow}]
  /\ tim \in [Tasks -> Timer \cup {NoTimer}]
  /\ \A k \in Chats : win[k] # NoWindow =>
       IF win[k].paused
         THEN win[k].task = NoTask
         ELSE /\ win[k].task \in Tasks
              /\ tim[win[k].task] # NoTimer
              /\ tim[win[k].task].chat = k
  /\ \A t \in Tasks : tim[t] # NoTimer =>
       /\ win[tim[t].chat] # NoWindow
       /\ win[tim[t].chat].task = t
       /\ tim[t].left > 0 => tim[t].left + win[tim[t].chat].age <= MaxTotal

(* The buffered messages are the fragments of the windows of their chats.  *)
Held(win, at) ==
  /\ at \in [Msgs -> {"new", "woken", "stopped", "buffered", "flushed",
                      "dropped", "refused"}]
  /\ \A k \in Chats : win[k] # NoWindow =>
       /\ win[k].frags \in Seq(Msgs)
       /\ Len(win[k].frags) \in 1 .. MaxFragments
       /\ Distinct(win[k].frags)
       /\ \A m \in Members(win[k].frags) : ChatOf[m] = k /\ at[m] = "buffered"
  /\ \A m \in Msgs : at[m] = "buffered" =>
       win[ChatOf[m]] # NoWindow /\ m \in Members(win[ChatOf[m]].frags)

(* The order lists each open window once, and there are not too many.      *)
Ordered(win, keys) ==
  /\ keys \in Seq(Chats)
  /\ Len(keys) <= MaxWindows
  /\ Distinct(keys)
  /\ Members(keys) = {k \in Chats : win[k] # NoWindow}

(* A window is paused while its chat is in the typing table, which has a   *)
(* guard for each of its entries.                                          *)
Guarded(win, keys, left) ==
  /\ keys \in Seq(Chats)
  /\ Len(keys) <= MaxTyping
  /\ Distinct(keys)
  /\ left \in [Chats -> (0 .. TypingWait) \cup {NoGuard}]
  /\ \A k \in Chats :
       /\ win[k] # NoWindow => (win[k].paused <=> k \in Members(keys))
       /\ k \in Members(keys) <=> left[k] # NoGuard

Parts ==
  /\ Timed(window, timer)
  /\ Held(window, stage)
  /\ Ordered(window, order)
  /\ Guarded(window, typing, guard)

LEMMA IInvIsParts == IInv <=> Parts
<1>1. ASSUME IInv PROVE Parts
  <2> USE <1>1 DEF IInv, TypeOK
  <2>1. \A t \in Tasks : t \in Live <=> timer[t] # NoTimer
    BY DEF Live
  <2>2. \A k \in Chats : k \in Open <=> window[k] # NoWindow
    BY DEF Open
  <2>3. Timed(window, timer)
    <3>1. \A k \in Chats : window[k] # NoWindow =>
            IF window[k].paused
              THEN window[k].task = NoTask
              ELSE /\ window[k].task \in Tasks
                   /\ timer[window[k].task] # NoTimer
                   /\ timer[window[k].task].chat = k
      BY <2>2 DEF TimerExact, Live
    <3>2. \A t \in Tasks : timer[t] # NoTimer =>
            /\ window[timer[t].chat] # NoWindow
            /\ window[timer[t].chat].task = t
            /\ timer[t].left > 0
                 => timer[t].left + window[timer[t].chat].age <= MaxTotal
      BY <2>1 DEF TimerExact, FlushInTime, Open
    <3> QED
      BY <3>1, <3>2 DEF Timed
  <2>4. Held(window, stage)
    <3>1. ASSUME NEW k \in Chats, window[k] # NoWindow
          PROVE  window[k].frags \in Seq(Msgs)
      BY <3>1 DEF Window
    <3> QED
      BY <2>2, <3>1, ChatOfAssumption, MembersType
         DEF Held, FragmentsHeld, OwnChat, OnceEach, Fragments
  <2>5. Ordered(window, order)
    BY DEF Ordered, FragmentsHeld, OnceEach, Open
  <2>6. Guarded(window, typing, guard)
    BY <2>2 DEF Guarded, PauseGuarded, OnceEach, Typing
  <2> QED
    BY <2>3, <2>4, <2>5, <2>6 DEF Parts
<1>2. ASSUME Parts PROVE IInv
  <2> USE <1>2 DEF Parts
  <2>1. \A t \in Tasks : t \in Live <=> timer[t] # NoTimer
    BY DEF Live
  <2>2. \A k \in Chats : k \in Open <=> window[k] # NoWindow
    BY DEF Open
  <2>3. TypeOK
    <3>1. \A k \in Open : Len(window[k].frags) \in 1 .. MaxFragments
      BY <2>2 DEF Held, Open
    <3> QED
      BY <3>1 DEF TypeOK, Timed, Held, Ordered, Guarded
  <2>4. TimerExact /\ FlushInTime
    BY <2>1, <2>2, NoneAssumption DEF Timed, TimerExact, FlushInTime, Live, Timer, Open
  <2>5. PauseGuarded
    BY <2>2 DEF Guarded, PauseGuarded, Typing
  <2>6. Open = Members(order)
    BY DEF Ordered, Open
  <2>7. OwnChat /\ OnceEach
    <3>1. ASSUME NEW k \in Open
          PROVE  /\ Distinct(window[k].frags)
                 /\ \A m \in Members(window[k].frags) : ChatOf[m] = k
      BY DEF Held, Open
    <3> QED
      BY <3>1 DEF Ordered, Guarded, OwnChat, OnceEach, Fragments
  <2>8. FragmentsHeld
    <3>1. Cardinality(Open) = Len(order)
      BY <2>6, MembersCount DEF Ordered
    <3>2. ASSUME NEW k \in Open PROVE Cardinality(Fragments(k)) = Len(window[k].frags)
      BY <2>2, MembersCount DEF Held, Fragments, Open
    <3>3. \A m \in Msgs : stage[m] = "buffered"
                            <=> ChatOf[m] \in Open /\ m \in Fragments(ChatOf[m])
      BY <2>2, ChatOfAssumption DEF Held, Fragments
    <3> QED
      BY <2>6, <3>1, <3>2, <3>3 DEF FragmentsHeld
  <2> QED
    BY <2>3, <2>4, <2>5, <2>7, <2>8 DEF IInv
<1> QED
  BY <1>1, <1>2

LEMMA InitParts == Init => Parts
<1> SUFFICES ASSUME Init PROVE Parts
  OBVIOUS
<1> USE DEF Init
<1>1. Members(<<>>) = {} /\ Distinct(<<>>) /\ <<>> \in Seq(Chats) /\ Len(<<>>) = 0
  BY EmptySeq DEF Members, Distinct
<1>2. Timed(window, timer) /\ Held(window, stage)
  BY NoneAssumption, ChatOfAssumption DEF Timed, Held
<1>3. Ordered(window, order) /\ Guarded(window, typing, guard)
  BY <1>1, LimitAssumption DEF Ordered, Guarded
<1> QED
  BY <1>2, <1>3 DEF Parts

-----------------------------------------------------------------------------
(* Timers *)

(* The windows of chats ks are closed or stopped with their timers: what   *)
(* is left is in order, and belongs to other chats.                        *)
LEMMA CancelledTimed ==
  ASSUME Parts, NEW ks \in SUBSET Chats,
         NEW win \in [Chats -> Window \cup {NoWindow}],
         \A k \in ks : win[k] = NoWindow \/ (win[k].paused /\ win[k].task = NoTask),
         \A k \in Chats \ ks : win[k] = window[k]
  PROVE  /\ Timed(win, Cancelled(ks))
         /\ \A t \in Tasks : Cancelled(ks)[t] # NoTimer
                               => Cancelled(ks)[t].chat \in Open \ ks
<1> DEFINE left == Cancelled(ks)
<1>1. Timed(window, timer)
  BY DEF Parts
<1>2. \A t \in Tasks : left[t] = IF \E k \in ks \cap Open : window[k].task = t
                                   THEN NoTimer ELSE timer[t]
  BY DEF Cancelled
<1>3. left \in [Tasks -> Timer \cup {NoTimer}]
  BY <1>1 DEF Cancelled, Timed
<1> HIDE DEF left
<1>4. ASSUME NEW t \in Tasks, left[t] # NoTimer
      PROVE  left[t] = timer[t] /\ left[t].chat \in Open \ ks
  <2>1. left[t] = timer[t] /\ ~ \E k \in ks \cap Open : window[k].task = t
    BY <1>2, <1>4
  <2>2. timer[t].chat \in Chats
    BY <1>1, <1>4, <2>1 DEF Timed, Timer
  <2> QED
    BY <1>1, <1>4, <2>1, <2>2 DEF Timed, Open
<1>5. ASSUME NEW k \in Chats \ ks, window[k] # NoWindow, ~window[k].paused
      PROVE  /\ window[k].task \in Tasks
             /\ left[window[k].task] # NoTimer
             /\ left[window[k].task].chat = k
  <2>1. /\ window[k].task \in Tasks
        /\ timer[window[k].task] # NoTimer
        /\ timer[window[k].task].chat = k
    BY <1>1, <1>5 DEF Timed
  <2>2. ASSUME NEW j \in ks \cap Open, window[j].task = window[k].task PROVE FALSE
    <3>1. ~window[j].paused
      BY <1>1, <2>1, <2>2, NoneAssumption DEF Timed, Open
    <3> QED
      BY <1>1, <2>1, <2>2, <3>1 DEF Timed, Open
  <2> QED
    BY <1>2, <2>1, <2>2
<1>6. ASSUME NEW k \in Chats, win[k] # NoWindow
      PROVE  IF win[k].paused
               THEN win[k].task = NoTask
               ELSE /\ win[k].task \in Tasks
                    /\ left[win[k].task] # NoTimer
                    /\ left[win[k].task].chat = k
  <2>1. CASE k \in ks
    BY <1>6, <2>1
  <2>2. CASE k \notin ks
    BY <1>1, <1>5, <1>6, <2>2 DEF Timed
  <2> QED
    BY <2>1, <2>2
<1>7. ASSUME NEW t \in Tasks, left[t] # NoTimer
      PROVE  /\ win[left[t].chat] # NoWindow
             /\ win[left[t].chat].task = t
             /\ left[t].left > 0 => left[t].left + win[left[t].chat].age <= MaxTotal
  BY <1>1, <1>4, <1>7 DEF Timed, Open
<1> QED
  BY <1>3, <1>4, <1>6, <1>7 DEF Timed, left

(* As long as fewer windows than allowed have a timer, a task is free.     *)
LEMMA FreeTask ==
  ASSUME NEW K, IsFiniteSet(K), Cardinality(K) < MaxWindows,
         NEW left \in [Tasks -> Timer \cup {NoTimer}],
         NEW win,
         \A t \in Tasks : left[t] # NoTimer => left[t].chat \in K
                                               /\ win[left[t].chat].task = t
  PROVE  \E t \in Tasks : left[t] = NoTimer
<1> SUFFICES ASSUME \A t \in Tasks : left[t] # NoTimer PROVE FALSE
  OBVIOUS
<1> PICK S \in SUBSET Tasks : IsFiniteSet(S) /\ Cardinality(S) = MaxWindows
  BY TasksAssumption
<1> DEFINE f == [t \in S |-> left[t].chat]
<1>1. f \in Injection(S, K)
  BY DEF Injection, IsInjective
<1>2. Cardinality(S) <= Cardinality(K)
  BY <1>1, FS_Injection
<1> QED
  BY <1>2, FS_CardinalityType, LimitAssumption

(* _arm_flush: the window of chat k is put beside the others, with a timer *)
(* of its own unless it is paused.                                         *)
LEMMA ArmFlushTimed ==
  ASSUME Parts, NEW k \in Chats, NEW ks \in SUBSET Chats, NEW w \in Window,
         NEW others \in [Chats -> Window \cup {NoWindow}],
         \A j \in ks : others[j] = NoWindow \/ (others[j].paused /\ others[j].task = NoTask),
         \A j \in Chats \ (ks \cup {k}) : others[j] = window[j],
         w.paused => w.task = NoTask /\ (k \in Open => window[k].task = NoTask),
         IsFiniteSet(Open \ (ks \cup {k})),
         Cardinality(Open \ (ks \cup {k})) < MaxWindows,
         ArmFlush(k, w, others, ks)
  PROVE  /\ Timed(window', timer')
         /\ \A j \in Chats \ {k} : window'[j] = others[j]
         /\ window'[k] # NoWindow
         /\ window'[k].frags = w.frags
         /\ window'[k].paused = w.paused
<1> DEFINE left == Cancelled(ks \cup {k})
           rest == [others EXCEPT ![k] = NoWindow]
<1>1. /\ Timed(rest, left)
      /\ \A t \in Tasks : left[t] # NoTimer => left[t].chat \in Open \ (ks \cup {k})
  <2>1. /\ ks \cup {k} \in SUBSET Chats
        /\ rest \in [Chats -> Window \cup {NoWindow}]
        /\ \A j \in ks \cup {k} :
             rest[j] = NoWindow \/ (rest[j].paused /\ rest[j].task = NoTask)
        /\ \A j \in Chats \ (ks \cup {k}) : rest[j] = window[j]
    OBVIOUS
  <2> HIDE DEF rest
  <2> QED
    BY <2>1, CancelledTimed
<1>2. w # NoWindow
  BY NoneAssumption
<1>3. CASE w.paused
  <2>1. window' = [others EXCEPT ![k] = w] /\ timer' = Cancelled(ks)
    BY <1>3 DEF ArmFlush
  <2>2. Cancelled(ks) = left
    <3>1. ASSUME NEW t \in Tasks
          PROVE  (\E j \in ks \cap Open : window[j].task = t)
                   <=> (\E j \in (ks \cup {k}) \cap Open : window[j].task = t)
      BY <1>3, NoneAssumption
    <3> QED
      BY <3>1 DEF Cancelled
  <2> HIDE DEF left
  <2>3. Timed(window', timer')
    BY <1>1, <1>2, <1>3, <2>1, <2>2 DEF Timed
  <2> QED
    BY <1>2, <2>1, <2>3
<1>4. CASE ~w.paused
  <2> DEFINE t == CHOOSE u \in Tasks : left[u] = NoTimer
             timed == [w EXCEPT !.task = t]
  <2>1. /\ window' = [others EXCEPT ![k] = timed]
        /\ timer' = [left EXCEPT ![t] = [chat |-> k, left |-> Delay(w.age)]]
    BY <1>4 DEF ArmFlush
  <2> HIDE DEF left
  <2>2. \A u \in Tasks : left[u] # NoTimer =>
          rest[left[u].chat].task = u
    BY <1>1 DEF Timed
  <2>3. t \in Tasks /\ left[t] = NoTimer
    <3>1. left \in [Tasks -> Timer \cup {NoTimer}]
      BY <1>1 DEF Timed
    <3> HIDE DEF rest
    <3>2. \E u \in Tasks : left[u] = NoTimer
      BY <1>1, <2>2, <3>1, FreeTask
    <3> QED
      BY <3>2
  <2> HIDE DEF t
  <2>4. /\ timed \in Window /\ timed.task = t /\ timed.frags = w.frags
        /\ timed.paused = w.paused /\ timed.age = w.age
    BY <2>3 DEF Window
  <2>5. timed # NoWindow
    BY <2>4, NoneAssumption
  <2>6. w.age \in Nat /\ Delay(w.age) \in Nat
        /\ (Delay(w.age) > 0 => Delay(w.age) + w.age <= MaxTotal)
    BY TimeAssumption DEF Delay, Window
  <2>7. [chat |-> k, left |-> Delay(w.age)] \in Timer
    BY <2>6 DEF Timer
  <2>8. [chat |-> k, left |-> Delay(w.age)] # NoTimer
    BY <2>7, NoneAssumption
  <2> HIDE DEF timed
  <2>9. Timed(window', timer')
    <3>1. window' \in [Chats -> Window \cup {NoWindow}] /\ timer' \in [Tasks -> Timer \cup {NoTimer}]
      BY <1>1, <2>1, <2>3, <2>4, <2>7 DEF Timed
    <3>2. ASSUME NEW j \in Chats, window'[j] # NoWindow
          PROVE  IF window'[j].paused
                   THEN window'[j].task = NoTask
                   ELSE /\ window'[j].task \in Tasks
                        /\ timer'[window'[j].task] # NoTimer
                        /\ timer'[window'[j].task].chat = j
      <4>1. CASE j = k
        BY <1>1, <1>4, <2>1, <2>3, <2>4, <2>8, <4>1 DEF Timed
      <4>2. CASE j # k
        BY <1>1, <2>1, <2>3, <3>2, <4>2 DEF Timed
      <4> QED
        BY <4>1, <4>2
    <3>3. ASSUME NEW u \in Tasks, timer'[u] # NoTimer
          PROVE  /\ window'[timer'[u].chat] # NoWindow
                 /\ window'[timer'[u].chat].task = u
                 /\ timer'[u].left > 0
                      => timer'[u].left + window'[timer'[u].chat].age <= MaxTotal
      <4>1. CASE u = t
        BY <1>1, <2>1, <2>3, <2>4, <2>5, <2>6, <4>1 DEF Timed
      <4>2. CASE u # t
        BY <1>1, <2>1, <2>3, <3>3, <4>2 DEF Timed
      <4> QED
        BY <4>1, <4>2
    <3> QED
      BY <3>1, <3>2, <3>3 DEF Timed
  <2> QED
    BY <2>1, <2>4, <2>5, <2>9
<1> QED
  BY <1>3, <1>4

-----------------------------------------------------------------------------
(* Windows that go and windows that come                                   *)

(* What is open is listed, so that it can be counted.                      *)
LEMMA OpenCounted ==
  ASSUME Parts
  PROVE  /\ IsFiniteSet(Open)
         /\ Cardinality(Open) \in Nat
         /\ Cardinality(Open) = Len(order)
         /\ Open = Members(order)
         /\ Open \subseteq Chats
BY MembersCount DEF Parts, Ordered, Open

(* To pop chats from an ordered table keeps the others in their order.     *)
LEMMA PoppedKeeps ==
  ASSUME NEW keys \in Seq(Chats), Distinct(keys), NEW ks \in SUBSET Chats
  PROVE  /\ Popped(keys, ks) \in Seq(Chats)
         /\ Distinct(Popped(keys, ks))
         /\ Members(Popped(keys, ks)) = Members(keys) \ ks
         /\ Len(Popped(keys, ks)) <= Len(keys)
         /\ ks \cap Members(keys) # {} => Len(Popped(keys, ks)) < Len(keys)
<1> DEFINE rest == Popped(keys, ks)
<1>1. Members(keys) \subseteq Chats
  BY MembersType
<1>2. /\ rest \in Seq(Chats) /\ Distinct(rest) /\ Len(rest) <= Len(keys)
      /\ Members(rest) = Members(keys) \cap (Chats \ ks)
  BY KeptMembers DEF Popped
<1> HIDE DEF rest
<1>3. Members(rest) = Members(keys) \ ks
  BY <1>1, <1>2
<1>4. /\ IsFiniteSet(Members(keys))
      /\ Cardinality(Members(keys)) = Len(keys)
      /\ Cardinality(Members(rest)) = Len(rest)
      /\ Len(keys) \in Nat /\ Len(rest) \in Nat
  BY <1>2, MembersCount, LenProperties
<1>5. ASSUME ks \cap Members(keys) # {}
      PROVE  Len(rest) < Len(keys)
  <2>1. Members(rest) \in SUBSET Members(keys) /\ Members(rest) # Members(keys)
    BY <1>3, <1>5
  <2>2. Len(rest) # Len(keys)
    BY <1>4, <2>1, FS_Subset
  <2> QED
    BY <1>2, <1>4, <2>2
<1> QED
  BY <1>2, <1>3, <1>5 DEF rest

(* The windows of chats ks are taken out, with their timers, their place   *)
(* in the order and their fragments.                                       *)
LEMMA ClosedParts ==
  ASSUME Parts, NEW ks \in SUBSET Chats,
         NEW s \in {"dropped", "flushed", "refused"}
  PROVE  /\ Closed(ks) \in [Chats -> Window \cup {NoWindow}]
         /\ Timed(Closed(ks), Cancelled(ks))
         /\ Held(Closed(ks), Staged(FragmentsOf(ks \cap Open), s))
         /\ Ordered(Closed(ks), Popped(order, ks))
         /\ Guarded(Closed(ks), typing, guard)
<1> DEFINE win == Closed(ks)
           at == Staged(FragmentsOf(ks \cap Open), s)
<1>1. /\ Timed(window, timer) /\ Held(window, stage)
      /\ Ordered(window, order) /\ Guarded(window, typing, guard)
  BY DEF Parts
<1>2. /\ win \in [Chats -> Window \cup {NoWindow}]
      /\ \A k \in ks : win[k] = NoWindow
      /\ \A k \in Chats \ ks : win[k] = window[k]
  BY <1>1 DEF Timed, Closed
<1>3. Timed(win, Cancelled(ks))
  BY <1>2, CancelledTimed
<1> HIDE DEF win
<1>4. \A m \in Msgs : at[m] = IF \E k \in ks \cap Open : m \in Fragments(k)
                                THEN s ELSE stage[m]
  BY DEF Staged, FragmentsOf
<1>5. at \in [Msgs -> {"new", "woken", "stopped", "buffered", "flushed",
                       "dropped", "refused"}]
  BY <1>1 DEF Staged, Held
<1> HIDE DEF at
<1>6. ASSUME NEW k \in Open
      PROVE  /\ window[k].frags \in Seq(Msgs) /\ Fragments(k) \subseteq Msgs
             /\ Len(window[k].frags) \in 1 .. MaxFragments
             /\ Distinct(window[k].frags)
             /\ \A m \in Fragments(k) : ChatOf[m] = k /\ stage[m] = "buffered"
  BY <1>1, MembersType DEF Held, Open, Fragments
<1>7. Held(win, at)
  <2>1. ASSUME NEW k \in Chats, win[k] # NoWindow, NEW m \in Members(win[k].frags)
        PROVE  ChatOf[m] = k /\ at[m] = "buffered"
    <3>1. k \notin ks /\ win[k] = window[k] /\ k \in Open
      BY <1>2, <2>1 DEF Open
    <3>2. m \in Msgs /\ ChatOf[m] = k /\ stage[m] = "buffered"
      BY <1>6, <2>1, <3>1 DEF Fragments
    <3>3. \A j \in ks \cap Open : m \notin Fragments(j)
      BY <1>6, <3>1, <3>2
    <3> QED
      BY <1>4, <3>2, <3>3
  <2>2. ASSUME NEW m \in Msgs, at[m] = "buffered"
        PROVE  win[ChatOf[m]] # NoWindow /\ m \in Members(win[ChatOf[m]].frags)
    <3>1. stage[m] = "buffered" /\ \A k \in ks \cap Open : m \notin Fragments(k)
      BY <1>4, <2>2
    <3>2. window[ChatOf[m]] # NoWindow /\ m \in Members(window[ChatOf[m]].frags)
      BY <1>1, <3>1 DEF Held
    <3>3. ChatOf[m] \in Chats \ ks
      BY <3>1, <3>2, ChatOfAssumption DEF Open, Fragments
    <3> QED
      BY <1>2, <3>2, <3>3
  <2>3. ASSUME NEW k \in Chats, win[k] # NoWindow
        PROVE  /\ win[k].frags \in Seq(Msgs)
               /\ Len(win[k].frags) \in 1 .. MaxFragments
               /\ Distinct(win[k].frags)
    BY <1>2, <1>6, <2>3 DEF Open
  <2> QED
    BY <1>5, <2>1, <2>2, <2>3 DEF Held
<1>8. Ordered(win, Popped(order, ks))
  <2>1. /\ Popped(order, ks) \in Seq(Chats) /\ Distinct(Popped(order, ks))
        /\ Members(Popped(order, ks)) = Members(order) \ ks
        /\ Len(Popped(order, ks)) <= Len(order)
    BY <1>1, PoppedKeeps DEF Ordered
  <2>2. Members(order) \ ks = {k \in Chats : win[k] # NoWindow}
    BY <1>1, <1>2 DEF Ordered
  <2>3. Len(Popped(order, ks)) <= MaxWindows
    BY <1>1, <2>1, LenProperties, LimitAssumption DEF Ordered
  <2> QED
    BY <2>1, <2>2, <2>3 DEF Ordered
<1>9. Guarded(win, typing, guard)
  BY <1>1, <1>2 DEF Guarded
<1> QED
  BY <1>2, <1>3, <1>7, <1>8, <1>9 DEF win, at

(* The windows keep their fragments and their chats, whatever else of them *)
(* changes.                                                                *)
LEMMA FragmentsStay ==
  ASSUME NEW win, NEW new, NEW at, NEW keys, Held(win, at), Ordered(win, keys),
         \A k \in Chats : /\ new[k] = NoWindow <=> win[k] = NoWindow
                          /\ win[k] # NoWindow => new[k].frags = win[k].frags
  PROVE  Held(new, at) /\ Ordered(new, keys)
BY ChatOfAssumption DEF Held, Ordered

LEMMA WakeKeeps ==
  ASSUME Parts, NEW m \in Msgs, Wake(m)
  PROVE  Parts'
BY DEF Wake, Parts, Timed, Held, Ordered, Guarded

LEMMA DropKeeps ==
  ASSUME Parts, NEW ks \in SUBSET Open, Drop(ks), UNCHANGED <<typing, guard>>
  PROVE  Parts'
<1>1. ks \in SUBSET Chats /\ ks \cap Open = ks
  BY DEF Open
<1>2. /\ Timed(Closed(ks), Cancelled(ks))
      /\ Held(Closed(ks), Staged(FragmentsOf(ks), "dropped"))
      /\ Ordered(Closed(ks), Popped(order, ks))
      /\ Guarded(Closed(ks), typing, guard)
  BY <1>1, ClosedParts
<1>3. /\ window' = Closed(ks) /\ order' = Popped(order, ks)
      /\ timer' = Cancelled(ks) /\ stage' = Staged(FragmentsOf(ks), "dropped")
      /\ typing' = typing /\ guard' = guard
  BY DEF Drop
<1> QED
  BY <1>2, <1>3 DEF Parts

LEMMA EvictedOpen ==
  ASSUME Parts
  PROVE  /\ Evicted \in SUBSET Open
         /\ IsFiniteSet(Open \ Evicted)
         /\ Cardinality(Open \ Evicted) < MaxWindows
         /\ Len(Popped(order, Evicted)) < MaxWindows
<1>1. /\ IsFiniteSet(Open) /\ Cardinality(Open) = Len(order)
      /\ Open = Members(order) /\ Open \subseteq Chats
  BY OpenCounted
<1>2. /\ order \in Seq(Chats) /\ Distinct(order)
      /\ Len(order) <= MaxWindows /\ Len(order) \in Nat /\ MaxWindows \in Nat \ {0}
  BY LenProperties, LimitAssumption DEF Parts, Ordered
<1>3. CASE Len(order) < MaxWindows
  <2>1. Evicted = {}
    BY <1>3 DEF Evicted
  <2>2. Len(Popped(order, {})) <= Len(order)
    BY <1>2, PoppedKeeps
  <2>3. Open \ {} = Open /\ Len(Popped(order, {})) \in Nat
    BY <1>2, PoppedKeeps, LenProperties
  <2> QED
    BY <1>1, <1>2, <1>3, <2>1, <2>2, <2>3
<1>4. CASE ~(Len(order) < MaxWindows)
  <2>1. Evicted = {order[1]}
    BY <1>4 DEF Evicted
  <2>2. order[1] \in Open
    <3>1. 1 \in 1 .. Len(order)
      BY <1>2, <1>4
    <3> QED
      BY <1>1, <3>1 DEF Members
  <2>3. IsFiniteSet(Open \ {order[1]}) /\ Cardinality(Open \ {order[1]}) = Len(order) - 1
    BY <1>1, <2>2, FS_RemoveElement
  <2>4. {order[1]} \in SUBSET Chats /\ {order[1]} \cap Members(order) # {}
    BY <1>1, <2>2
  <2>5. Len(Popped(order, {order[1]})) < Len(order)
        /\ Popped(order, {order[1]}) \in Seq(Chats)
    BY <1>2, <2>4, PoppedKeeps
  <2>6. Len(Popped(order, {order[1]})) \in Nat
    BY <2>5, LenProperties
  <2> QED
    BY <1>2, <2>1, <2>2, <2>3, <2>5, <2>6
<1> QED
  BY <1>3, <1>4

LEMMA AcceptFirstKeeps ==
  ASSUME Parts, NEW m \in Msgs, AcceptFirst(m)
  PROVE  Parts'
<1> DEFINE k == ChatOf[m]
           w == Opened(m)
           others == Closed(Evicted)
           at == Staged(FragmentsOf(Evicted), "dropped")
           keys == Popped(order, Evicted)
<1>1. /\ stage[m] = "woken" /\ k \notin Open
      /\ ArmFlush(k, w, others, Evicted)
      /\ order' = Append(keys, k)
      /\ stage' = [at EXCEPT ![m] = "buffered"]
      /\ typing' = typing /\ guard' = guard
  BY DEF AcceptFirst
<1>2. k \in Chats /\ Evicted \in SUBSET Chats /\ Evicted \cap Open = Evicted
      /\ Evicted \cup {k} \in SUBSET Chats /\ Open \ (Evicted \cup {k}) = Open \ Evicted
  BY <1>1, ChatOfAssumption, EvictedOpen, OpenCounted
<1>3. /\ others \in [Chats -> Window \cup {NoWindow}]
      /\ Held(others, at) /\ Ordered(others, keys) /\ Guarded(others, typing, guard)
  BY <1>2, ClosedParts
<1>4. \A j \in Evicted : others[j] = NoWindow
  BY <1>2 DEF Closed
<1>5. \A j \in Chats \ Evicted : others[j] = window[j]
  BY DEF Closed
<1>6. w \in Window /\ w.frags = <<m>> /\ w.task = NoTask /\ (w.paused <=> k \in Members(typing))
  <2> DEFINE b == k \in Members(typing)
  <2>1. w = [frags |-> <<m>>, age |-> 0, paused |-> b, task |-> NoTask]
    BY DEF Opened, Typing
  <2>2. b \in BOOLEAN
    OBVIOUS
  <2> HIDE DEF w, b
  <2>3. 0 \in 0 .. MaxTotal + 1 /\ <<m>> \in Seq(Msgs)
    BY TimeAssumption
  <2>4. w \in Window /\ w.frags = <<m>> /\ w.task = NoTask /\ w.paused = b
    BY <2>1, <2>2, <2>3 DEF Window
  <2> QED
    BY <2>4 DEF b
<1>7. others[k] = NoWindow
  BY <1>1, <1>2, <1>4, <1>5 DEF Open
<1> HIDE DEF others, w, at, keys, k
<1>8. /\ Timed(window', timer')
      /\ \A j \in Chats \ {k} : window'[j] = others[j]
      /\ window'[k] # NoWindow /\ window'[k].frags = w.frags /\ window'[k].paused = w.paused
  <2>1. IsFiniteSet(Open \ (Evicted \cup {k})) /\ Cardinality(Open \ (Evicted \cup {k})) < MaxWindows
    BY <1>2, EvictedOpen
  <2>2. \A j \in Chats \ (Evicted \cup {k}) : others[j] = window[j]
    BY <1>5
  <2> QED
    BY <1>1, <1>2, <1>3, <1>4, <1>6, <2>1, <2>2, ArmFlushTimed
<1>9. Members(<<m>>) = {m} /\ Len(<<m>>) = 1 /\ Distinct(<<m>>) /\ <<m>> \in Seq(Msgs)
  BY DEF Members, Distinct
<1>10. at \in [Msgs -> {"new", "woken", "stopped", "buffered", "flushed",
                        "dropped", "refused"}]
  BY <1>3 DEF Held
<1>11. Held(window', stage')
  <2>1. ASSUME NEW j \in Chats, window'[j] # NoWindow
        PROVE  /\ window'[j].frags \in Seq(Msgs)
               /\ Len(window'[j].frags) \in 1 .. MaxFragments
               /\ Distinct(window'[j].frags)
               /\ \A n \in Members(window'[j].frags) : ChatOf[n] = j /\ stage'[n] = "buffered"
    <3>1. CASE j = k
      <4>1. window'[j].frags = <<m>>
        BY <1>6, <1>8, <3>1
      <4>2. ChatOf[m] = j /\ stage'[m] = "buffered"
        BY <1>1, <1>10, <3>1 DEF k
      <4>3. 1 \in 1 .. MaxFragments
        BY LimitAssumption
      <4> QED
        BY <1>9, <4>1, <4>2, <4>3
    <3>2. CASE j # k
      <4>1. window'[j] = others[j]
        BY <1>8, <3>2
      <4>2. Members(others[j].frags) \subseteq Msgs
        BY <1>3, <2>1, <4>1, MembersType DEF Held
      <4> QED
        BY <1>1, <1>3, <1>10, <2>1, <4>1, <4>2 DEF Held
    <3> QED
      BY <3>1, <3>2
  <2>2. ASSUME NEW n \in Msgs, stage'[n] = "buffered"
        PROVE  window'[ChatOf[n]] # NoWindow /\ n \in Members(window'[ChatOf[n]].frags)
    <3>1. CASE n = m
      BY <1>6, <1>8, <1>9, <3>1 DEF k
    <3>2. CASE n # m
      <4>1. at[n] = "buffered"
        BY <1>1, <1>10, <2>2, <3>2
      <4>2. others[ChatOf[n]] # NoWindow /\ n \in Members(others[ChatOf[n]].frags)
        BY <1>3, <4>1 DEF Held
      <4>3. ChatOf[n] \in Chats \ {k}
        BY <1>7, <4>2, ChatOfAssumption
      <4> QED
        BY <1>8, <4>2, <4>3
    <3> QED
      BY <3>1, <3>2
  <2> QED
    BY <1>1, <1>10, <2>1, <2>2 DEF Held
<1>12. Ordered(window', order')
  <2>1. /\ keys \in Seq(Chats) /\ Distinct(keys) /\ Len(keys) < MaxWindows
        /\ Members(keys) = {j \in Chats : others[j] # NoWindow}
    BY <1>3, EvictedOpen DEF Ordered, keys
  <2>2. k \notin Members(keys)
    BY <1>7, <2>1
  <2>3. /\ order' \in Seq(Chats) /\ Len(order') = Len(keys) + 1
        /\ Members(order') = Members(keys) \cup {k} /\ Distinct(order')
    BY <1>1, <1>2, <2>1, <2>2, AppendProperties, MembersAppend
  <2>4. Len(order') <= MaxWindows
    BY <2>1, <2>3, LenProperties, LimitAssumption
  <2>5. Members(keys) \cup {k} = {j \in Chats : window'[j] # NoWindow}
    BY <1>2, <1>8, <2>1
  <2> QED
    BY <2>3, <2>4, <2>5 DEF Ordered
<1>13. Guarded(window', typing', guard')
  BY <1>1, <1>3, <1>6, <1>8 DEF Guarded
<1> QED
  BY <1>8, <1>11, <1>12, <1>13 DEF Parts

(* Arming the window of an open chat again leaves a task free for it.      *)
LEMMA OthersCounted ==
  ASSUME Parts, NEW k \in Open, NEW ks \in SUBSET Chats
  PROVE  /\ IsFiniteSet(Open \ (ks \cup {k}))
         /\ Cardinality(Open \ (ks \cup {k})) < MaxWindows
<1>1. IsFiniteSet(Open) /\ Cardinality(Open) = Len(order) /\ Cardinality(Open) \in Nat
  BY OpenCounted
<1>2. Len(order) <= MaxWindows /\ MaxWindows \in Nat
  BY LimitAssumption DEF Parts, Ordered
<1>3. IsFiniteSet(Open \ {k}) /\ Cardinality(Open \ {k}) = Cardinality(Open) - 1
  BY <1>1, FS_RemoveElement
<1>4. Open \ (ks \cup {k}) \in SUBSET (Open \ {k})
  OBVIOUS
<1>5. /\ IsFiniteSet(Open \ (ks \cup {k}))
      /\ Cardinality(Open \ (ks \cup {k})) <= Cardinality(Open \ {k})
  BY <1>3, <1>4, FS_Subset
<1>6. Cardinality(Open \ (ks \cup {k})) \in Nat
  BY <1>5, FS_CardinalityType
<1> QED
  BY <1>1, <1>2, <1>3, <1>5, <1>6

LEMMA AcceptMoreKeeps ==
  ASSUME Parts, NEW m \in Msgs, AcceptMore(m)
  PROVE  Parts'
<1>1. /\ stage[m] = "woken" /\ ChatOf[m] \in Open
      /\ order' = order /\ typing' = typing /\ guard' = guard
  BY DEF AcceptMore
<1> PICK k \in Open : k = ChatOf[m]
  BY <1>1
<1>2. /\ Timed(window, timer) /\ Held(window, stage)
      /\ Ordered(window, order) /\ Guarded(window, typing, guard)
  BY DEF Parts
<1>3. k \in Chats /\ window[k] # NoWindow /\ window[k] \in Window
  BY <1>2 DEF Open, Timed
<1> PICK w \in Window : w = window[k]
  BY <1>3
<1> DEFINE full == Len(w.frags) >= MaxFragments
           kept == IF full THEN Tail(w.frags) ELSE w.frags
           gone == IF full THEN {Head(w.frags)} ELSE {}
           new == [w EXCEPT !.frags = Append(kept, m)]
<1>4. /\ ArmFlush(k, new, window, {})
      /\ stage' = [Staged(gone, "dropped") EXCEPT ![m] = "buffered"]
  BY DEF AcceptMore
<1>5. /\ w.frags \in Seq(Msgs) /\ Len(w.frags) \in 1 .. MaxFragments
      /\ Distinct(w.frags)
      /\ \A n \in Members(w.frags) : n \in Msgs /\ ChatOf[n] = k /\ stage[n] = "buffered"
  BY <1>2, <1>3, MembersType DEF Held
<1>6. /\ kept \in Seq(Msgs) /\ Distinct(kept) /\ Len(kept) \in Nat
      /\ Len(kept) + 1 \in 1 .. MaxFragments
      /\ Members(kept) = Members(w.frags) \ gone
      /\ gone \subseteq Members(w.frags)
  <2>1. CASE full
    <3>1. w.frags # <<>>
      BY <1>5
    <3>2. /\ Tail(w.frags) \in Seq(Msgs) /\ Distinct(Tail(w.frags))
          /\ Len(Tail(w.frags)) = Len(w.frags) - 1
          /\ Head(w.frags) \in Members(w.frags)
          /\ Members(Tail(w.frags)) = Members(w.frags) \ {Head(w.frags)}
      BY <1>5, <3>1, TailKeeps
    <3> QED
      BY <1>5, <2>1, <3>2, LimitAssumption
  <2>2. CASE ~full
    BY <1>5, <2>2, LimitAssumption
  <2> QED
    BY <2>1, <2>2
<1> HIDE DEF full, kept, gone
<1>7. m \notin Members(kept) /\ m \notin Members(w.frags)
  BY <1>1, <1>5, <1>6
<1> DEFINE frags == Append(kept, m)
<1>8. /\ frags \in Seq(Msgs) /\ Len(frags) \in 1 .. MaxFragments
      /\ Distinct(frags) /\ Members(frags) = (Members(w.frags) \ gone) \cup {m}
  BY <1>6, <1>7, AppendProperties, MembersAppend
<1> HIDE DEF frags
<1>9. new \in Window /\ new.frags = frags /\ new.task = w.task /\ new.paused = w.paused
  BY <1>8 DEF Window, frags
<1> HIDE DEF new
<1>10. /\ Timed(window', timer')
       /\ \A j \in Chats \ {k} : window'[j] = window[j]
       /\ window'[k] # NoWindow /\ window'[k].frags = frags /\ window'[k].paused = w.paused
  <2>1. window \in [Chats -> Window \cup {NoWindow}]
    BY <1>2 DEF Timed
  <2>2. new.paused => new.task = NoTask /\ window[k].task = NoTask
    BY <1>2, <1>3, <1>9 DEF Timed
  <2>3. IsFiniteSet(Open \ ({} \cup {k})) /\ Cardinality(Open \ ({} \cup {k})) < MaxWindows
    BY OthersCounted
  <2> QED
    BY <1>3, <1>4, <1>9, <2>1, <2>2, <2>3, ArmFlushTimed
<1>11. /\ stage' \in [Msgs -> {"new", "woken", "stopped", "buffered", "flushed",
                               "dropped", "refused"}]
       /\ \A n \in Msgs : stage'[n] = IF n = m THEN "buffered"
                                        ELSE IF n \in gone THEN "dropped" ELSE stage[n]
  BY <1>2, <1>4 DEF Held, Staged
<1>12. Held(window', stage')
  <2>1. ASSUME NEW j \in Chats, window'[j] # NoWindow
        PROVE  /\ window'[j].frags \in Seq(Msgs)
               /\ Len(window'[j].frags) \in 1 .. MaxFragments
               /\ Distinct(window'[j].frags)
               /\ \A n \in Members(window'[j].frags) : ChatOf[n] = j /\ stage'[n] = "buffered"
    <3>1. CASE j = k
      BY <1>5, <1>8, <1>10, <1>11, <3>1
    <3>2. CASE j # k
      <4>1. window'[j] = window[j]
        BY <1>10, <3>2
      <4>2. \A n \in Members(window[j].frags) :
              n \in Msgs /\ ChatOf[n] = j /\ stage[n] = "buffered"
        BY <1>2, <2>1, <4>1, MembersType DEF Held
      <4>3. \A n \in Members(window[j].frags) : n \notin gone
        BY <1>5, <1>6, <3>2, <4>2
      <4> QED
        BY <1>2, <1>11, <2>1, <4>1, <4>2, <4>3 DEF Held
    <3> QED
      BY <3>1, <3>2
  <2>2. ASSUME NEW n \in Msgs, stage'[n] = "buffered"
        PROVE  window'[ChatOf[n]] # NoWindow /\ n \in Members(window'[ChatOf[n]].frags)
    <3>1. CASE n = m
      BY <1>8, <1>10, <3>1
    <3>2. CASE n # m
      <4>1. stage[n] = "buffered" /\ n \notin gone
        BY <1>11, <2>2, <3>2
      <4>2. window[ChatOf[n]] # NoWindow /\ n \in Members(window[ChatOf[n]].frags)
        BY <1>2, <4>1 DEF Held
      <4>3. ChatOf[n] \in Chats
        BY ChatOfAssumption
      <4> QED
        BY <1>8, <1>10, <4>1, <4>2, <4>3
    <3> QED
      BY <3>1, <3>2
  <2> QED
    BY <1>11, <2>1, <2>2 DEF Held
<1>13. Ordered(window', order')
  BY <1>1, <1>2, <1>3, <1>10 DEF Ordered
<1>14. Guarded(window', typing', guard')
  BY <1>1, <1>2, <1>3, <1>10 DEF Guarded
<1> QED
  BY <1>10, <1>12, <1>13, <1>14 DEF Parts

LEMMA RecallKeeps ==
  ASSUME Parts, NEW m \in Msgs, Recall(m)
  PROVE  Parts'
<1>1. /\ ChatOf[m] \in Open /\ m \in Fragments(ChatOf[m])
      /\ typing' = typing /\ guard' = guard
  BY DEF Recall
<1> PICK k \in Open : k = ChatOf[m]
  BY <1>1
<1>2. /\ Timed(window, timer) /\ Held(window, stage)
      /\ Ordered(window, order) /\ Guarded(window, typing, guard)
  BY DEF Parts
<1>3. k \in Chats /\ window[k] # NoWindow /\ window[k] \in Window
  BY <1>2 DEF Open, Timed
<1> DEFINE frags == window[k].frags
           kept == Kept(frags, Msgs \ {m})
<1>4. /\ frags \in Seq(Msgs) /\ Len(frags) \in 1 .. MaxFragments
      /\ Distinct(frags)
      /\ \A n \in Members(frags) : n \in Msgs /\ ChatOf[n] = k /\ stage[n] = "buffered"
  BY <1>2, <1>3, MembersType DEF Held
<1>5. /\ kept \in Seq(Msgs) /\ Distinct(kept)
      /\ Members(kept) = Members(frags) \ {m}
      /\ Len(kept) <= Len(frags) /\ Len(kept) \in Nat
  <2>1. Members(frags) \cap (Msgs \ {m}) = Members(frags) \ {m}
    BY <1>4
  <2> QED
    BY <1>4, <2>1, KeptMembers, LenProperties
<1>6. CASE kept = <<>>
  <2>1. Drop({k})
    BY <1>6 DEF Recall
  <2> QED
    BY <1>1, <2>1, DropKeeps
<1>7. CASE kept # <<>>
  <2>1. /\ window' = [window EXCEPT ![k].frags = kept]
        /\ stage' = [stage EXCEPT ![m] = "dropped"]
        /\ order' = order /\ timer' = timer
    BY <1>7 DEF Recall
  <2>2. Len(kept) \in 1 .. MaxFragments
    BY <1>4, <1>5, <1>7, EmptySeq, LimitAssumption
  <2> HIDE DEF kept
  <2>3. /\ window' \in [Chats -> Window \cup {NoWindow}]
        /\ \A j \in Chats \ {k} : window'[j] = window[j]
        /\ window'[k] # NoWindow /\ window'[k].frags = kept
        /\ window'[k].paused = window[k].paused /\ window'[k].task = window[k].task
        /\ window'[k].age = window[k].age
    <3>1. [window[k] EXCEPT !.frags = kept] \in Window
      BY <1>3, <1>5 DEF Window
    <3> QED
      BY <1>2, <1>3, <2>1, <3>1, NoneAssumption DEF Timed, Window
  <2>4. \A t \in Tasks : timer[t] # NoTimer => timer[t].chat \in Chats
    BY <1>2 DEF Timed, Timer
  <2>5. Timed(window', timer')
    BY <1>2, <1>3, <2>1, <2>3, <2>4 DEF Timed
  <2>6. Held(window', stage')
    <3>1. stage' \in [Msgs -> {"new", "woken", "stopped", "buffered", "flushed",
                               "dropped", "refused"}]
      BY <1>2, <2>1 DEF Held
    <3>2. ASSUME NEW j \in Chats, window'[j] # NoWindow
          PROVE  /\ window'[j].frags \in Seq(Msgs)
                 /\ Len(window'[j].frags) \in 1 .. MaxFragments
                 /\ Distinct(window'[j].frags)
                 /\ \A n \in Members(window'[j].frags) :
                      ChatOf[n] = j /\ stage'[n] = "buffered"
      <4>1. CASE j = k
        BY <1>2, <1>4, <1>5, <2>1, <2>2, <2>3, <4>1 DEF Held
      <4>2. CASE j # k
        <5>1. window'[j] = window[j]
          BY <2>3, <4>2
        <5>2. \A n \in Members(window[j].frags) :
                n \in Msgs /\ n # m /\ ChatOf[n] = j /\ stage[n] = "buffered"
          BY <1>2, <3>2, <4>2, <5>1, MembersType DEF Held
        <5> QED
          BY <1>2, <2>1, <3>2, <5>1, <5>2 DEF Held
      <4> QED
        BY <4>1, <4>2
    <3>3. ASSUME NEW n \in Msgs, stage'[n] = "buffered"
          PROVE  window'[ChatOf[n]] # NoWindow /\ n \in Members(window'[ChatOf[n]].frags)
      <4>1. stage[n] = "buffered" /\ n # m
        BY <1>2, <2>1, <3>3 DEF Held
      <4>2. window[ChatOf[n]] # NoWindow /\ n \in Members(window[ChatOf[n]].frags)
        BY <1>2, <4>1 DEF Held
      <4>3. ChatOf[n] \in Chats
        BY ChatOfAssumption
      <4> QED
        BY <1>5, <2>3, <4>1, <4>2, <4>3
    <3> QED
      BY <3>1, <3>2, <3>3 DEF Held
  <2>7. Ordered(window', order')
    BY <1>2, <1>3, <2>1, <2>3 DEF Ordered
  <2>8. Guarded(window', typing', guard')
    BY <1>1, <1>2, <1>3, <2>3 DEF Guarded
  <2> QED
    BY <2>5, <2>6, <2>7, <2>8 DEF Parts
<1> QED
  BY <1>6, <1>7

-----------------------------------------------------------------------------
(* Typing notices and time *)

LEMMA ForgottenTyping ==
  ASSUME Parts
  PROVE  /\ Forgotten \in SUBSET Members(typing)
         /\ Popped(typing, Forgotten) \in Seq(Chats)
         /\ Distinct(Popped(typing, Forgotten))
         /\ Members(Popped(typing, Forgotten)) = Members(typing) \ Forgotten
         /\ Len(Popped(typing, Forgotten)) < MaxTyping
         /\ \A i, j \in Forgotten : i = j
<1>1. /\ typing \in Seq(Chats) /\ Distinct(typing) /\ Members(typing) \subseteq Chats
      /\ Len(typing) <= MaxTyping /\ Len(typing) \in Nat /\ MaxTyping \in Nat \ {0}
  BY LenProperties, LimitAssumption, MembersType DEF Parts, Guarded
<1>2. Forgotten \in SUBSET Members(typing)
  <2>1. CASE Len(typing) < MaxTyping
    BY <2>1 DEF Forgotten
  <2>2. CASE ~(Len(typing) < MaxTyping)
    <3>1. 1 \in 1 .. Len(typing)
      BY <1>1, <2>2
    <3> QED
      BY <2>2, <3>1 DEF Forgotten, Members
  <2> QED
    BY <2>1, <2>2
<1>3. \A i, j \in Forgotten : i = j
  BY DEF Forgotten
<1>4. ~(Len(typing) < MaxTyping) => Forgotten # {}
  BY DEF Forgotten
<1> DEFINE rest == Popped(typing, Forgotten)
<1>5. /\ rest \in Seq(Chats) /\ Distinct(rest)
      /\ Members(rest) = Members(typing) \ Forgotten
      /\ Len(rest) <= Len(typing)
      /\ Forgotten \cap Members(typing) # {} => Len(rest) < Len(typing)
  BY <1>1, <1>2, PoppedKeeps
<1> HIDE DEF rest
<1>6. Len(rest) \in Nat
  BY <1>5, LenProperties
<1>7. Len(rest) < MaxTyping
  BY <1>1, <1>2, <1>4, <1>5, <1>6
<1> QED
  BY <1>2, <1>3, <1>5, <1>7 DEF rest

LEMMA PauseTypingKeeps ==
  ASSUME Parts, NEW k \in Chats, PauseTyping(k)
  PROVE  Parts'
<1> DEFINE stopped == IF k \notin Open THEN window
                        ELSE [window EXCEPT ![k].paused = TRUE, ![k].task = NoTask]
           rest == Popped(typing, Forgotten)
<1>1. /\ k \notin Members(typing)
      /\ typing' = Append(rest, k)
      /\ guard' = [j \in Chats |-> CASE j = k -> TypingWait
                                     [] j \in Forgotten -> NoGuard
                                     [] OTHER -> guard[j]]
      /\ order' = order /\ stage' = stage
  BY DEF PauseTyping, Typing
<1>2. /\ Timed(window, timer) /\ Held(window, stage)
      /\ Ordered(window, order) /\ Guarded(window, typing, guard)
  BY DEF Parts
<1>3. /\ stopped \in [Chats -> Window \cup {NoWindow}]
      /\ \A j \in Chats \ {k} : stopped[j] = window[j]
      /\ stopped[k] = NoWindow \/ (stopped[k].paused /\ stopped[k].task = NoTask)
      /\ \A j \in Chats : /\ stopped[j] = NoWindow <=> window[j] = NoWindow
                          /\ window[j] # NoWindow => stopped[j].frags = window[j].frags
  <2>1. CASE k \notin Open
    BY <1>2, <2>1 DEF Timed, Open
  <2>2. CASE k \in Open
    <3> DEFINE w == [window[k] EXCEPT !.paused = TRUE, !.task = NoTask]
    <3>1. window[k] \in Window /\ window[k] # NoWindow
      BY <1>2, <2>2 DEF Timed, Open
    <3>2. w \in Window /\ w.paused = TRUE /\ w.task = NoTask /\ w.frags = window[k].frags
      BY <3>1 DEF Window
    <3>3. w # NoWindow
      BY <3>2, NoneAssumption
    <3>4. stopped = [window EXCEPT ![k] = w]
      BY <1>2, <2>2 DEF Timed
    <3> HIDE DEF w, stopped
    <3> QED
      BY <1>2, <3>1, <3>2, <3>3, <3>4 DEF Timed
  <2> QED
    BY <2>1, <2>2
<1>4. Forgotten \subseteq Chats /\ k \notin Forgotten
  BY <1>1, <1>2, ForgottenTyping, MembersType DEF Guarded
<1>5. /\ Timed(window', timer')
      /\ \A j \in Chats : /\ window'[j] = NoWindow <=> window[j] = NoWindow
                          /\ window[j] # NoWindow =>
                               /\ window'[j].frags = window[j].frags
                               /\ window'[j].paused =
                                    IF j = k THEN TRUE
                                      ELSE IF j \in Forgotten THEN FALSE
                                      ELSE window[j].paused
  <2>1. CASE Forgotten \cap Open = {}
    <3>1. window' = stopped /\ timer' = Cancelled({k})
      BY <2>1 DEF PauseTyping
    <3> HIDE DEF stopped
    <3>2. Timed(stopped, Cancelled({k}))
      BY <1>3, CancelledTimed
    <3>3. ASSUME NEW j \in Chats, window[j] # NoWindow
          PROVE  window'[j].paused = IF j = k THEN TRUE
                                       ELSE IF j \in Forgotten THEN FALSE
                                       ELSE window[j].paused
      <4>1. j \notin Forgotten
        BY <2>1, <3>3 DEF Open
      <4>2. CASE j = k
        <5>1. window'[k] \in Window
          BY <1>3, <3>1, <3>3, <4>2
        <5> QED
          BY <1>3, <3>1, <3>3, <4>2, <5>1 DEF Window
      <4>3. CASE j # k
        BY <1>3, <3>1, <4>1, <4>3
      <4> QED
        BY <4>2, <4>3
    <3> QED
      BY <1>3, <3>1, <3>2, <3>3
  <2>2. CASE Forgotten \cap Open # {}
    <3> PICK f \in Forgotten \cap Open : TRUE
      BY <2>2
    <3> DEFINE w == [window[f] EXCEPT !.paused = FALSE]
    <3>1. ArmFlush(f, w, stopped, {k})
      BY <2>2 DEF PauseTyping
    <3>2. f \in Chats /\ f # k /\ \A j \in Forgotten : j = f
      BY <1>4, ForgottenTyping
    <3>3. window[f] \in Window /\ window[f] # NoWindow
      BY <1>2, <3>2 DEF Timed, Open
    <3>4. w \in Window /\ w.frags = window[f].frags /\ w.paused = FALSE
      BY <3>3 DEF Window
    <3>5. IsFiniteSet(Open \ ({k} \cup {f})) /\ Cardinality(Open \ ({k} \cup {f})) < MaxWindows
      BY OthersCounted
    <3> HIDE DEF stopped, w
    <3>6. \A j \in Chats \ ({k} \cup {f}) : stopped[j] = window[j]
      BY <1>3
    <3>7. {k} \in SUBSET Chats
      OBVIOUS
    <3>8. \A j \in {k} : stopped[j] = NoWindow \/ (stopped[j].paused /\ stopped[j].task = NoTask)
      BY <1>3
    <3>9. /\ Timed(window', timer')
          /\ \A j \in Chats \ {f} : window'[j] = stopped[j]
          /\ window'[f] # NoWindow
          /\ window'[f].frags = w.frags
          /\ window'[f].paused = w.paused
      BY <1>3, <3>1, <3>2, <3>4, <3>5, <3>6, <3>7, <3>8, ArmFlushTimed
    <3>10. ASSUME NEW j \in Chats, window[j] # NoWindow
           PROVE  window'[j].paused = IF j = k THEN TRUE
                                        ELSE IF j \in Forgotten THEN FALSE
                                        ELSE window[j].paused
      <4>1. CASE j = k
        <5>1. window'[k] = stopped[k] /\ stopped[k] \in Window
          BY <1>3, <3>2, <3>9, <3>10, <4>1
        <5> QED
          BY <1>3, <3>10, <4>1, <5>1 DEF Window
      <4>2. CASE j = f
        BY <3>2, <3>4, <3>9, <4>2
      <4>3. CASE j # k /\ j # f
        BY <1>3, <3>2, <3>9, <4>3
      <4> QED
        BY <4>1, <4>2, <4>3
    <3>11. ASSUME NEW j \in Chats
           PROVE  /\ window'[j] = NoWindow <=> window[j] = NoWindow
                  /\ window[j] # NoWindow => window'[j].frags = window[j].frags
      BY <1>3, <3>3, <3>4, <3>9
    <3> QED
      BY <3>9, <3>10, <3>11
  <2> QED
    BY <2>1, <2>2
<1>6. Held(window', stage') /\ Ordered(window', order')
  <2>1. order' = order /\ stage' = stage
    BY <1>1 DEF PauseTyping, ResumeTyping
  <2>2. \A j \in Chats : /\ window'[j] = NoWindow <=> window[j] = NoWindow
                         /\ window[j] # NoWindow => window'[j].frags = window[j].frags
    BY <1>5
  <2>3. Held(window, stage) /\ Ordered(window, order)
    BY <1>2
  <2>4. Held(window', stage) /\ Ordered(window', order)
    BY <2>2, <2>3, FragmentsStay
  <2> QED
    BY <2>1, <2>4
<1>7. /\ typing' \in Seq(Chats) /\ Distinct(typing') /\ Len(typing') <= MaxTyping
      /\ Members(typing') = (Members(typing) \ Forgotten) \cup {k}
  <2>1. /\ rest \in Seq(Chats) /\ Distinct(rest) /\ Len(rest) < MaxTyping
        /\ Members(rest) = Members(typing) \ Forgotten
    BY ForgottenTyping
  <2> HIDE DEF rest
  <2>2. /\ Append(rest, k) \in Seq(Chats) /\ Len(Append(rest, k)) = Len(rest) + 1
        /\ Members(Append(rest, k)) = Members(rest) \cup {k}
        /\ Distinct(Append(rest, k)) <=> Distinct(rest) /\ k \notin Members(rest)
    BY <2>1, AppendProperties, MembersAppend
  <2>3. Len(rest) \in Nat
    BY <2>1, LenProperties
  <2> QED
    BY <1>1, <2>1, <2>2, <2>3, LimitAssumption
<1>8. /\ guard' \in [Chats -> (0 .. TypingWait) \cup {NoGuard}]
      /\ \A j \in Chats : guard'[j] = IF j = k THEN TypingWait
                                        ELSE IF j \in Forgotten THEN NoGuard ELSE guard[j]
  <2>1. guard \in [Chats -> (0 .. TypingWait) \cup {NoGuard}]
    BY <1>2 DEF Guarded
  <2>2. TypingWait \in 0 .. TypingWait
    BY TimeAssumption
  <2>3. guard' = [j \in Chats |-> CASE j = k -> TypingWait
                                    [] j \in Forgotten -> NoGuard
                                    [] OTHER -> guard[j]]
    BY DEF PauseTyping
  <2>4. ASSUME NEW j \in Chats
        PROVE  guard'[j] = IF j = k THEN TypingWait
                             ELSE IF j \in Forgotten THEN NoGuard ELSE guard[j]
    BY <1>4, <2>3
  <2>5. guard' = [j \in Chats |-> guard'[j]]
    BY <2>3
  <2> QED
    BY <2>1, <2>2, <2>4, <2>5
<1>9. TypingWait # NoGuard
  BY TimeAssumption, NoneAssumption
<1>10. Guarded(window', typing', guard')
  <2>1. ASSUME NEW j \in Chats
        PROVE  /\ window'[j] # NoWindow => (window'[j].paused <=> j \in Members(typing'))
               /\ j \in Members(typing') <=> guard'[j] # NoGuard
    <3>1. CASE j = k
      BY <1>5, <1>7, <1>8, <1>9, <3>1
    <3>2. CASE j # k /\ j \in Forgotten
      BY <1>5, <1>7, <1>8, <3>2
    <3>3. CASE j # k /\ j \notin Forgotten
      BY <1>2, <1>5, <1>7, <1>8, <3>3 DEF Guarded
    <3> QED
      BY <3>1, <3>2, <3>3
  <2> QED
    BY <1>7, <1>8, <2>1 DEF Guarded
<1> QED
  BY <1>5, <1>6, <1>10 DEF Parts

LEMMA ResumeTypingKeeps ==
  ASSUME Parts, NEW k \in Chats, ResumeTyping(k)
  PROVE  Parts'
<1>1. /\ k \in Members(typing)
      /\ typing' = Popped(typing, {k})
      /\ guard' = [guard EXCEPT ![k] = NoGuard]
      /\ order' = order /\ stage' = stage
  BY DEF ResumeTyping, Typing
<1>2. /\ Timed(window, timer) /\ Held(window, stage)
      /\ Ordered(window, order) /\ Guarded(window, typing, guard)
  BY DEF Parts
<1>3. /\ Timed(window', timer')
      /\ \A j \in Chats : /\ window'[j] = NoWindow <=> window[j] = NoWindow
                          /\ window[j] # NoWindow =>
                               /\ window'[j].frags = window[j].frags
                               /\ window'[j].paused =
                                    IF j = k THEN FALSE ELSE window[j].paused
  <2>1. CASE k \notin Open
    <3>1. window' = window /\ timer' = timer
      BY <2>1 DEF ResumeTyping
    <3> QED
      BY <1>2, <2>1, <3>1 DEF Open
  <2>2. CASE k \in Open
    <3> DEFINE w == [window[k] EXCEPT !.paused = FALSE]
    <3>1. ArmFlush(k, w, window, {})
      BY <2>2 DEF ResumeTyping
    <3>2. window[k] \in Window /\ window[k] # NoWindow
      BY <1>2, <2>2 DEF Timed, Open
    <3>3. w \in Window /\ w.frags = window[k].frags /\ w.paused = FALSE
      BY <3>2 DEF Window
    <3>4. IsFiniteSet(Open \ ({} \cup {k})) /\ Cardinality(Open \ ({} \cup {k})) < MaxWindows
      BY <2>2, OthersCounted
    <3>5. window \in [Chats -> Window \cup {NoWindow}]
      BY <1>2 DEF Timed
    <3> HIDE DEF w
    <3>6. /\ Timed(window', timer')
          /\ \A j \in Chats \ {k} : window'[j] = window[j]
          /\ window'[k] # NoWindow
          /\ window'[k].frags = w.frags
          /\ window'[k].paused = w.paused
      BY <3>1, <3>3, <3>4, <3>5, ArmFlushTimed
    <3> QED
      BY <3>2, <3>3, <3>6
  <2> QED
    BY <2>1, <2>2
<1>4. Held(window', stage') /\ Ordered(window', order')
  <2>1. order' = order /\ stage' = stage
    BY <1>1 DEF PauseTyping, ResumeTyping
  <2>2. \A j \in Chats : /\ window'[j] = NoWindow <=> window[j] = NoWindow
                         /\ window[j] # NoWindow => window'[j].frags = window[j].frags
    BY <1>3
  <2>3. Held(window, stage) /\ Ordered(window, order)
    BY <1>2
  <2>4. Held(window', stage) /\ Ordered(window', order)
    BY <2>2, <2>3, FragmentsStay
  <2> QED
    BY <2>1, <2>4
<1>5. /\ typing' \in Seq(Chats) /\ Distinct(typing') /\ Len(typing') <= MaxTyping
      /\ Members(typing') = Members(typing) \ {k}
  <2>1. /\ typing \in Seq(Chats) /\ Distinct(typing) /\ Len(typing) <= MaxTyping
    BY <1>2 DEF Guarded
  <2>2. /\ typing' \in Seq(Chats) /\ Distinct(typing') /\ Len(typing') <= Len(typing)
        /\ Members(typing') = Members(typing) \ {k}
    BY <1>1, <2>1, PoppedKeeps
  <2> QED
    BY <2>1, <2>2, LenProperties, LimitAssumption
<1>6. Guarded(window', typing', guard')
  BY <1>1, <1>2, <1>3, <1>5 DEF Guarded
<1> QED
  BY <1>3, <1>4, <1>6 DEF Parts

LEMMA FlushKeeps ==
  ASSUME Parts, NEW t \in Tasks, Flush(t)
  PROVE  Parts'
<1>1. /\ t \in Live /\ timer' = [timer EXCEPT ![t] = NoTimer]
      /\ window' = Closed({timer[t].chat})
      /\ order' = Popped(order, {timer[t].chat})
      /\ typing' = typing /\ guard' = guard
  BY DEF Flush
<1>2. Timed(window, timer)
  BY DEF Parts
<1> PICK k \in Chats : k = timer[t].chat
  BY <1>1, <1>2 DEF Timed, Timer, Live
<1> PICK outcome \in {"flushed", "refused"} :
       stage' = Staged(FragmentsOf({k} \cap Open), outcome)
  BY DEF Flush
<1>3. window[k] # NoWindow /\ window[k].task = t
  BY <1>1, <1>2 DEF Timed, Live
<1>4. timer' = Cancelled({k})
  <2>1. \A u \in Tasks : (\E j \in {k} \cap Open : window[j].task = u) <=> u = t
    BY <1>3 DEF Open
  <2>2. timer \in [Tasks -> Timer \cup {NoTimer}]
    BY <1>2 DEF Timed
  <2>3. timer' = [u \in Tasks |-> IF u = t THEN NoTimer ELSE timer[u]]
    BY <1>1, <2>2
  <2>4. Cancelled({k}) = [u \in Tasks |-> IF u = t THEN NoTimer ELSE timer[u]]
    BY <2>1 DEF Cancelled
  <2> QED
    BY <2>3, <2>4
<1>5. /\ Timed(Closed({k}), Cancelled({k}))
      /\ Held(Closed({k}), Staged(FragmentsOf({k} \cap Open), outcome))
      /\ Ordered(Closed({k}), Popped(order, {k}))
      /\ Guarded(Closed({k}), typing, guard)
  BY ClosedParts
<1> QED
  BY <1>1, <1>4, <1>5 DEF Parts

LEMMA DiscardAllKeeps ==
  ASSUME Parts, DiscardAll
  PROVE  Parts'
<1>1. Open \in SUBSET Chats /\ Open \cap Open = Open
  BY DEF Open
<1>2. /\ Timed(Closed(Open), Cancelled(Open))
      /\ Held(Closed(Open), Staged(FragmentsOf(Open), "dropped"))
      /\ Ordered(Closed(Open), Popped(order, Open))
  BY <1>1, ClosedParts
<1>3. /\ window' = Closed(Open) /\ order' = Popped(order, Open)
      /\ timer' = Cancelled(Open) /\ stage' = Staged(FragmentsOf(Open), "dropped")
      /\ typing' = <<>> /\ guard' = [k \in Chats |-> NoGuard]
  BY DEF DiscardAll, Drop
<1>4. \A k \in Chats : window'[k] = NoWindow
  BY <1>3 DEF Closed, Open
<1>5. Members(<<>>) = {} /\ Distinct(<<>>) /\ <<>> \in Seq(Chats) /\ Len(<<>>) = 0
  BY EmptySeq DEF Members, Distinct
<1>6. Guarded(window', typing', guard')
  BY <1>3, <1>4, <1>5, LimitAssumption DEF Guarded
<1> QED
  BY <1>2, <1>3, <1>6 DEF Parts

LEMMA TickKeeps ==
  ASSUME Parts, Tick
  PROVE  Parts'
<1>1. /\ Timed(window, timer) /\ Held(window, stage)
      /\ Ordered(window, order) /\ Guarded(window, typing, guard)
  BY DEF Parts
<1>2. /\ \A t \in Tasks : timer[t] # NoTimer => timer[t].left > 0
      /\ \A k \in Chats : guard[k] # 0
      /\ window' = [k \in Chats |-> Older(window[k])]
      /\ timer' = [t \in Tasks |-> IF timer[t] # NoTimer
                                     THEN [timer[t] EXCEPT !.left = @ - 1] ELSE NoTimer]
      /\ guard' = [k \in Chats |-> IF guard[k] = NoGuard THEN NoGuard ELSE guard[k] - 1]
      /\ order' = order /\ typing' = typing /\ stage' = stage
  BY DEF Tick, Live
<1>3. ASSUME NEW w \in Window
      PROVE  /\ Older(w) \in Window
             /\ Older(w).frags = w.frags /\ Older(w).paused = w.paused
             /\ Older(w).task = w.task
             /\ w.age <= MaxTotal => Older(w).age = w.age + 1
             /\ Older(w) # NoWindow
  <2>1. w # NoWindow /\ w.age \in 0 .. MaxTotal + 1 /\ MaxTotal \in Nat
    BY NoneAssumption, TimeAssumption DEF Window
  <2>2. Older(w) = [w EXCEPT !.age = IF @ > MaxTotal THEN @ ELSE @ + 1]
    BY <2>1 DEF Older
  <2>3. Older(w) \in Window
    BY <2>1, <2>2 DEF Window
  <2> QED
    BY <2>1, <2>2, <2>3, NoneAssumption DEF Window
<1>4. ASSUME NEW k \in Chats
      PROVE  /\ window'[k] = Older(window[k])
             /\ window'[k] = NoWindow <=> window[k] = NoWindow
             /\ window[k] # NoWindow =>
                  /\ window[k] \in Window
                  /\ window'[k].frags = window[k].frags
                  /\ window'[k].paused = window[k].paused
                  /\ window'[k].task = window[k].task
                  /\ window[k].age \in Nat
                  /\ window[k].age <= MaxTotal => window'[k].age = window[k].age + 1
  <2>1. window'[k] = Older(window[k])
    BY <1>2
  <2>2. window[k] \in Window \/ window[k] = NoWindow
    BY <1>1 DEF Timed
  <2>3. CASE window[k] = NoWindow
    BY <2>1, <2>3 DEF Older
  <2>4. CASE window[k] \in Window
    <3> PICK w \in Window : w = window[k]
      BY <2>4
    <3>1. w.age \in Nat
      BY TimeAssumption DEF Window
    <3>2. window'[k] = Older(w) /\ w # NoWindow
      BY <2>1, NoneAssumption
    <3> QED
      BY <1>3, <3>1, <3>2
  <2> QED
    BY <2>2, <2>3, <2>4
<1>5. ASSUME NEW t \in Tasks
      PROVE  /\ timer'[t] = NoTimer <=> timer[t] = NoTimer
             /\ timer[t] # NoTimer =>
                  /\ timer'[t] \in Timer /\ timer'[t].chat = timer[t].chat
                  /\ timer'[t].left = timer[t].left - 1
                  /\ timer[t].left \in Nat \ {0} /\ timer[t].chat \in Chats
  <2>1. timer[t] \in Timer \/ timer[t] = NoTimer
    BY <1>1 DEF Timed
  <2>2. CASE timer[t] = NoTimer
    BY <1>2, <2>2
  <2>3. CASE timer[t] # NoTimer
    <3> PICK old \in Timer : old = timer[t]
      BY <2>1, <2>3
    <3>1. old.left \in Nat \ {0} /\ old.chat \in Chats
      BY <1>2, <2>3 DEF Timer
    <3> DEFINE new == [old EXCEPT !.left = @ - 1]
    <3>2. timer'[t] = new
      BY <1>2, <2>3
    <3>3. new \in Timer /\ new.chat = old.chat /\ new.left = old.left - 1
      BY <3>1 DEF Timer
    <3> HIDE DEF new
    <3> QED
      BY <2>3, <3>1, <3>2, <3>3, NoneAssumption
  <2> QED
    BY <2>2, <2>3
<1>6. Timed(window', timer')
  <2>1. window' \in [Chats -> Window \cup {NoWindow}]
    BY <1>2, <1>3, <1>4
  <2>2. timer' \in [Tasks -> Timer \cup {NoTimer}]
    BY <1>2, <1>5
  <2>3. ASSUME NEW k \in Chats, window'[k] # NoWindow
        PROVE  IF window'[k].paused
                 THEN window'[k].task = NoTask
                 ELSE /\ window'[k].task \in Tasks
                      /\ timer'[window'[k].task] # NoTimer
                      /\ timer'[window'[k].task].chat = k
    BY <1>1, <1>4, <1>5, <2>3 DEF Timed
  <2>4. ASSUME NEW t \in Tasks, timer'[t] # NoTimer
        PROVE  /\ window'[timer'[t].chat] # NoWindow
               /\ window'[timer'[t].chat].task = t
               /\ timer'[t].left > 0
                    => timer'[t].left + window'[timer'[t].chat].age <= MaxTotal
    <3>1. /\ timer[t] # NoTimer /\ timer[t].chat \in Chats
          /\ timer'[t].chat = timer[t].chat /\ timer'[t].left = timer[t].left - 1
          /\ timer[t].left \in Nat \ {0}
      BY <1>5, <2>4
    <3>2. /\ window[timer[t].chat] # NoWindow
          /\ window[timer[t].chat].task = t
          /\ timer[t].left + window[timer[t].chat].age <= MaxTotal
      BY <1>1, <3>1 DEF Timed
    <3>3. /\ window'[timer[t].chat] # NoWindow
          /\ window'[timer[t].chat].task = t
          /\ window[timer[t].chat].age \in Nat
          /\ window[timer[t].chat].age <= MaxTotal
               => window'[timer[t].chat].age = window[timer[t].chat].age + 1
      BY <1>4, <3>1, <3>2
    <3> QED
      BY <3>1, <3>2, <3>3, TimeAssumption
  <2> QED
    BY <2>1, <2>2, <2>3, <2>4 DEF Timed
<1>7. Held(window', stage') /\ Ordered(window', order')
  BY <1>1, <1>2, <1>4, FragmentsStay
<1>8. Guarded(window', typing', guard')
  <2>1. ASSUME NEW k \in Chats
        PROVE  /\ guard'[k] \in (0 .. TypingWait) \cup {NoGuard}
               /\ guard'[k] # NoGuard <=> guard[k] # NoGuard
    <3>1. CASE guard[k] = NoGuard
      BY <1>2, <3>1
    <3>2. CASE guard[k] # NoGuard
      <4>1. guard[k] \in 0 .. TypingWait /\ guard[k] # 0
        BY <1>1, <1>2, <3>2 DEF Guarded
      <4>2. guard'[k] = guard[k] - 1
        BY <1>2, <3>2
      <4>3. guard'[k] \in 0 .. TypingWait /\ guard'[k] \in Nat
        BY <4>1, <4>2, TimeAssumption
      <4> QED
        BY <3>2, <4>3, NoneAssumption
    <3> QED
      BY <3>1, <3>2
  <2>2. guard' \in [Chats -> (0 .. TypingWait) \cup {NoGuard}]
    BY <1>2, <2>1
  <2> QED
    BY <1>1, <1>2, <1>4, <2>1, <2>2 DEF Guarded
<1> QED
  BY <1>6, <1>7, <1>8 DEF Parts

-----------------------------------------------------------------------------
(* Every step keeps the parts, and with them the inductive invariant.      *)
LEMMA NextKeepsParts == Parts /\ [Next]_vars => Parts'
<1> SUFFICES ASSUME Parts, [Next]_vars PROVE Parts'
  OBVIOUS
<1>1. CASE UNCHANGED vars
  BY <1>1 DEF vars, Parts, Timed, Held, Ordered, Guarded
<1>2. ASSUME NEW m \in Msgs, Wake(m) \/ AcceptFirst(m) \/ AcceptMore(m) \/ Recall(m)
      PROVE  Parts'
  BY <1>2, WakeKeeps, AcceptFirstKeeps, AcceptMoreKeeps, RecallKeeps
<1>3. ASSUME NEW k \in Chats, Discard(k) PROVE Parts'
  BY <1>3, DropKeeps DEF Discard
<1>4. ASSUME NEW k \in Chats, PauseTyping(k) PROVE Parts'
  BY <1>4, PauseTypingKeeps
<1>5. ASSUME NEW k \in Chats, ResumeTyping(k) \/ GuardFires(k) PROVE Parts'
  BY <1>5, ResumeTypingKeeps DEF GuardFires
<1>6. ASSUME NEW t \in Tasks, Flush(t) PROVE Parts'
  BY <1>6, FlushKeeps
<1> QED
  BY <1>1, <1>2, <1>3, <1>4, <1>5, <1>6, DiscardAllKeeps, TickKeeps DEF Next

THEOREM InductiveInvariance == Spec => []IInv
<1>1. Init => Parts
  BY InitParts
<1>2. Parts /\ [Next]_vars => Parts'
  BY NextKeepsParts
<1>3. Parts => IInv
  BY IInvIsParts
<1> QED
  BY <1>1, <1>2, <1>3, PTL DEF Spec

(* No table grows beyond its limit, no window beyond its fragments.        *)
THEOREM TypeCorrectness == Spec => []TypeOK
<1>1. IInv => TypeOK
  BY DEF IInv
<1> QED
  BY <1>1, InductiveInvariance, PTL

(* Every window is on its way out or paused; no timer flushes a window     *)
(* that is not its own.                                                    *)
THEOREM TimersExact == Spec => []TimerExact
<1>1. IInv => TimerExact
  BY DEF IInv
<1> QED
  BY <1>1, InductiveInvariance, PTL

(* No window stays paused without a guard that will resume it.             *)
THEOREM PausesGuarded == Spec => []PauseGuarded
<1>1. IInv => PauseGuarded
  BY DEF IInv
<1> QED
  BY <1>1, InductiveInvariance, PTL

(* Nothing puts off a flush beyond the life of its window.                 *)
THEOREM FlushesInTime == Spec => []FlushInTime
<1>1. IInv => FlushInTime
  BY DEF IInv
<1> QED
  BY <1>1, InductiveInvariance, PTL

(* No accepted fragment is lost, held twice or held in another chat.       *)
THEOREM FragmentsAreHeld == Spec => []FragmentsHeld
<1>1. IInv => FragmentsHeld
  BY DEF IInv
<1> QED
  BY <1>1, InductiveInvariance, PTL
=============================================================================
