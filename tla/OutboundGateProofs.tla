------------------------- MODULE OutboundGateProofs -------------------------
(***************************************************************************)
(* Whatever tasks send and however, the outbound lock of a group is held   *)
(* for somebody, a turn without late sends leaves nothing behind; and when *)
(* all tasks send through the gate, those of a turn one after the other,   *)
(* one turn speaks at a time.                                              *)
(***************************************************************************)
EXTENDS OutboundGate, WaitQueueProofs

Around == {"around", "sendingAround", "sendingInside"}

(* The steps of tasks: only the pipeline task and the children of an event *)
(* ask for its turn, and only tasks without turn wait around it.           *)
TaskShape ==
  /\ \A t \in Tasks : act[t] = "holding" => t \notin Others
  /\ \A t \in Tasks : act[t] \in Around => t \notin Children
  /\ \A e \in Events : act[e] \in Around => phase[e] = "after"
  /\ \A e \in Events : phase[e] = "before" => act[e] = "idle"
  /\ \A t \in Tasks : act[t] \in {"sendingAround", "sendingInside"} => depth[t] > 0
  /\ \A c \in Children : act[c] # "idle" => home[c] \in Events
  /\ \A c \in Children : home[c] \in Events => phase[home[c]] # "before"

(* A lock is registered with one event, and not with any while a message   *)
(* goes out around the turns.                                              *)
OneHolder ==
  /\ \A e, f \in Events : reg[e] = reg[f] /\ reg[e] \in Tasks => e = f
  /\ \A t \in Tasks :
       act[t] = "sendingAround" => owner[Umo] = t /\ \A e \in Events : reg[e] # t

(* Up to the end of its turn a pipeline task is inside the lock once, for  *)
(* its own event, so that release_turn finds what it has to give back.     *)
DepthOfTurn ==
  \A e \in Events :
    /\ phase[e] = "before" => depth[e] = 0
    /\ phase[e] = "turn" => depth[e] = 0 \/ (depth[e] = 1 /\ reg[e] = e)

(* A task outside of the turns is inside the lock for one message.         *)
InsideOnce ==
  \A o \in Others :
    /\ act[o] # "sendingInside"
    /\ depth[o] = IF act[o] = "sendingAround" THEN 1 ELSE 0

(* The lock is registered with an event, or taken around one message.      *)
Accounted ==
  /\ \A e \in Events : reg[e] \in Tasks => owner[Umo] = reg[e]
  /\ owner[Umo] # NoTask =>
       \/ \E e \in Events : reg[e] = owner[Umo]
       \/ act[owner[Umo]] = "sendingAround"

GateInv == TypeOK /\ TaskShape /\ OneHolder /\ DepthOfTurn /\ InsideOnce /\ Accounted

(* After its turn, only an event that is sent to has a part in the gate.   *)
LateShape ==
  /\ \A t \in Tasks \ Others :
       act[t] # "idle" /\ phase[EventOf(t)] = "after" => EventOf(t) \in late
  /\ \A e \in Events : reg[e] # "no" => phase[e] = "turn" \/ e \in late
  /\ \A e \in Events \ late : phase[e] = "after" => depth[e] = 0

IInv == GateInv /\ LateShape

-----------------------------------------------------------------------------
(* Constants, and the lock *)

LEMMA Constants ==
  /\ \A t \in Tasks : t \notin Others => t \in Events \/ t \in Children
  /\ \A e \in Events : EventOf(e) = e /\ e \in Tasks /\ e \notin Others /\ e \notin Children
  /\ \A t \in Tasks : t # NoTask /\ t # "no" /\ t # "nested" /\ t # "unborn" /\ t # "ended"
BY DisjointAssumption, NoTaskAssumption, NamesAssumption
DEF Tasks, EventOf

LockShape == line \in [{Umo} -> Seq(Tasks)] /\ owner \in [{Umo} -> Tasks \cup {NoTask}]

(* What the operations of the lock do to it.                               *)
LEMMA LockSteps ==
  ASSUME LockShape, NEW t \in Tasks
  PROVE  /\ Mutex!Enqueue(t, Umo) => LockShape' /\ owner' = owner
         /\ Mutex!Quit(t, Umo) => LockShape' /\ owner' = owner
         /\ Mutex!Handover(t, Umo)
              => LockShape' /\ owner[Umo] = NoTask /\ owner'[Umo] = t
         /\ Mutex!Release(t, Umo)
              => LockShape' /\ owner[Umo] = t /\ owner'[Umo] = NoTask
<1> DEFINE q == line[Umo]
<1>1. q \in Seq(Tasks)
  BY DEF LockShape
<1>2. Append(q, t) \in Seq(Tasks)
  BY <1>1, AppendProperties
<1>3. q # <<>> => Tail(q) \in Seq(Tasks)
  BY <1>1, HeadTailProperties
<1>4. Mutex!InLine(t, Umo) => Without(q, t) \in Seq(Tasks)
  BY <1>1, WithoutElements, LenProperties DEF Mutex!InLine
<1>5. Mutex!Without(q, t) = Without(q, t)
  BY DEF Mutex!Without, Mutex!Place, Without, Place
<1> HIDE DEF q
<1>6. Mutex!Enqueue(t, Umo) => LockShape' /\ owner' = owner
  BY <1>2 DEF Mutex!Enqueue, LockShape, q
<1>7. Mutex!Quit(t, Umo) => LockShape' /\ owner' = owner
  BY <1>4, <1>5 DEF Mutex!Quit, LockShape, q
<1>8. Mutex!Handover(t, Umo)
        => LockShape' /\ owner[Umo] = NoTask /\ owner'[Umo] = t
  BY <1>3 DEF Mutex!Handover, LockShape, q
<1>9. Mutex!Release(t, Umo)
        => LockShape' /\ owner[Umo] = t /\ owner'[Umo] = NoTask
  BY DEF Mutex!Release, LockShape
<1> QED
  BY <1>6, <1>7, <1>8, <1>9

(* A task that does something, or may, has its event.                      *)
LEMMA Homes ==
  ASSUME TypeOK, TaskShape, NEW t \in Tasks \ Others,
         act[t] # "idle" \/ MaySend(t)
  PROVE  EventOf(t) \in Events /\ phase[EventOf(t)] # "before"
BY Constants DEF TypeOK, TaskShape, MaySend, EventOf

LEMMA ShapeOfLock == TypeOK => LockShape
BY DEF TypeOK, LockShape

-----------------------------------------------------------------------------

LEMMA InitInv == Init => GateInv
<1> SUFFICES ASSUME Init PROVE GateInv
  OBVIOUS
<1>1. <<>> \in Seq(Tasks)
  BY EmptySeq
<1>2. line \in [{Umo} -> Seq(Tasks)] /\ owner \in [{Umo} -> Tasks \cup {NoTask}]
  BY <1>1 DEF Init, Mutex!Init
<1>3. owner[Umo] = NoTask
  BY DEF Init, Mutex!Init
<1>4. TypeOK
  BY <1>2, MaxSendsAssumption DEF Init, TypeOK
<1>5. TaskShape /\ OneHolder /\ DepthOfTurn /\ InsideOnce /\ Accounted
  BY <1>3, Constants
  DEF Init, TaskShape, OneHolder, DepthOfTurn, InsideOnce, Accounted, Around, Tasks
<1> QED
  BY <1>4, <1>5 DEF GateInv

LEMMA StutterInv == GateInv /\ UNCHANGED vars => GateInv'
BY DEF GateInv, TypeOK, TaskShape, OneHolder, DepthOfTurn, InsideOnce, Accounted, vars, Around

(* hold_turn from a task that is neither waiting nor inside a send around. *)
LEMMA HoldInv ==
  ASSUME GateInv, NEW t \in Tasks \ Others, NEW what \in {"idle", "sending"},
         act[t] \in {"idle", "sending"},
         EventOf(t) \in Events, phase[EventOf(t)] # "before",
         HoldTurn(t, what), UNCHANGED <<phase, home>>,
         sent' \in [Tasks -> 0 .. MaxSends], open' \in SUBSET Events,
         late' \in SUBSET Events
  PROVE  GateInv'
<1> DEFINE e == EventOf(t)
<1> USE DEF GateInv
<1>1. /\ e \in Events /\ t \in Tasks /\ t # NoTask
      /\ t \in Events => phase[t] # "before"
      /\ t \in Children => home[t] \in Events
  BY Constants DEF EventOf
<1>2. CASE HoldKnown(t, what)
  <2>1. act' = [act EXCEPT ![t] = what] /\ UNCHANGED <<gateVars, next>>
    BY <1>2 DEF HoldKnown
  <2>2. TypeOK'
    BY <2>1 DEF TypeOK, gateVars
  <2>3. TaskShape' /\ OneHolder' /\ InsideOnce'
    BY <1>1, <2>1 DEF TypeOK, TaskShape, OneHolder, InsideOnce, gateVars, Around
  <2>4. DepthOfTurn' /\ Accounted'
    BY <1>1, <2>1 DEF TypeOK, DepthOfTurn, Accounted, gateVars
  <2> QED
    BY <2>2, <2>3, <2>4
<1>3. CASE HoldNested(t, what)
  <2>1. /\ reg[e] = "no" /\ depth[t] > 0
        /\ depth' = [depth EXCEPT ![t] = @ + 1]
        /\ reg' = [reg EXCEPT ![e] = "nested"]
        /\ act' = [act EXCEPT ![t] = what]
        /\ UNCHANGED <<pending, line, owner, next>>
    BY <1>3 DEF HoldNested, Known
  <2>2. TypeOK'
    BY <1>1, <2>1 DEF TypeOK
  <2>3. TaskShape' /\ OneHolder' /\ InsideOnce'
    BY <1>1, <2>1, Constants DEF TypeOK, TaskShape, OneHolder, InsideOnce, Around
  <2>4. t \in Events => phase[t] = "after"
    BY <1>1, <2>1, Constants DEF TypeOK, DepthOfTurn
  <2>5. depth[e] # 1 \/ reg[e] # e
    BY <1>1, <2>1, Constants
  <2>6. DepthOfTurn'
    BY <1>1, <2>1, <2>4, <2>5, Constants DEF TypeOK, DepthOfTurn
  <2>7. Accounted'
    BY <1>1, <2>1, Constants DEF TypeOK, Accounted
  <2> QED
    BY <2>2, <2>3, <2>6, <2>7
<1>4. CASE HoldAsks(t, what)
  <2>1. /\ pending' = pending \cup {e}
        /\ act' = [act EXCEPT ![t] = "holding"]
        /\ next' = [next EXCEPT ![t] = what]
        /\ UNCHANGED <<reg, depth>>
    BY <1>4 DEF HoldAsks
  <2>2. LockShape' /\ owner' = owner
    BY <1>1, <1>4, ShapeOfLock, LockSteps DEF HoldAsks
  <2>3. TypeOK'
    BY <1>1, <2>1, <2>2 DEF TypeOK, LockShape
  <2>4. TaskShape' /\ OneHolder' /\ InsideOnce' /\ DepthOfTurn'
    BY <1>1, <2>1, <2>2 DEF TypeOK, TaskShape, OneHolder, InsideOnce, DepthOfTurn, Around
  <2>5. Accounted'
    BY <1>1, <2>1, <2>2 DEF TypeOK, Accounted
  <2> QED
    BY <2>3, <2>4, <2>5
<1> QED
  BY <1>2, <1>3, <1>4 DEF HoldTurn

LEMMA SendInv ==
  ASSUME GateInv, NEW t \in Tasks, Send(t)
  PROVE  GateInv'
<1> USE DEF GateInv
<1>1. /\ act[t] = "idle" /\ MaySend(t)
      /\ sent' = [sent EXCEPT ![t] = @ + 1]
      /\ late' = late \/ (HasEvent(t) /\ late' = late \cup {EventOf(t)})
      /\ UNCHANGED <<phase, home>>
  BY DEF Send, SendDirect, SendInTurn, SendAround, SendUnseen, Sending
<1>2. sent' \in [Tasks -> 0 .. MaxSends] /\ late' \in SUBSET Events
  BY <1>1, MaxSendsAssumption, Homes DEF MaySend, TypeOK, HasEvent
<1>3. /\ t \in Events => phase[t] # "before"
      /\ t \in Children => home[t] \in Events
  BY <1>1 DEF MaySend
<1>4. CASE SendInTurn(t)
  <2>1. t \notin Others
    BY <1>4, Constants, DisjointAssumption DEF SendInTurn, HasTurn
  <2> QED
    BY <1>1, <1>2, <1>4, <2>1, Homes, HoldInv DEF SendInTurn, TypeOK
<1>5. CASE SendDirect(t) \/ SendUnseen(t)
  <2>1. /\ act' = [act EXCEPT ![t] = "sending"]
        /\ UNCHANGED <<reg, pending, depth, line, owner, next, open>>
    BY <1>5 DEF SendDirect, SendUnseen, gateVars
  <2>2. TypeOK'
    BY <1>1, <1>2, <2>1 DEF TypeOK
  <2>3. TaskShape' /\ OneHolder' /\ InsideOnce' /\ DepthOfTurn'
    BY <1>1, <1>3, <2>1 DEF TypeOK, TaskShape, OneHolder, InsideOnce, DepthOfTurn, Around
  <2>4. Accounted'
    BY <1>1, <2>1 DEF TypeOK, Accounted
  <2> QED
    BY <2>2, <2>3, <2>4
<1>6. CASE SendAround(t)
  <2>1. t \notin Children /\ (t \in Events => phase[t] = "after")
    BY <1>1, <1>3, <1>6 DEF SendAround, HasTurn, TypeOK
  <2>2. UNCHANGED <<reg, pending, next, open>>
    BY <1>6 DEF SendAround
  <2>3. CASE depth[t] > 0
    <3>1. /\ depth' = [depth EXCEPT ![t] = @ + 1]
          /\ act' = [act EXCEPT ![t] = "sendingInside"]
          /\ UNCHANGED <<line, owner>>
      BY <1>6, <2>3 DEF SendAround
    <3>2. TypeOK'
      BY <1>1, <1>2, <2>2, <3>1 DEF TypeOK
    <3>3. TaskShape' /\ OneHolder' /\ InsideOnce'
      BY <1>1, <2>1, <2>2, <2>3, <3>1 DEF TypeOK, TaskShape, OneHolder, InsideOnce, Around
    <3>4. DepthOfTurn' /\ Accounted'
      BY <1>1, <2>1, <2>2, <3>1 DEF TypeOK, DepthOfTurn, Accounted
    <3> QED
      BY <3>2, <3>3, <3>4
  <2>4. CASE ~(depth[t] > 0)
    <3>1. /\ act' = [act EXCEPT ![t] = "around"] /\ UNCHANGED depth
          /\ LockShape' /\ owner' = owner
      BY <1>6, <2>4, ShapeOfLock, LockSteps DEF SendAround
    <3>2. TypeOK'
      BY <1>1, <1>2, <2>2, <3>1 DEF TypeOK, LockShape
    <3>3. TaskShape' /\ OneHolder' /\ InsideOnce' /\ DepthOfTurn'
      BY <1>1, <2>1, <2>2, <3>1 DEF TypeOK, TaskShape, OneHolder, InsideOnce, DepthOfTurn, Around
    <3>4. Accounted'
      BY <1>1, <2>2, <3>1 DEF TypeOK, Accounted
    <3> QED
      BY <3>2, <3>3, <3>4
  <2> QED
    BY <2>3, <2>4
<1> QED
  BY <1>4, <1>5, <1>6 DEF Send

(* The lock is handed over when nobody has it and nothing is registered.   *)
LEMMA GainInv ==
  ASSUME GateInv, NEW t \in Tasks, GainHold(t) \/ GainAround(t)
  PROVE  GateInv'
<1> USE DEF GateInv
<1>1. LockShape' /\ owner[Umo] = NoTask /\ owner'[Umo] = t
  BY ShapeOfLock, LockSteps DEF GainHold, GainAround
<1>2. \A f \in Events : reg[f] \notin Tasks
  BY <1>1, Constants DEF Accounted
<1>3. \A u \in Tasks : act[u] # "sendingAround"
  BY <1>1, Constants DEF OneHolder
<1>4. CASE GainHold(t)
  <2> DEFINE e == EventOf(t)
  <2>1. /\ act[t] = "holding"
        /\ pending' = pending \ {e}
        /\ reg' = [reg EXCEPT ![e] = t]
        /\ depth' = [depth EXCEPT ![t] = 1]
        /\ act' = [act EXCEPT ![t] = next[t]]
        /\ UNCHANGED <<phase, home, next, sent, open, late>>
    BY <1>4 DEF GainHold
  <2>2. e \in Events /\ t \notin Others
    BY <2>1, Homes DEF TaskShape
  <2>3. t \in Events => e = t /\ phase[t] # "before"
    BY <2>1, Constants DEF TaskShape
  <2> HIDE DEF e
  <2>4. TypeOK'
    BY <1>1, <2>1, <2>2 DEF TypeOK, LockShape
  <2>5. TaskShape' /\ OneHolder' /\ InsideOnce'
    BY <1>2, <1>3, <2>1, <2>2, <2>3, Constants
    DEF TypeOK, TaskShape, OneHolder, InsideOnce, Around
  <2>6. \A f \in Events : phase[f] = "turn" => depth[f] = 0
    BY <1>2, Constants DEF DepthOfTurn
  <2>7. DepthOfTurn'
    BY <2>1, <2>2, <2>3, <2>6 DEF TypeOK, DepthOfTurn
  <2>8. Accounted'
    BY <1>1, <1>2, <2>1, <2>2 DEF TypeOK, Accounted
  <2> QED
    BY <2>4, <2>5, <2>7, <2>8
<1>5. CASE GainAround(t)
  <2>1. /\ act[t] = "around"
        /\ depth' = [depth EXCEPT ![t] = @ + 1]
        /\ act' = [act EXCEPT ![t] = "sendingAround"]
        /\ UNCHANGED <<phase, home, reg, pending, next, sent, open, late>>
    BY <1>5 DEF GainAround
  <2>2. t \notin Children /\ (t \in Events => phase[t] = "after")
    BY <2>1 DEF TaskShape, Around
  <2>3. TypeOK'
    BY <1>1, <2>1 DEF TypeOK, LockShape
  <2>4. TaskShape' /\ OneHolder' /\ InsideOnce'
    BY <1>1, <1>2, <1>3, <2>1, <2>2 DEF TypeOK, TaskShape, OneHolder, InsideOnce, Around
  <2>5. DepthOfTurn' /\ Accounted'
    BY <1>1, <1>2, <2>1, <2>2 DEF TypeOK, DepthOfTurn, Accounted
  <2> QED
    BY <2>3, <2>4, <2>5
<1> QED
  BY <1>4, <1>5

LEMMA CancelInv ==
  ASSUME GateInv, NEW t \in Tasks, CancelWait(t)
  PROVE  GateInv'
<1> USE DEF GateInv
<1>1. /\ LockShape' /\ owner' = owner
      /\ act[t] \in {"holding", "around"} /\ act' = [act EXCEPT ![t] = "idle"]
      /\ pending' \subseteq pending
      /\ UNCHANGED <<phase, home, reg, depth, next, sent, open, late>>
  BY ShapeOfLock, LockSteps DEF CancelWait, CancelHold, CancelAround
<1>2. TypeOK'
  BY <1>1 DEF TypeOK, LockShape
<1>3. TaskShape' /\ OneHolder' /\ InsideOnce' /\ DepthOfTurn'
  BY <1>1 DEF TypeOK, TaskShape, OneHolder, InsideOnce, DepthOfTurn, Around
<1>4. Accounted'
  BY <1>1 DEF TypeOK, Accounted
<1> QED
  BY <1>2, <1>3, <1>4

LEMMA PostInv ==
  ASSUME GateInv, NEW t \in Tasks, Post(t)
  PROVE  GateInv'
<1> USE DEF GateInv
<1>1. act[t] = "sending" /\ Posted(t) /\ UNCHANGED <<phase, home, sent, late>>
  BY DEF Post
<1>2. open' \in SUBSET Events
  BY <1>1, Homes DEF Posted, HasEvent, TypeOK
<1>4. CASE HasEvent(t)
  BY <1>1, <1>2, <1>4, Homes, HoldInv DEF Post, HasEvent, TypeOK
<1>5. CASE ~HasEvent(t)
  <2>1. /\ act' = [act EXCEPT ![t] = "idle"]
        /\ UNCHANGED <<reg, pending, depth, line, owner, next>>
    BY <1>5 DEF Post, gateVars
  <2>2. TypeOK'
    BY <1>1, <1>2, <2>1 DEF TypeOK
  <2>3. TaskShape' /\ OneHolder' /\ InsideOnce' /\ DepthOfTurn'
    BY <1>1, <2>1 DEF TypeOK, TaskShape, OneHolder, InsideOnce, DepthOfTurn, Around
  <2>4. Accounted'
    BY <1>1, <2>1 DEF TypeOK, Accounted
  <2> QED
    BY <2>2, <2>3, <2>4
<1> QED
  BY <1>4, <1>5

(* The exit of around_send: the lock that it took was not registered.      *)
LEMMA PostAroundInv ==
  ASSUME GateInv, NEW t \in Tasks, PostAround(t)
  PROVE  GateInv'
<1> DEFINE nests == HasEvent(t) /\ ~Known(EventOf(t))
           left == depth[t] - (IF nests THEN 0 ELSE 1)
<1> USE DEF GateInv
<1>1. /\ act[t] \in {"sendingAround", "sendingInside"}
      /\ reg' = IF nests THEN [reg EXCEPT ![EventOf(t)] = "nested"] ELSE reg
      /\ depth' = [depth EXCEPT ![t] = left]
      /\ act' = [act EXCEPT ![t] = "idle"]
      /\ UNCHANGED <<phase, home, pending, next, sent, late>>
      /\ Posted(t)
  BY DEF PostAround
<1>2. t \notin Children /\ (t \in Events => phase[t] = "after")
  BY <1>1 DEF TaskShape, Around
<1>3. nests => t \in Events /\ EventOf(t) = t /\ reg[t] = "no"
  BY <1>2, Constants DEF HasEvent, Known, Tasks
<1>4. left \in Nat
  BY <1>1 DEF TypeOK, TaskShape
<1> HIDE DEF nests, left
<1>5. reg' = reg \/ (t \in Events /\ reg[t] = "no" /\ reg' = [reg EXCEPT ![t] = "nested"])
  BY <1>1, <1>3
<1>6. open' \in SUBSET Events
  BY <1>1, Homes DEF Posted, HasEvent, TypeOK
<1>7. /\ LockShape'
      /\ act[t] = "sendingAround" => owner[Umo] = t /\ owner'[Umo] = NoTask
      /\ act[t] # "sendingAround" => owner' = owner
  BY ShapeOfLock, LockSteps DEF PostAround, LockShape
<1>8. TypeOK'
  BY <1>1, <1>4, <1>5, <1>6, <1>7 DEF TypeOK, LockShape
<1>9. TaskShape'
  BY <1>1, <1>2 DEF TypeOK, TaskShape, Around
<1>10. OneHolder'
  BY <1>1, <1>5, <1>7, Constants DEF TypeOK, OneHolder
<1>11. DepthOfTurn'
  BY <1>1, <1>2, <1>5 DEF TypeOK, DepthOfTurn
<1>13. InsideOnce'
  BY <1>1, Constants DEF TypeOK, InsideOnce, HasEvent, Tasks, nests, left
<1>12. Accounted'
  <2>1. CASE act[t] = "sendingAround"
    BY <1>1, <1>5, <1>7, <2>1, Constants DEF TypeOK, Accounted, OneHolder
  <2>2. CASE act[t] # "sendingAround"
    BY <1>1, <1>5, <1>7, <2>2, Constants DEF TypeOK, Accounted
  <2> QED
    BY <2>1, <2>2
<1> QED
  BY <1>8, <1>9, <1>10, <1>11, <1>12, <1>13

LEMMA TurnInv ==
  ASSUME GateInv, NEW e \in Events, BeginTurn(e) \/ EndTurn(e)
  PROVE  GateInv'
<1> USE DEF GateInv
<1>1. CASE BeginTurn(e)
  <2>1. TypeOK'
    BY <1>1 DEF BeginTurn, TypeOK, gateVars
  <2>2. TaskShape' /\ OneHolder' /\ InsideOnce'
    BY <1>1 DEF BeginTurn, TypeOK, TaskShape, OneHolder, InsideOnce, gateVars, Around
  <2>3. DepthOfTurn' /\ Accounted'
    BY <1>1 DEF BeginTurn, TypeOK, DepthOfTurn, Accounted, gateVars
  <2> QED
    BY <2>1, <2>2, <2>3
<1>2. CASE EndTurn(e)
  <2>1. /\ phase[e] = "turn" /\ act[e] = "idle"
        /\ phase' = [phase EXCEPT ![e] = "after"]
        /\ reg' = [reg EXCEPT ![e] = "no"]
        /\ open' = open \ {e}
        /\ late' = late \/ late' = late \cup {e}
        /\ UNCHANGED <<home, pending, act, next, sent>>
    BY <1>2 DEF EndTurn, ReleaseTurn
  <2>2. e \in Tasks /\ depth[e] <= 1
    BY <2>1, Constants DEF DepthOfTurn
  <2>3. /\ depth' \in [Tasks -> Nat]
        /\ \A t \in Tasks : t # e => depth'[t] = depth[t]
    <3>1. CASE reg[e] = "no"
      BY <1>2, <3>1 DEF EndTurn, ReleaseTurn, TypeOK
    <3>2. CASE reg[e] # "no"
      <4>1. depth' = [depth EXCEPT ![e] = IF @ > 1 THEN @ - 1 ELSE 0]
        BY <1>2, <3>2 DEF EndTurn, ReleaseTurn
      <4>2. depth[e] \in Nat /\ ~(depth[e] > 1)
        BY <2>2 DEF TypeOK
      <4> QED
        BY <2>2, <4>1, <4>2 DEF TypeOK
    <3> QED
      BY <3>1, <3>2
  <2>4. /\ LockShape'
        /\ reg[e] \in Tasks => owner[Umo] = reg[e] /\ owner'[Umo] = NoTask
        /\ reg[e] \notin Tasks => owner' = owner
    BY <1>2, <2>2, ShapeOfLock, LockSteps DEF EndTurn, ReleaseTurn, LockShape
  <2>5. TypeOK'
    BY <2>1, <2>2, <2>3, <2>4 DEF TypeOK, LockShape
  <2>6. TaskShape'
    BY <2>1, <2>2, <2>3, Constants DEF TypeOK, TaskShape, Around
  <2>7. OneHolder'
    BY <2>1, <2>4, Constants DEF TypeOK, OneHolder
  <2>8. DepthOfTurn'
    BY <2>1, <2>2, <2>3, Constants DEF TypeOK, DepthOfTurn
  <2>10. InsideOnce'
    BY <2>1, <2>3, Constants DEF InsideOnce, Tasks
  <2>9. Accounted'
    <3>1. CASE reg[e] \in Tasks
      BY <2>1, <2>4, <3>1, Constants DEF TypeOK, Accounted, OneHolder
    <3>2. CASE reg[e] \notin Tasks
      BY <2>1, <2>4, <3>2, Constants DEF TypeOK, Accounted
    <3> QED
      BY <3>1, <3>2
  <2> QED
    BY <2>5, <2>6, <2>7, <2>8, <2>9, <2>10
<1> QED
  BY <1>1, <1>2

LEMMA ChildInv ==
  ASSUME GateInv, NEW c \in Children,
         ChildEnds(c) \/ \E e \in Events : ChildBegins(c, e)
  PROVE  GateInv'
<1> USE DEF GateInv
<1>1. /\ home' = [home EXCEPT ![c] = "ended"] \/ \E e \in Events :
           phase[e] = "turn" /\ home' = [home EXCEPT ![c] = e]
      /\ act[c] = "idle"
      /\ UNCHANGED <<phase, reg, pending, depth, act, next, sent, open, late, line, owner>>
  BY Constants DEF ChildEnds, ChildBegins, gateVars, TaskShape, TypeOK, Tasks
<1>2. TypeOK'
  BY <1>1 DEF TypeOK
<1>3. \A d \in Children :
        /\ act[d] # "idle" => home'[d] = home[d]
        /\ home'[d] \in Events => home'[d] = home[d] \/ phase[home'[d]] # "before"
  BY <1>1, Constants DEF TypeOK, Tasks
<1>5. TaskShape'
  BY <1>1, <1>3 DEF TaskShape, Around
<1>4. OneHolder' /\ DepthOfTurn' /\ InsideOnce' /\ Accounted'
  BY <1>1 DEF OneHolder, DepthOfTurn, InsideOnce, Accounted
<1> QED
  BY <1>2, <1>4, <1>5

-----------------------------------------------------------------------------
(* After the turn *)

(* What a step of a task may change.                                       *)
LEMMA LateTask ==
  ASSUME TypeOK, LateShape, NEW t \in Tasks,
         UNCHANGED <<phase, home>>, late \subseteq late',
         \A u \in Tasks : u # t => act'[u] = act[u],
         \A f \in Events : reg'[f] = reg[f] \/ (t \notin Others /\ f = EventOf(t)),
         \A f \in Events : depth'[f] = depth[f] \/ f = t,
         t \notin Others =>
           /\ EventOf(t) \in Events
           /\ phase[EventOf(t)] # "before"
           /\ phase[EventOf(t)] = "after" => EventOf(t) \in late'
  PROVE  LateShape'
<1>1. \A u \in Tasks : EventOf(u)' = EventOf(u)
  BY DEF EventOf
<1>2. \A u \in Tasks \ Others :
        act'[u] # "idle" /\ phase[EventOf(u)] = "after" => EventOf(u) \in late'
  BY DEF LateShape
<1>3. \A f \in Events : reg'[f] # "no" => phase[f] = "turn" \/ f \in late'
  BY DEF LateShape, TypeOK
<1>4. \A f \in Events \ late' : phase[f] = "after" => depth'[f] = 0
  BY Constants DEF LateShape
<1> QED
  BY <1>1, <1>2, <1>3, <1>4 DEF LateShape

LEMMA HoldChanges ==
  ASSUME TypeOK, NEW t \in Tasks, NEW what, HoldTurn(t, what)
  PROVE  /\ \A u \in Tasks : u # t => act'[u] = act[u]
         /\ \A f \in Events : reg'[f] = reg[f] \/ f = EventOf(t)
         /\ \A f \in Events : depth'[f] = depth[f] \/ f = t
BY Constants DEF HoldTurn, HoldKnown, HoldNested, HoldAsks, TypeOK, gateVars

LEMMA SendLate ==
  ASSUME GateInv, LateShape, NEW t \in Tasks, Send(t)
  PROVE  LateShape'
<1> USE DEF GateInv
<1>1. Sending(t) /\ UNCHANGED <<phase, home>>
  BY DEF Send, SendDirect, SendInTurn, SendAround, SendUnseen
<1>2. late \subseteq late'
  BY <1>1 DEF Sending
<1>3. t \notin Others =>
        /\ EventOf(t) \in Events
        /\ phase[EventOf(t)] # "before"
        /\ phase[EventOf(t)] = "after" => EventOf(t) \in late'
  BY <1>1, Homes DEF Sending, HasEvent
<1>4. CASE SendInTurn(t)
  <2>1. t \notin Others
    BY <1>4, Constants, DisjointAssumption DEF SendInTurn, HasTurn
  <2> QED
    BY <1>1, <1>2, <1>3, <1>4, <2>1, HoldChanges, LateTask DEF SendInTurn
<1>5. CASE ~SendInTurn(t)
  <2>1. /\ \A u \in Tasks : u # t => act'[u] = act[u]
        /\ \A f \in Events : depth'[f] = depth[f] \/ f = t
        /\ reg' = reg
    BY <1>5, Constants DEF Send, SendDirect, SendAround, SendUnseen, gateVars, TypeOK
  <2> QED
    BY <1>1, <1>2, <1>3, <2>1, LateTask
<1> QED
  BY <1>4, <1>5

LEMMA ContinueLate ==
  ASSUME GateInv, LateShape, NEW t \in Tasks, Continue(t) \/ CancelWait(t)
  PROVE  LateShape'
<1> USE DEF GateInv
<1>1. act[t] # "idle" /\ UNCHANGED <<phase, home, late>>
  BY DEF Continue, CancelWait, GainHold, GainAround, Post, PostAround, CancelHold, CancelAround
<1>2. t \notin Others =>
        /\ EventOf(t) \in Events
        /\ phase[EventOf(t)] # "before"
        /\ phase[EventOf(t)] = "after" => EventOf(t) \in late'
  BY <1>1, Homes DEF LateShape
<1>3. CASE Post(t) /\ HasEvent(t)
  BY <1>1, <1>2, <1>3, HoldChanges, LateTask DEF Post, HasEvent
<1>4. CASE GainHold(t)
  <2>1. t \notin Others
    BY <1>4 DEF GainHold, TaskShape
  <2>2. /\ \A u \in Tasks : u # t => act'[u] = act[u]
        /\ \A f \in Events : depth'[f] = depth[f] \/ f = t
        /\ \A f \in Events : reg'[f] = reg[f] \/ f = EventOf(t)
    BY <1>4, Constants DEF GainHold, TypeOK
  <2> QED
    BY <1>1, <1>2, <2>1, <2>2, LateTask
<1>5. CASE PostAround(t)
  <2>1. /\ \A u \in Tasks : u # t => act'[u] = act[u]
        /\ \A f \in Events : depth'[f] = depth[f] \/ f = t
    BY <1>5, Constants DEF PostAround, TypeOK
  <2>2. \A f \in Events : reg'[f] = reg[f] \/ (t \notin Others /\ f = EventOf(t))
    BY <1>5 DEF PostAround, HasEvent, TypeOK
  <2> QED
    BY <1>1, <1>2, <2>1, <2>2, LateTask
<1>6. CASE ~GainHold(t) /\ ~PostAround(t) /\ ~(Post(t) /\ HasEvent(t))
  <2>1. /\ \A u \in Tasks : u # t => act'[u] = act[u]
        /\ \A f \in Events : depth'[f] = depth[f] \/ f = t
        /\ reg' = reg
    BY <1>6, Constants
    DEF Continue, CancelWait, GainAround, Post, CancelHold, CancelAround, gateVars, TypeOK
  <2> QED
    BY <1>1, <1>2, <2>1, LateTask
<1> QED
  BY <1>3, <1>4, <1>5, <1>6

LEMMA TurnLate ==
  ASSUME GateInv, LateShape, NEW e \in Events, BeginTurn(e) \/ EndTurn(e)
  PROVE  LateShape'
<1> USE DEF GateInv
<1>1. \A u \in Tasks : EventOf(u)' = EventOf(u)
  BY DEF EventOf, BeginTurn, EndTurn
<1>2. CASE BeginTurn(e)
  <2>1. /\ phase' = [phase EXCEPT ![e] = "turn"]
        /\ UNCHANGED <<reg, depth, act, late>>
    BY <1>2 DEF BeginTurn, gateVars
  <2>2. \A f \in Events : phase'[f] = "after" => phase[f] = "after"
    BY <2>1 DEF TypeOK
  <2>3. \A f \in Events : phase[f] = "turn" => phase'[f] = "turn"
    BY <2>1 DEF TypeOK
  <2>4. \A u \in Tasks \ Others : act[u] # "idle" => EventOf(u) \in Events
    BY Homes
  <2> QED
    BY <1>1, <2>1, <2>2, <2>3, <2>4 DEF LateShape
<1>3. CASE EndTurn(e)
  <2>1. /\ phase[e] = "turn" /\ act[e] = "idle"
        /\ phase' = [phase EXCEPT ![e] = "after"]
        /\ reg' = [reg EXCEPT ![e] = "no"]
        /\ depth' = IF reg[e] = "no" THEN depth
                      ELSE [depth EXCEPT ![e] = IF @ > 1 THEN @ - 1 ELSE 0]
        /\ late' = IF \A u \in Mates(e) : act[u] = "idle" THEN late ELSE late \cup {e}
        /\ act' = act
    BY <1>3 DEF EndTurn, ReleaseTurn
  <2>2. \A u \in Tasks \ Others :
          act[u] # "idle" /\ EventOf(u) = e => e \in late'
    BY <2>1, Constants DEF Mates
  <2>3. \A u \in Tasks \ Others : act[u] # "idle" => EventOf(u) \in Events
    BY Homes
  <2>4. \A f \in Events : f # e => phase'[f] = phase[f] /\ reg'[f] = reg[f] /\ depth'[f] = depth[f]
    BY <2>1, Constants DEF TypeOK
  <2>5. late \subseteq late' /\ reg'[e] = "no"
    BY <2>1 DEF TypeOK
  <2>6. depth'[e] = 0
    <3>1. e \in Tasks /\ (depth[e] = 0 \/ (depth[e] = 1 /\ reg[e] = e)) /\ e # "no"
      BY <2>1, Constants DEF DepthOfTurn
    <3>2. CASE depth[e] = 0
      BY <2>1, <3>1, <3>2 DEF TypeOK
    <3>3. CASE depth[e] = 1 /\ reg[e] = e
      BY <2>1, <3>1, <3>3 DEF TypeOK
    <3> QED
      BY <3>1, <3>2, <3>3
  <2>7. \A u \in Tasks \ Others :
          act'[u] # "idle" /\ phase'[EventOf(u)] = "after" => EventOf(u) \in late'
    BY <2>1, <2>2, <2>3, <2>4, <2>5 DEF LateShape
  <2>8. \A f \in Events : reg'[f] # "no" => phase'[f] = "turn" \/ f \in late'
    BY <2>4, <2>5 DEF LateShape
  <2>9. \A f \in Events \ late' : phase'[f] = "after" => depth'[f] = 0
    BY <2>4, <2>5, <2>6 DEF LateShape
  <2> QED
    BY <1>1, <2>7, <2>8, <2>9 DEF LateShape
<1> QED
  BY <1>2, <1>3

LEMMA ChildLate ==
  ASSUME GateInv, LateShape, NEW c \in Children,
         ChildEnds(c) \/ \E e \in Events : ChildBegins(c, e)
  PROVE  LateShape'
<1> USE DEF GateInv
<1>1. /\ act[c] = "idle"
      /\ \A d \in Children : d # c => home'[d] = home[d]
      /\ UNCHANGED <<phase, reg, depth, act, late>>
  BY Constants DEF ChildEnds, ChildBegins, gateVars, TaskShape, TypeOK, Tasks
<1>2. \A u \in Tasks : u # c => EventOf(u)' = EventOf(u)
  BY <1>1 DEF EventOf
<1> QED
  BY <1>1, <1>2 DEF LateShape

(* Types, the shape of tasks and of registrations, and the accounting of   *)
(* the lock, with children, direct and late sends.                         *)
THEOREM InvariantHolds == Spec => []IInv
<1>1. Init => IInv
  <2>1. Init => LateShape
    BY Constants DEF Init, LateShape, Tasks
  <2> QED
    BY InitInv, <2>1 DEF IInv
<1>2. LateShape /\ UNCHANGED vars => LateShape'
  BY DEF LateShape, vars, EventOf
<1>3. IInv /\ [Next]_vars => IInv'
  <2>1. GateInv /\ [Next]_vars => GateInv'
    BY SendInv, GainInv, CancelInv, PostInv, PostAroundInv, TurnInv, ChildInv, StutterInv
    DEF Next, Continue
  <2>2. GateInv /\ LateShape /\ [Next]_vars => LateShape'
    BY SendLate, ContinueLate, TurnLate, ChildLate, <1>2 DEF Next
  <2> QED
    BY <2>1, <2>2 DEF IInv
<1> QED
  BY <1>1, <1>3, PTL DEF Spec

(* group_sender_concurrency.py: every registered outbound lock is really   *)
(* held, and whoever has the lock is in the middle of one message around   *)
(* the turns or is registered with an event in its turn, or with one that  *)
(* was sent to after its turn; whatever way of sending is used.            *)
THEOREM LockIsAccounted == Spec => []LockAccounted
<1>1. IInv => LockAccounted
  BY Constants DEF IInv, GateInv, TypeOK, Accounted, LateShape, LockAccounted
<1> QED
  BY InvariantHolds, <1>1, PTL

(* GroupOutboundGate: the lock is held "until release_turn", and then the  *)
(* event is not registered any more and its pipeline task has no depth,    *)
(* unless the event is sent to later; whatever way of sending is used,     *)
(* with tasks inside of the turn and of it.                                *)
THEOREM TurnsLeaveNothing == Spec => []TurnLeavesNothing
<1>1. ASSUME IInv, NEW t \in Tasks \ (Children \cup late), depth[t] > 0
      PROVE  owner[Umo] = t
  <2>1. CASE t \in Events
    <3>1. phase[t] = "turn"
      <4>1. phase[t] \in {"before", "turn", "after"} /\ t \in Events \ late /\ depth[t] # 0
        BY <1>1, <2>1 DEF IInv, GateInv, TypeOK
      <4> QED
        BY <1>1, <4>1 DEF IInv, GateInv, DepthOfTurn, LateShape
    <3>2. reg[t] = t
      BY <1>1, <2>1, <3>1 DEF IInv, GateInv, DepthOfTurn
    <3> QED
      BY <1>1, <2>1, <3>2 DEF IInv, GateInv, Accounted
  <2>2. CASE t \in Others
    BY <1>1, <2>2 DEF IInv, GateInv, OneHolder, InsideOnce
  <2> QED
    BY <1>1, <2>1, <2>2 DEF Tasks
<1>2. IInv => \A e \in Events \ late : phase[e] = "after" => reg[e] = "no"
  BY DEF IInv, LateShape
<1>3. IInv => TurnLeavesNothing
  BY <1>1, <1>2 DEF TurnLeavesNothing
<1> QED
  BY <1>3, InvariantHolds, PTL

-----------------------------------------------------------------------------
(* When everybody sends through serialize_group_outbound, the tasks of a   *)
(* turn one after the other; no task outlives the turn it was created in   *)
(* and sends, and none gets the id() of such a task that has ended         *)

Guarded == Sends = {"guarded"} /\ ~LateSends /\ Serial /\ ~Reuse

(* Outside of its turn an event has no part in the gate.                   *)
QuietOutside ==
  /\ late = {}
  /\ \A e \in Events :
       phase[e] # "turn" => e \notin open /\ reg[e] = "no" /\ e \notin pending
  /\ \A c \in Children : home[c] \in Events => phase[home[c]] = "turn"

(* In its turn it is registered with a lock, or not at all, and it is      *)
(* registered when a message goes out.                                     *)
RegisteredFirst ==
  /\ \A e \in Events : reg[e] # "nested"
  /\ \A e \in open : reg[e] # "no"
  /\ \A e \in pending : \E t \in Tasks \ Others : EventOf(t) = e /\ act[t] = "holding"
  /\ \A t \in Tasks \ Others :
       /\ act[t] = "holding" => next[t] = "sending"
       /\ act[t] = "sending" => reg[EventOf(t)] # "no"

(* The tasks of a turn send one after the other.                           *)
OneAtATime ==
  \A t, u \in Tasks \ Others :
    act[t] # "idle" /\ act[u] # "idle" /\ EventOf(t) = EventOf(u) => t = u

(* The depth of a task inside a turn is that of its registration.          *)
DepthOfChild ==
  \A c \in Children :
    /\ home[c] = "unborn" => depth[c] = 0
    /\ home[c] \in Events /\ depth[c] > 0 => reg[home[c]] = c

GuardedInv == QuietOutside /\ RegisteredFirst /\ OneAtATime /\ DepthOfChild

LEMMA GuardedInit == Init => GuardedInv
BY Constants
DEF Init, GuardedInv, QuietOutside, RegisteredFirst, OneAtATime, DepthOfChild, Tasks

LEMMA GuardedStutter == GuardedInv /\ UNCHANGED vars => GuardedInv'
BY DEF GuardedInv, QuietOutside, RegisteredFirst, OneAtATime, DepthOfChild, EventOf, vars

(* Only tasks of turns that are open do something for their event.         *)
LEMMA GuardedTasks ==
  ASSUME IInv, GuardedInv, NEW t \in Tasks \ Others, act[t] # "idle"
  PROVE  /\ EventOf(t) \in Events
         /\ phase[EventOf(t)] = "turn"
         /\ act[t] \in {"holding", "sending"}
<1>1. EventOf(t) \in Events /\ phase[EventOf(t)] = "turn"
  BY Homes DEF IInv, GateInv, TypeOK, LateShape, GuardedInv, QuietOutside
<1>2. act[t] \notin Around
  BY <1>1, Constants DEF IInv, GateInv, TaskShape
<1> QED
  BY <1>1, <1>2 DEF IInv, GateInv, TypeOK, Around

(* Tasks outside of the turns have no part in it.                          *)
LEMMA GuardedOthers ==
  ASSUME GuardedInv, NEW t \in Others,
         UNCHANGED <<phase, home, reg, pending, next, open, late>>,
         \A u \in Tasks : u # t => act'[u] = act[u] /\ depth'[u] = depth[u]
  PROVE  GuardedInv'
<1>1. \A u \in Tasks : EventOf(u)' = EventOf(u)
  BY DEF EventOf
<1>2. \A u \in Tasks \ Others : act'[u] = act[u]
  OBVIOUS
<1>3. \A c \in Children : depth'[c] = depth[c]
  BY DisjointAssumption DEF Tasks
<1> QED
  BY <1>1, <1>2, <1>3
  DEF GuardedInv, QuietOutside, RegisteredFirst, OneAtATime, DepthOfChild

LEMMA GuardedSend ==
  ASSUME Guarded, IInv, GuardedInv, NEW t \in Tasks, Send(t)
  PROVE  GuardedInv'
<1> USE DEF GuardedInv, IInv, GateInv
<1>1. Sending(t) /\ act[t] = "idle" /\ MaySend(t) /\ ~SendDirect(t) /\ UNCHANGED <<phase, home, open>>
  BY DEF Send, SendDirect, SendInTurn, SendAround, SendUnseen, Sending, Guarded
<1>2. CASE SendInTurn(t)
  <2> DEFINE e == EventOf(t)
  <2>1. t \notin Others
    BY <1>2, Constants, DisjointAssumption DEF SendInTurn, HasTurn
  <2>2. e \in Events /\ phase[e] = "turn"
    <3>1. t \in Events \/ t \in Children
      BY <2>1, Constants
    <3> QED
      BY <1>1, <1>2, <3>1, Constants
      DEF SendInTurn, HasTurn, MaySend, EventOf, QuietOutside
  <2>3. \A u \in Tasks \ Others : EventOf(u) = e => act[u] = "idle"
    BY <1>1, <2>1 DEF MaySend, Mates, HasEvent, Guarded
  <2>4. e \notin pending
    BY <2>3 DEF RegisteredFirst
  <2>5. depth[t] > 0 => reg[e] # "no"
    <3>1. CASE t \in Events
      BY <2>2, <3>1, Constants DEF DepthOfTurn
    <3>2. CASE t \in Children
      BY <2>2, <3>2, Constants DEF DepthOfChild, EventOf
    <3> QED
      BY <2>1, <3>1, <3>2, Constants
  <2>6. late' = late /\ \A u \in Tasks : EventOf(u)' = EventOf(u)
    BY <1>1, <2>2 DEF Sending, EventOf
  <2> HIDE DEF e
  <2>7. CASE HoldKnown(t, "sending")
    <3>1. reg[e] # "no"
      BY <2>4, <2>7 DEF HoldKnown, Known, e
    <3>2. /\ act'[t] = "sending"
          /\ \A u \in Tasks : u # t => act'[u] = act[u]
          /\ UNCHANGED <<reg, pending, depth, next>>
      BY <2>7 DEF HoldKnown, gateVars, TypeOK
    <3>3. QuietOutside' /\ DepthOfChild'
      BY <1>1, <2>6, <3>2 DEF QuietOutside, DepthOfChild
    <3>4. RegisteredFirst'
      BY <1>1, <2>6, <3>1, <3>2 DEF RegisteredFirst, e
    <3>5. OneAtATime'
      BY <2>3, <2>6, <3>2 DEF OneAtATime, e
    <3> QED
      BY <3>3, <3>4, <3>5
  <2>8. CASE HoldAsks(t, "sending")
    <3>1. /\ act'[t] = "holding" /\ next'[t] = "sending"
          /\ \A u \in Tasks : u # t => act'[u] = act[u] /\ next'[u] = next[u]
          /\ pending' = pending \cup {e}
          /\ UNCHANGED <<reg, depth>>
      BY <2>8 DEF HoldAsks, TypeOK, e
    <3>2. QuietOutside' /\ DepthOfChild'
      BY <1>1, <2>2, <2>6, <3>1 DEF QuietOutside, DepthOfChild, e
    <3>3. \A f \in pending' : \E u \in Tasks \ Others :
            EventOf(u)' = f /\ act'[u] = "holding"
      BY <1>1, <2>1, <2>6, <3>1 DEF RegisteredFirst, e
    <3>4. RegisteredFirst'
      BY <1>1, <2>6, <3>1, <3>3 DEF RegisteredFirst, e
    <3>5. OneAtATime'
      BY <2>3, <2>6, <3>1 DEF OneAtATime, e
    <3> QED
      BY <3>2, <3>4, <3>5
  <2>9. ~HoldNested(t, "sending")
    BY <2>5 DEF HoldNested, Known, e
  <2> QED
    BY <1>2, <2>7, <2>8, <2>9 DEF SendInTurn, HoldTurn
<1>3. CASE SendAround(t) \/ SendUnseen(t)
  <2>1. t \in Others
    BY <1>1, <1>3 DEF SendAround, SendUnseen, HasTurn, MaySend, Guarded, Tasks
  <2>2. late' = late
    BY <1>1, <2>1 DEF Sending, HasEvent
  <2>3. ~(depth[t] > 0)
    BY <1>1, <2>1 DEF InsideOnce
  <2>4. /\ UNCHANGED <<reg, pending, next, depth>>
        /\ \A u \in Tasks : u # t => act'[u] = act[u]
    BY <1>3, <2>3 DEF SendAround, SendUnseen, gateVars, TypeOK
  <2> QED
    BY <1>1, <2>1, <2>2, <2>4, GuardedOthers
<1> QED
  BY <1>1, <1>2, <1>3 DEF Send

LEMMA GuardedContinue ==
  ASSUME Guarded, IInv, GuardedInv, NEW t \in Tasks, Continue(t) \/ CancelWait(t)
  PROVE  GuardedInv'
<1> DEFINE e == EventOf(t)
<1> USE DEF GuardedInv, IInv, GateInv
<1>1. act[t] # "idle" /\ UNCHANGED <<phase, home, late>>
  BY DEF Continue, CancelWait, GainHold, GainAround, Post, PostAround, CancelHold, CancelAround
<1>2. \A u \in Tasks : EventOf(u)' = EventOf(u)
  BY <1>1 DEF EventOf
<1>3. CASE t \in Others
  <2>1. ~GainHold(t) /\ ~CancelHold(t)
    BY <1>3 DEF GainHold, CancelHold, TaskShape
  <2>2. /\ \A u \in Tasks : u # t => act'[u] = act[u] /\ depth'[u] = depth[u]
        /\ UNCHANGED <<reg, pending, next, open>>
    BY <1>3, <2>1
    DEF Continue, CancelWait, GainAround, Post, PostAround, CancelAround, HasEvent,
        Posted, gateVars, TypeOK
  <2> QED
    BY <1>1, <1>3, <2>2, GuardedOthers
<1>4. CASE t \notin Others
  <2>1. e \in Events /\ phase[e] = "turn" /\ act[t] \in {"holding", "sending"}
    BY <1>1, <1>4, GuardedTasks
  <2>2. \A u \in Tasks \ Others : EventOf(u) = e /\ act[u] # "idle" => u = t
    BY <1>1, <1>4 DEF OneAtATime
  <2>3. CASE GainHold(t)
    <3>1. act[t] = "holding" /\ next[t] = "sending"
      BY <1>4, <2>3 DEF GainHold, RegisteredFirst
    <3>2. owner[Umo] = NoTask
      BY <2>3, ShapeOfLock, LockSteps DEF GainHold
    <3>3. \A f \in Events : reg[f] \notin Tasks
      BY <3>2, Constants DEF Accounted
    <3>4. /\ pending' = pending \ {e}
          /\ reg' = [reg EXCEPT ![e] = t]
          /\ depth' = [depth EXCEPT ![t] = 1]
          /\ act' = [act EXCEPT ![t] = "sending"]
          /\ UNCHANGED <<next, open>>
      BY <2>3, <3>1 DEF GainHold
    <3> HIDE DEF e
    <3>5. /\ act'[t] = "sending" /\ reg'[e] = t
          /\ \A u \in Tasks : u # t => act'[u] = act[u] /\ depth'[u] = depth[u]
          /\ \A f \in Events : f # e => reg'[f] = reg[f]
      BY <2>1, <3>4 DEF TypeOK
    <3>6. QuietOutside'
      BY <1>1, <2>1, <3>4, <3>5 DEF QuietOutside
    <3>7. \A f \in pending' : \E u \in Tasks \ Others :
            EventOf(u)' = f /\ act'[u] = "holding"
      BY <1>2, <3>4, <3>5 DEF RegisteredFirst, e
    <3>8. RegisteredFirst'
      BY <1>2, <2>1, <3>4, <3>5, <3>7, Constants DEF RegisteredFirst, TypeOK, e
    <3>9. OneAtATime'
      BY <1>2, <2>2, <3>5 DEF OneAtATime, e
    <3>10. \A c \in Children : home[c] \in Events /\ depth[c] > 0 => c = t
      BY <3>3 DEF DepthOfChild, Tasks
    <3>11. t \in Children => home[t] = e
      BY DEF EventOf, e
    <3>12. DepthOfChild'
      BY <1>1, <2>1, <3>5, <3>10, <3>11, Constants DEF DepthOfChild, Tasks
    <3> QED
      BY <3>6, <3>8, <3>9, <3>12
  <2>4. CASE Post(t)
    <3>1. act[t] = "sending" /\ reg[e] # "no" /\ HasEvent(t)
      BY <1>4, <2>4 DEF Post, RegisteredFirst, HasEvent
    <3>2. HoldKnown(t, "idle")
      BY <2>4, <3>1 DEF Post, HoldTurn, HoldKnown, HoldNested, HoldAsks, Known
    <3>3. /\ act' = [act EXCEPT ![t] = "idle"] /\ open' = open \cup {e}
          /\ UNCHANGED <<reg, pending, depth, next>>
      BY <2>1, <2>4, <3>1, <3>2 DEF Post, Posted, HoldKnown, gateVars
    <3> HIDE DEF e
    <3>4. act'[t] = "idle" /\ \A u \in Tasks : u # t => act'[u] = act[u]
      BY <3>3 DEF TypeOK
    <3>5. QuietOutside' /\ DepthOfChild'
      BY <1>1, <2>1, <3>3 DEF QuietOutside, DepthOfChild
    <3>6. \A f \in pending' : \E u \in Tasks \ Others :
            EventOf(u)' = f /\ act'[u] = "holding"
      BY <1>2, <3>1, <3>3, <3>4 DEF RegisteredFirst
    <3>7. RegisteredFirst' /\ OneAtATime'
      BY <1>2, <3>1, <3>3, <3>4, <3>6 DEF RegisteredFirst, OneAtATime
    <3> QED
      BY <3>5, <3>7
  <2>5. CASE CancelWait(t)
    <3>1. /\ act' = [act EXCEPT ![t] = "idle"]
          /\ pending' = pending \ {e}
          /\ UNCHANGED <<reg, depth, next, open>>
      BY <2>1, <2>5 DEF CancelWait, CancelHold, CancelAround
    <3> HIDE DEF e
    <3>2. act'[t] = "idle" /\ \A u \in Tasks : u # t => act'[u] = act[u]
      BY <3>1 DEF TypeOK
    <3>3. QuietOutside' /\ DepthOfChild'
      BY <1>1, <3>1 DEF QuietOutside, DepthOfChild
    <3>4. \A f \in pending' : \E u \in Tasks \ Others :
            EventOf(u)' = f /\ act'[u] = "holding"
      BY <1>2, <3>1, <3>2 DEF RegisteredFirst, e
    <3>5. RegisteredFirst' /\ OneAtATime'
      BY <1>2, <3>1, <3>2, <3>4 DEF RegisteredFirst, OneAtATime
    <3> QED
      BY <3>3, <3>5
  <2> QED
    BY <2>1, <2>3, <2>4, <2>5 DEF Continue, GainAround, PostAround
<1> QED
  BY <1>3, <1>4

LEMMA GuardedTurn ==
  ASSUME Guarded, IInv, GuardedInv, NEW e \in Events, BeginTurn(e) \/ EndTurn(e)
  PROVE  GuardedInv'
<1> USE DEF GuardedInv, IInv, GateInv
<1>1. \A u \in Tasks : EventOf(u)' = EventOf(u)
  BY DEF EventOf, BeginTurn, EndTurn
<1>2. CASE BeginTurn(e)
  <2>1. /\ phase' = [phase EXCEPT ![e] = "turn"]
        /\ UNCHANGED <<home, reg, pending, depth, act, next, open, late>>
    BY <1>2 DEF BeginTurn, gateVars
  <2>2. QuietOutside' /\ DepthOfChild'
    BY <2>1 DEF QuietOutside, DepthOfChild, TypeOK
  <2>3. RegisteredFirst' /\ OneAtATime'
    BY <1>1, <2>1 DEF RegisteredFirst, OneAtATime
  <2> QED
    BY <2>2, <2>3
<1>3. CASE EndTurn(e)
  <2>1. /\ act[e] = "idle" /\ \A c \in Children : home[c] # e
        /\ phase' = [phase EXCEPT ![e] = "after"]
        /\ reg' = [reg EXCEPT ![e] = "no"]
        /\ open' = open \ {e}
        /\ \A c \in Children : depth'[c] = depth[c]
        /\ UNCHANGED <<home, pending, act, next>>
    BY <1>3, Constants DEF EndTurn, ReleaseTurn, Guarded, TypeOK, Tasks
  <2>2. \A u \in Tasks \ Others : EventOf(u) = e => u = e
    BY <2>1, Constants DEF EventOf
  <2>3. late' = late
    <3>1. Mates(e) = {}
      BY <2>2, Constants DEF Mates
    <3> QED
      BY <1>3, <3>1 DEF EndTurn
  <2>4. e \notin pending
    BY <2>1, <2>2 DEF RegisteredFirst
  <2>5. QuietOutside'
    BY <2>1, <2>3, <2>4 DEF QuietOutside, TypeOK
  <2>6. DepthOfChild'
    BY <2>1 DEF DepthOfChild, TypeOK
  <2>7. RegisteredFirst'
    BY <1>1, <2>1, <2>2 DEF RegisteredFirst, TypeOK
  <2>8. OneAtATime'
    BY <1>1, <2>1 DEF OneAtATime
  <2> QED
    BY <2>5, <2>6, <2>7, <2>8
<1> QED
  BY <1>2, <1>3

LEMMA GuardedChild ==
  ASSUME Guarded, IInv, GuardedInv, NEW c \in Children,
         ChildEnds(c) \/ \E e \in Events : ChildBegins(c, e)
  PROVE  GuardedInv'
<1> USE DEF GuardedInv, IInv, GateInv
<1>1. /\ act[c] = "idle" /\ c \in Tasks
      /\ \A d \in Children : d # c => home'[d] = home[d]
      /\ UNCHANGED <<phase, reg, pending, depth, act, next, open, late>>
  BY Constants DEF ChildEnds, ChildBegins, gateVars, TaskShape, TypeOK, Tasks
<1>2. \A u \in Tasks : u # c => EventOf(u)' = EventOf(u)
  BY <1>1 DEF EventOf
<1>3. \/ home'[c] = "ended"
      \/ home[c] = "unborn" /\ home'[c] \in Events /\ phase[home'[c]] = "turn"
  BY DEF ChildEnds, ChildBegins, Guarded, TypeOK
<1>4. \A e \in Events : e # "ended" /\ e # "unborn"
  BY Constants
<1>5. QuietOutside'
  BY <1>1, <1>3, <1>4 DEF QuietOutside
<1>6. DepthOfChild'
  BY <1>1, <1>3, <1>4 DEF DepthOfChild
<1>7. \A f \in pending' : \E u \in Tasks \ Others :
        EventOf(u)' = f /\ act'[u] = "holding"
  BY <1>1, <1>2 DEF RegisteredFirst
<1>8. RegisteredFirst' /\ OneAtATime'
  BY <1>1, <1>2, <1>7 DEF RegisteredFirst, OneAtATime
<1> QED
  BY <1>5, <1>6, <1>8

LEMMA GuardedHolds == ASSUME Guarded PROVE Spec => []GuardedInv
<1>1. IInv /\ GuardedInv /\ [Next]_vars => GuardedInv'
  BY GuardedSend, GuardedContinue, GuardedTurn, GuardedChild, GuardedStutter DEF Next
<1> QED
  BY GuardedInit, <1>1, InvariantHolds, PTL DEF Spec

(* docs of group_sender_concurrency.py: with sends through the gate, those *)
(* of a turn one after the other, a whole turn still sends one at a time   *)
(* per group; for any number of turns, of tasks inside of them, as long as *)
(* none outlives its turn and none gets the id() of another, and of tasks  *)
(* outside of them.                                                        *)
THEOREM TurnsSpeakAlone == ASSUME Guarded PROVE Spec => []OneTurnSpeaks
<1>1. ASSUME IInv, GuardedInv, NEW e \in open, NEW f \in open
      PROVE  e = f
  <2>1. e \in Events /\ f \in Events /\ reg[e] \in Tasks /\ reg[f] \in Tasks
    BY <1>1 DEF IInv, GateInv, TypeOK, GuardedInv, RegisteredFirst
  <2>2. reg[e] = reg[f]
    BY <1>1, <2>1 DEF IInv, GateInv, Accounted
  <2> QED
    BY <1>1, <2>1, <2>2 DEF IInv, GateInv, OneHolder
<1>2. IInv /\ GuardedInv => OneTurnSpeaks
  BY <1>1 DEF OneTurnSpeaks
<1> QED
  BY <1>2, GuardedHolds, InvariantHolds, PTL

(* GroupOutboundGate: the lock is held "until release_turn", under the     *)
(* conditions of TurnsSpeakAlone: nobody has it but a turn that is open,   *)
(* or one message around the turns.                                        *)
THEOREM LockHeldInTurns == ASSUME Guarded PROVE Spec => []HeldInTurn
<1>1. IInv /\ GuardedInv => HeldInTurn
  BY Constants
  DEF IInv, GateInv, TypeOK, Accounted, LateShape, GuardedInv, QuietOutside, HeldInTurn
<1> QED
  BY <1>1, GuardedHolds, InvariantHolds, PTL
=============================================================================
