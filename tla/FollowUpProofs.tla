--------------------------- MODULE FollowUpProofs ---------------------------
(***************************************************************************)
(* Proofs about FollowUp, for any messages, senders and faults.            *)
(*                                                                         *)
(* First what the coordinator's operations on one order state do, then an  *)
(* inductive invariant in three parts: the shape of the order states, the  *)
(* life of a ticket, and the places that the captured messages hold.       *)
(***************************************************************************)
EXTENDS FollowUp, WaitQueueProofs, WellFoundedInduction

(* The popped entries are those before the turn, and the turn stands at an *)
(* entry that is not settled, or behind the last one.                      *)
WellFormed(o) ==
  /\ o \in OrderState
  /\ o.turn \in 1 .. Len(o.slots) + 1
  /\ \A i \in 1 .. Len(o.slots) : o.slots[i] = "gone" <=> i < o.turn
  /\ o.turn <= Len(o.slots) => o.slots[o.turn] \notin Settled

-----------------------------------------------------------------------------
(* Lemmas about one order state *)

LEMMA LeastElement ==
  ASSUME NEW T, T \subseteq Nat, T # {}
  PROVE  \E x \in T : \A y \in T : x <= y
<1> DEFINE R == OpToRel(<, Nat)
<1>1. IsWellFoundedOn(R, Nat)
  BY NatLessThanWellFounded
<1> HIDE DEF R
<1>2. PICK x \in T : \A y \in T : <<y, x>> \notin R
  BY <1>1, WFMin
<1>3. \A y \in T : ~ (y < x)
  BY <1>2 DEF R, OpToRel
<1> QED
  BY <1>3

LEMMA FunctionIsSequence ==
  ASSUME NEW S, NEW n \in Nat, NEW f \in [1 .. n -> S]
  PROVE  f \in Seq(S) /\ Len(f) = n
BY SeqDef, LenProperties

(* The loop of _advance_turn_locked stops, and where it stops is unique.   *)
LEMMA NextOpenExists ==
  ASSUME NEW o \in OrderState, o.turn <= Len(o.slots) + 1
  PROVE  IsNextOpen(o, NextOpen(o))
<1>1. Len(o.slots) \in Nat /\ o.turn \in Nat /\ DOMAIN o.slots = 1 .. Len(o.slots)
  BY LenProperties DEF OrderState
<1> DEFINE T == {n \in o.turn .. Len(o.slots) + 1 :
                   n \in DOMAIN o.slots => o.slots[n] \notin Settled}
<1>2. Len(o.slots) + 1 \in T /\ T \subseteq Nat
  BY <1>1
<1>3. PICK n \in T : \A i \in T : n <= i
  BY <1>2, LeastElement
<1>4. ASSUME NEW i \in o.turn .. n - 1 PROVE o.slots[i] \in Settled
  <2>1. i \notin T /\ i \in o.turn .. Len(o.slots) + 1
    BY <1>1, <1>3
  <2> QED
    BY <2>1
<1>5. n \in o.turn .. Len(o.slots) + 1 /\ IsNextOpen(o, n)
  BY <1>3, <1>4 DEF IsNextOpen
<1> QED
  BY <1>5 DEF NextOpen

(* _allocate_order adds one open place at the end.                         *)
LEMMA AllocatedOrder ==
  ASSUME NEW o, o = NoOrder \/ WellFormed(o)
  PROVE  LET p == Allocated(o)
             seq == Len(p.slots)
         IN /\ WellFormed(p)
            /\ seq \in Nat
            /\ Open(p) = Open(o) \cup {seq}
            /\ seq \notin Open(o)
            /\ \A i \in Open(o) : o.turn = i => p.turn = i
            /\ seq = IF o = NoOrder THEN 1 ELSE Len(o.slots) + 1
<1>1. CASE o = NoOrder
  <2>1. Allocated(o) = [slots |-> <<"pending">>, turn |-> 1]
    BY <1>1 DEF Allocated
  <2>2. <<"pending">> \in Seq(SlotStatus) /\ Len(<<"pending">>) = 1
    BY DEF SlotStatus
  <2>3. WellFormed([slots |-> <<"pending">>, turn |-> 1])
    BY <2>2 DEF WellFormed, OrderState, Settled
  <2>4. Open([slots |-> <<"pending">>, turn |-> 1]) = {1}
    BY <2>2, <2>3, NoOrderAssumption DEF Open, WellFormed
  <2> QED
    BY <1>1, <2>1, <2>2, <2>3, <2>4 DEF Open
<1>2. CASE o # NoOrder
  <2> DEFINE s == Append(o.slots, "pending")
             p == [o EXCEPT !.slots = s]
  <2>1. o \in OrderState /\ WellFormed(o) /\ o.slots \in Seq(SlotStatus) /\ o.turn \in Nat
    BY <1>2 DEF WellFormed, OrderState
  <2>2. /\ s \in Seq(SlotStatus)
        /\ Len(s) = Len(o.slots) + 1
        /\ \A i \in 1 .. Len(o.slots) : s[i] = o.slots[i]
        /\ s[Len(o.slots) + 1] = "pending"
        /\ Len(o.slots) \in Nat
    BY <2>1, AppendProperties, LenProperties DEF SlotStatus
  <2> HIDE DEF s
  <2>3. Allocated(o) = p /\ p.slots = s /\ p.turn = o.turn /\ p \in OrderState
    BY <1>2, <2>1, <2>2 DEF Allocated, OrderState, s
  <2> HIDE DEF p
  <2>4. WellFormed(p)
    <3>1. o.turn \in 1 .. Len(s) /\ o.turn \in 1 .. Len(s) + 1
      BY <2>1, <2>2 DEF WellFormed
    <3>2. ASSUME NEW i \in 1 .. Len(s)
          PROVE  /\ s[i] = "gone" <=> i < o.turn
                 /\ s[i] \in Settled => i # o.turn
      <4>1. CASE i = Len(o.slots) + 1
        BY <2>2, <3>1, <4>1 DEF Settled
      <4>2. CASE i # Len(o.slots) + 1
        <5>1. i \in 1 .. Len(o.slots)
          BY <2>2, <4>2
        <5> QED
          BY <2>1, <2>2, <5>1 DEF WellFormed
      <4> QED
        BY <4>1, <4>2
    <3> QED
      BY <2>3, <3>1, <3>2 DEF WellFormed
  <2>5. Open(p) = Open(o) \cup {Len(s)} /\ Len(s) \notin Open(o)
    BY <1>2, <2>2, <2>3, NoOrderAssumption DEF Open
  <2> QED
    BY <1>2, <2>2, <2>3, <2>4, <2>5
<1> QED
  BY <1>1, <1>2

(* The activation of a place opens and closes none.                        *)
LEMMA ActiveOrder ==
  ASSUME NEW o, WellFormed(o), o # NoOrder, NEW seq \in Nat
  PROVE  LET p == SetSlot(o, seq, "active")
         IN /\ WellFormed(p)
            /\ p.turn = o.turn
            /\ Len(p.slots) = Len(o.slots)
            /\ seq \in Open(o) => Open(p) = Open(o)
            /\ Idle(p) <=> Idle(o)
<1>1. /\ o \in OrderState /\ o.slots \in Seq(SlotStatus) /\ o.turn \in Nat
      /\ Len(o.slots) \in Nat /\ DOMAIN o.slots = 1 .. Len(o.slots)
  BY LenProperties DEF WellFormed, OrderState
<1>2. CASE seq \in DOMAIN o.slots /\ o.slots[seq] # "gone"
  <2> DEFINE s == [o.slots EXCEPT ![seq] = "active"]
             p == SetSlot(o, seq, "active")
  <2>1. /\ s \in Seq(SlotStatus) /\ Len(s) = Len(o.slots)
        /\ \A i \in 1 .. Len(s) : s[i] = IF i = seq THEN "active" ELSE o.slots[i]
    BY <1>1, <1>2, ExceptSeq DEF SlotStatus
  <2>2. p = [o EXCEPT !.slots = s]
    BY <1>1, <1>2 DEF SetSlot, OrderState
  <2>3. p \in OrderState /\ p.slots = s /\ p.turn = o.turn /\ p # NoOrder
    BY <1>1, <2>1, <2>2, NoOrderAssumption DEF OrderState
  <2>4. DOMAIN s = 1 .. Len(s)
    BY <2>1, LenProperties
  <2> HIDE DEF s, p
  <2>5. WellFormed(p)
    BY <1>1, <1>2, <2>1, <2>3 DEF WellFormed, Settled
  <2>6. seq \in Open(o) => Open(p) = Open(o)
    BY <1>1, <1>2, <2>1, <2>3 DEF Open
  <2>7. Idle(p) <=> Idle(o)
    BY <1>1, <1>2, <2>1, <2>3, <2>4 DEF Idle
  <2> QED
    BY <2>1, <2>3, <2>5, <2>6, <2>7 DEF p
<1>3. CASE ~(seq \in DOMAIN o.slots /\ o.slots[seq] # "gone")
  BY <1>3 DEF SetSlot
<1> QED
  BY <1>2, <1>3

(* To settle a place closes that place and no other, and leaves the turn   *)
(* where it is unless the place had it.                                    *)
LEMMA SettledOrder ==
  ASSUME NEW o, WellFormed(o), o # NoOrder, NEW seq \in Nat, NEW status \in Settled
  PROVE  LET p == Advance(SetSlot(o, seq, status))
         IN /\ WellFormed(p)
            /\ Len(p.slots) = Len(o.slots)
            /\ Open(p) = Open(o) \ {seq}
            /\ \A i \in Open(p) : o.turn = i => p.turn = i
<1>1. /\ o \in OrderState /\ o.slots \in Seq(SlotStatus) /\ o.turn \in Nat
      /\ Len(o.slots) \in Nat /\ DOMAIN o.slots = 1 .. Len(o.slots)
  BY LenProperties DEF WellFormed, OrderState
<1> DEFINE q == SetSlot(o, seq, status)
           len == Len(o.slots)
(* The status is set.                                                      *)
<1>2. /\ q \in OrderState /\ q.turn = o.turn /\ Len(q.slots) = len
      /\ q.slots \in Seq(SlotStatus)
      /\ \A i \in 1 .. len : q.slots[i] = IF i = seq /\ o.slots[i] # "gone"
                                          THEN status ELSE o.slots[i]
  <2>1. CASE seq \in DOMAIN o.slots /\ o.slots[seq] # "gone"
    <3> DEFINE s == [o.slots EXCEPT ![seq] = status]
    <3>1. /\ s \in Seq(SlotStatus) /\ Len(s) = len
          /\ \A i \in 1 .. len : s[i] = IF i = seq THEN status ELSE o.slots[i]
      BY <1>1, <2>1, ExceptSeq DEF SlotStatus, Settled
    <3>2. q = [o EXCEPT !.slots = s]
      BY <1>1, <2>1 DEF SetSlot, OrderState
    <3> HIDE DEF s
    <3>3. q \in OrderState /\ q.slots = s /\ q.turn = o.turn
      BY <1>1, <3>1, <3>2 DEF OrderState
    <3> QED
      BY <2>1, <3>1, <3>3
  <2>2. CASE ~(seq \in DOMAIN o.slots /\ o.slots[seq] # "gone")
    BY <1>1, <2>2 DEF SetSlot
  <2> QED
    BY <2>1, <2>2
<1> HIDE DEF q
(* The settled entries are popped from the turn on.                        *)
<1> DEFINE n == NextOpen(q)
           s == [i \in DOMAIN q.slots |->
                   IF i \in q.turn .. n - 1 THEN "gone" ELSE q.slots[i]]
<1>3. /\ n \in o.turn .. len + 1
      /\ \A i \in o.turn .. n - 1 : q.slots[i] \in Settled
      /\ n \in 1 .. len => q.slots[n] \notin Settled
      /\ DOMAIN q.slots = 1 .. len
  <2>1. q.turn <= Len(q.slots) + 1
    BY <1>1, <1>2 DEF WellFormed
  <2> QED
    BY <1>2, <2>1, NextOpenExists, LenProperties DEF IsNextOpen
<1>4. Advance(q) = [slots |-> s, turn |-> n]
  BY DEF Advance
<1> HIDE DEF n
<1>5. /\ s \in Seq(SlotStatus) /\ Len(s) = len /\ DOMAIN s = 1 .. len
      /\ \A i \in 1 .. len : s[i] = IF i \in o.turn .. n - 1 THEN "gone" ELSE q.slots[i]
  <2>1. s \in [1 .. len -> SlotStatus]
    BY <1>1, <1>2, <1>3, ElementOfSeq DEF SlotStatus
  <2> QED
    BY <1>1, <1>2, <1>3, <2>1, FunctionIsSequence
<1> HIDE DEF s
<1>6. /\ Advance(q) \in OrderState
      /\ Advance(q).slots = s
      /\ Advance(q).turn = n
      /\ Advance(q) # NoOrder
  BY <1>1, <1>3, <1>4, <1>5, NoOrderAssumption DEF OrderState
<1>7. WellFormed(Advance(q))
  <2>1. ASSUME NEW i \in 1 .. len PROVE s[i] = "gone" <=> i < n
    <3>1. i \in Nat /\ n \in Nat /\ o.turn \in Nat /\ o.turn <= n /\ (o.slots[i] = "gone" <=> i < o.turn)
      BY <1>1, <1>3 DEF WellFormed
    <3>2. status # "gone"
      BY DEF Settled
    <3>3. CASE i < o.turn
      BY <1>1, <1>2, <1>5, <3>1, <3>3
    <3>4. CASE i \in o.turn .. n - 1
      BY <1>1, <1>5, <3>1, <3>4
    <3>5. CASE i >= n
      BY <1>1, <1>2, <1>5, <3>1, <3>2, <3>5
    <3>6. i < o.turn \/ i \in o.turn .. n - 1 \/ i >= n
      BY <3>1
    <3> QED
      BY <3>3, <3>4, <3>5, <3>6
  <2>2. n \in 1 .. len + 1
    BY <1>1, <1>3 DEF WellFormed
  <2>3. n <= len => s[n] \notin Settled
    BY <1>1, <1>3, <1>5, <2>2
  <2> QED
    BY <1>5, <1>6, <2>1, <2>2, <2>3 DEF WellFormed
<1>8. ASSUME NEW i \in 1 .. len
      PROVE  s[i] \in {"pending", "active"}
               <=> i # seq /\ o.slots[i] \in {"pending", "active"}
  BY <1>1, <1>2, <1>3, <1>5 DEF WellFormed, Settled
<1>9. Open(Advance(q)) = Open(o) \ {seq}
  BY <1>5, <1>6, <1>8 DEF Open
<1>10. ASSUME NEW i \in Open(Advance(q)), o.turn = i
       PROVE  n = i
  <2>1. i \in 1 .. len /\ s[i] \in {"pending", "active"}
    BY <1>5, <1>6, <1>10 DEF Open
  <2> QED
    BY <1>1, <1>3, <1>5, <1>10, <2>1
<1> QED
  BY <1>5, <1>6, <1>7, <1>9, <1>10 DEF q

(* An order state is released only when no place is open.                  *)
LEMMA ReleasedOrder ==
  ASSUME NEW o, WellFormed(o), NEW r
  PROVE  /\ Released(o, r) \in {o, NoOrder}
         /\ Open(Released(o, r)) = Open(o)
         /\ Open(o) # {} => Released(o, r) = o
         /\ Released(o, r) # NoOrder /\ Idle(Released(o, r)) => r # NoMsg
<1>1. Idle(o) => Open(o) = {}
  BY LenProperties DEF Idle, Open, WellFormed, OrderState
<1> QED
  BY <1>1 DEF Released, Open

-----------------------------------------------------------------------------
(* The inductive invariant *)

OrdersOK == \A k \in Keys : order[k] = NoOrder \/ WellFormed(order[k])

(* A message that has not arrived has left no trace.                       *)
NewUntouched ==
  \A m \in Msgs : pc[m] = "new" =>
    /\ capture[m] = NoCapture /\ outcome[m] = "none" /\ monitor[m] = "none"
    /\ m \notin queued \cup resolved \cup consumed \cup pendingTickets

(* What has a monitor, waits or has been decided on was captured.          *)
CapturedFirst ==
  \A m \in Msgs :
    /\ pc[m] \in {"awaitTicket", "awaitTurn"} => outcome[m] = "none"
    /\ \/ pc[m] \in {"awaitTicket", "awaitTurn"}
       \/ outcome[m] # "none"
       \/ monitor[m] # "none"
       => capture[m] # NoCapture

(* The run is through with a message whose task no longer waits for the    *)
(* ticket, unless the task gave up.                                        *)
TicketDecided ==
  \A m \in Msgs :
    /\ \/ pc[m] = "awaitTurn"
       \/ outcome[m] = "activated"
       \/ monitor[m] = "waiting" /\ pc[m] # "awaitTicket"
       => m \notin queued /\ m \notin consumed
    /\ terminated = "no" /\ m \in queued => m \notin resolved
    /\ monitor[m] = "cancelled" /\ pc[m] = "awaitTicket" => m \in resolved

(* While the coordinator lives, a captured message that is not settled     *)
(* holds an open place of its own, and the one that is served the turn.    *)
PlacesHeld ==
  terminated = "no" =>
    /\ \A m \in Msgs :
         Unsettled(m) => capture[m].seq \in Open(order[capture[m].key])
    /\ \A m, n \in Msgs :
         Unsettled(m) /\ Unsettled(n) /\ capture[m].key = capture[n].key
           /\ capture[m].seq = capture[n].seq => m = n
    /\ \A m \in Msgs :
         Serving(m) => order[capture[m].key].turn = capture[m].seq

IInv ==
  /\ TypeOK
  /\ OrdersOK
  /\ NewUntouched
  /\ CapturedFirst
  /\ TicketDecided
  /\ AnsweredOnce
  /\ WaitersKnown
  /\ PlacesHeld
  /\ IdleStateReleased

-----------------------------------------------------------------------------
(* What the operations do to the order states *)

PlaceOf(m) == <<capture[m].key, capture[m].seq>>

(* A step closes the open places in `gone' and no others, adds none, takes *)
(* the turn from no open place, and keeps no idle state without a runner.  *)
OrdersStep(gone) ==
  /\ order' \in [Keys -> OrderState \cup {NoOrder}]
  /\ OrdersOK'
  /\ \A k \in Keys :
       Open(order'[k]) = {i \in Open(order[k]) : <<k, i>> \notin gone}
  /\ \A k \in Keys : \A i \in Open(order'[k]) :
       order[k].turn = i => order'[k].turn = i
  /\ \A k \in Keys : order'[k] # NoOrder =>
       order[k] # NoOrder /\ Len(order'[k].slots) = Len(order[k].slots)
  /\ IdleStateReleased'

LEMMA NothingSettled ==
  ASSUME IInv, UNCHANGED order, \A k \in Keys : activeRunner[k] # NoMsg => activeRunner'[k] # NoMsg
  PROVE  OrdersStep({})
BY DEF IInv, TypeOK, OrdersOK, OrdersStep, IdleStateReleased

LEMMA SettleSettles ==
  ASSUME IInv, NEW k \in Keys, NEW seq \in Nat, NEW status \in Settled,
         Settle(k, seq, status), UNCHANGED activeRunner
  PROVE  OrdersStep({<<k, seq>>})
<1>1. order \in [Keys -> OrderState \cup {NoOrder}]
  BY DEF IInv, TypeOK
<1>2. CASE order[k] = NoOrder
  <2>1. order' = order /\ Open(order[k]) = {}
    BY <1>2 DEF Settle, Open
  <2> QED
    BY <1>1, <2>1 DEF IInv, OrdersOK, OrdersStep, IdleStateReleased
<1>3. CASE order[k] # NoOrder
  <2> PICK o \in OrderState : o = order[k]
    BY <1>1, <1>3
  <2> DEFINE p == Advance(SetSlot(o, seq, status))
             q == Released(p, activeRunner[k])
  <2>1. WellFormed(o)
    BY <1>3 DEF IInv, OrdersOK
  <2>2. /\ WellFormed(p)
        /\ Len(p.slots) = Len(o.slots)
        /\ Open(p) = Open(o) \ {seq}
        /\ \A i \in Open(p) : o.turn = i => p.turn = i
    BY <1>3, <2>1, SettledOrder
  <2> HIDE DEF p
  <2>3. /\ q \in {p, NoOrder}
        /\ Open(q) = Open(p)
        /\ Open(p) # {} => q = p
        /\ q # NoOrder /\ Idle(q) => activeRunner[k] # NoMsg
    BY <2>2, ReleasedOrder
  <2>4. order' = [order EXCEPT ![k] = q]
    BY <1>3 DEF Settle, p
  <2> HIDE DEF q
  <2>5. q \in OrderState \cup {NoOrder} /\ (q = NoOrder \/ WellFormed(q))
    BY <2>2, <2>3 DEF WellFormed
  <2>6. \A j \in Keys : order'[j] = IF j = k THEN q ELSE order[j]
    BY <1>1, <2>4
  <2>7. order' \in [Keys -> OrderState \cup {NoOrder}] /\ OrdersOK'
    BY <1>1, <2>4, <2>5, <2>6 DEF IInv, OrdersOK
  <2>8. ASSUME NEW j \in Keys
        PROVE  Open(order'[j]) = {i \in Open(order[j]) : <<j, i>> \notin {<<k, seq>>}}
    <3>1. CASE j = k
      BY <2>2, <2>3, <2>6, <3>1
    <3>2. CASE j # k
      BY <2>6, <3>2
    <3> QED
      BY <3>1, <3>2
  <2>9. \A j \in Keys : \A i \in Open(order'[j]) : order[j].turn = i => order'[j].turn = i
    BY <2>2, <2>3, <2>6
  <2>10. IdleStateReleased'
    BY <2>3, <2>6 DEF IInv, IdleStateReleased
  <2>11. \A j \in Keys : order'[j] # NoOrder =>
           order[j] # NoOrder /\ Len(order'[j].slots) = Len(order[j].slots)
    BY <1>3, <2>2, <2>3, <2>6
  <2> QED
    BY <2>7, <2>8, <2>9, <2>10, <2>11 DEF OrdersStep
<1> QED
  BY <1>2, <1>3

LEMMA MarkConsumedSettles ==
  ASSUME IInv, NEW k \in Keys, NEW seq \in Nat, MarkConsumed(k, seq),
         UNCHANGED activeRunner
  PROVE  OrdersStep({<<k, seq>>})
BY SettleSettles DEF MarkConsumed, Settled

(* finalize_capture settles the place of a capture that is not settled.    *)
LEMMA SettleCaptureSettles ==
  ASSUME IInv, NEW m \in Msgs, pc[m] # "done", SettleCapture(m), UNCHANGED activeRunner
  PROVE  OrdersStep(IF Unsettled(m) THEN {PlaceOf(m)} ELSE {})
<1>1. CASE capture[m] = NoCapture \/ outcome[m] = "marked"
  <2>1. UNCHANGED order /\ ~Unsettled(m)
    BY <1>1 DEF SettleCapture, Unsettled
  <2> QED
    BY <2>1, NothingSettled
<1>2. CASE capture[m] # NoCapture /\ outcome[m] # "marked"
  <2>1. capture[m].key \in Keys /\ capture[m].seq \in Nat
    BY <1>2 DEF IInv, TypeOK, Capture
  <2>2. outcome[m] \in {"none", "activated"}
    BY <1>2 DEF IInv, TypeOK
  <2>3. \/ Settle(capture[m].key, capture[m].seq, "finished")
        \/ MarkConsumed(capture[m].key, capture[m].seq)
    BY <1>2, <2>2 DEF SettleCapture
  <2>4. OrdersStep({PlaceOf(m)})
    BY <2>1, <2>3, SettleSettles, MarkConsumedSettles DEF PlaceOf, Settled
  <2> QED
    BY <1>2, <2>4 DEF Unsettled
<1> QED
  BY <1>1, <1>2

(* unregister_active_runner releases an idle state and changes no other.   *)
LEMMA UnregisteredSettlesNothing ==
  ASSUME IInv, NEW m \in Msgs, Unregistered(m)
  PROVE  OrdersStep({}) /\ activeRunner' \in [Keys -> Msgs \cup {NoMsg}]
<1> PICK k \in Keys : k = RunKey(m)
  BY SenderOfAssumption DEF RunKey, Keys
<1>1. /\ order \in [Keys -> OrderState \cup {NoOrder}]
      /\ activeRunner \in [Keys -> Msgs \cup {NoMsg}]
  BY DEF IInv, TypeOK
<1>2. /\ activeRunner' \in [Keys -> Msgs \cup {NoMsg}]
      /\ \A j \in Keys \ {k} : activeRunner'[j] = activeRunner[j]
      /\ order' = [order EXCEPT ![k] = Released(@, activeRunner'[k])]
  BY <1>1 DEF Unregistered
<1>3. CASE order[k] = NoOrder
  <2>1. order' = order
    BY <1>1, <1>2, <1>3 DEF Released
  <2> QED
    BY <1>1, <1>2, <1>3, <2>1 DEF IInv, OrdersOK, OrdersStep, IdleStateReleased
<1>4. CASE order[k] # NoOrder
  <2> DEFINE q == Released(order[k], activeRunner'[k])
  <2>1. WellFormed(order[k])
    BY <1>4 DEF IInv, OrdersOK
  <2>2. /\ q \in {order[k], NoOrder}
        /\ Open(q) = Open(order[k])
        /\ Open(order[k]) # {} => q = order[k]
        /\ q # NoOrder /\ Idle(q) => activeRunner'[k] # NoMsg
    BY <2>1, ReleasedOrder
  <2>3. order' = [order EXCEPT ![k] = q]
    BY <1>2
  <2> HIDE DEF q
  <2>4. order' \in [Keys -> OrderState \cup {NoOrder}]
        /\ \A j \in Keys : order'[j] = IF j = k THEN q ELSE order[j]
    BY <1>1, <2>2, <2>3
  <2>5. OrdersOK'
    BY <2>1, <2>2, <2>4 DEF IInv, OrdersOK
  <2>6. \A j \in Keys : /\ Open(order'[j]) = Open(order[j])
                        /\ Open(order[j]) # {} => order'[j] = order[j]
    BY <2>2, <2>4
  <2>7. IdleStateReleased'
    BY <1>2, <2>2, <2>4 DEF IInv, IdleStateReleased
  <2>8. \A j \in Keys : order'[j] # NoOrder => order'[j] = order[j]
    BY <2>2, <2>4
  <2> QED
    BY <1>2, <2>4, <2>5, <2>6, <2>7, <2>8 DEF OrdersStep
<1> QED
  BY <1>3, <1>4

-----------------------------------------------------------------------------
(* The life of a ticket *)

LifeInv ==
  /\ NewUntouched
  /\ CapturedFirst
  /\ TicketDecided
  /\ AnsweredOnce
  /\ WaitersKnown

LEMMA LifeKept == IInv /\ Next => LifeInv'
<1> SUFFICES ASSUME IInv, Next PROVE LifeInv'
  OBVIOUS
<1>1. /\ TypeOK /\ NewUntouched /\ CapturedFirst /\ TicketDecided
      /\ AnsweredOnce /\ WaitersKnown
  BY DEF IInv
<1>2. CASE BeginTerminate
  BY <1>1, <1>2
     DEF BeginTerminate, runnerVars, lockVars, LifeInv, TypeOK, NewUntouched,
         CapturedFirst, TicketDecided, AnsweredOnce, WaitersKnown
<1>3. CASE EndTerminate
  BY <1>1, <1>3
     DEF EndTerminate, ticketVars, runnerVars, lockVars, LifeInv, TypeOK,
         NewUntouched, CapturedFirst, TicketDecided, AnsweredOnce, WaitersKnown
<1>4. ASSUME NEW m \in Msgs, Arrive(m) PROVE LifeInv'
  <2>1. CASE ArriveCaptured(m)
    <3>1. capture'[m] # NoCapture
      <4>1. Capturable(m) /\ CaptureKey(m) \in Keys
        BY <2>1, SenderOfAssumption DEF ArriveCaptured, CaptureKey, Keys
      <4>2. activeRunner[CaptureKey(m)] \in Msgs
        BY <1>1, <4>1 DEF Capturable, TypeOK
      <4>3. Len(Allocated(order[CaptureKey(m)]).slots) \in Nat
        BY <4>1, AllocatedOrder DEF IInv, OrdersOK
      <4> QED
        BY <1>1, <2>1, <4>1, <4>2, <4>3, NoCaptureAssumption
           DEF ArriveCaptured, Capture, TypeOK
    <3>2. \A n \in Msgs \ {m} : capture'[n] = capture[n]
      BY <1>1, <2>1 DEF ArriveCaptured, TypeOK
    <3> QED
      BY <1>1, <2>1, <3>1, <3>2
         DEF ArriveCaptured, runnerVars, lockVars, LifeInv, TypeOK, NewUntouched,
             CapturedFirst, TicketDecided, AnsweredOnce, WaitersKnown
  <2>2. CASE ArriveAlone(m)
    BY <1>1, <2>2
       DEF ArriveAlone, coordinatorVars, ticketVars, runnerVars, lockVars,
           LifeInv, TypeOK, NewUntouched, CapturedFirst, TicketDecided,
           AnsweredOnce, WaitersKnown
  <2> QED
    BY <1>4, <2>1, <2>2 DEF Arrive
<1>5. ASSUME NEW m \in Msgs, Prepare(m) PROVE LifeInv'
  <2> USE <1>1 DEF ticketVars, runnerVars, lockVars, LifeInv, TypeOK,
          NewUntouched, CapturedFirst, TicketDecided, AnsweredOnce, WaitersKnown
  <2>1. CASE PrepareTerminated(m)
    BY <2>1 DEF PrepareTerminated, BeginFinalize, MonitorOpen
  <2>2. CASE PrepareConsumed(m)
    BY <2>2 DEF PrepareConsumed, BeginFinalize, MonitorOpen
  <2>3. CASE PrepareActivate(m)
    <3>1. \/ /\ outcome' = [outcome EXCEPT ![m] = "activated"]
             /\ pc' = [pc EXCEPT ![m] = "entering"]
          \/ outcome' = outcome /\ pc' = [pc EXCEPT ![m] = "awaitTurn"]
      BY <2>3 DEF PrepareActivate
    <3>2. CASE outcome' = [outcome EXCEPT ![m] = "activated"]
               /\ pc' = [pc EXCEPT ![m] = "entering"]
      BY <2>3, <3>2 DEF PrepareActivate
    <3>3. CASE outcome' = outcome /\ pc' = [pc EXCEPT ![m] = "awaitTurn"]
      BY <2>3, <3>3 DEF PrepareActivate
    <3> QED
      BY <3>1, <3>2, <3>3
  <2>4. CASE TakeTurn(m)
    BY <2>4 DEF TakeTurn, coordinatorVars
  <2>5. CASE TurnTerminated(m)
    BY <2>5 DEF TurnTerminated, BeginFinalize, MonitorOpen
  <2> QED
    BY <1>5, <2>1, <2>2, <2>3, <2>4, <2>5 DEF Prepare
<1>6. ASSUME NEW m \in Msgs, Monitor(m) PROVE LifeInv'
  <2> USE <1>1 DEF ticketVars, runnerVars, lockVars, LifeInv, TypeOK,
          NewUntouched, CapturedFirst, TicketDecided, AnsweredOnce, WaitersKnown
  <2>1. CASE MonitorWake(m)
    BY <2>1 DEF MonitorWake
  <2>2. CASE MonitorCancelled(m)
    BY <2>2 DEF MonitorCancelled
  <2> QED
    BY <1>6, <2>1, <2>2 DEF Monitor
<1>7. ASSUME NEW m \in Msgs, Proceed(m) PROVE LifeInv'
  <2> USE <1>1 DEF coordinatorVars, ticketVars, runnerVars, lockVars, LifeInv,
          TypeOK, NewUntouched, CapturedFirst, TicketDecided, AnsweredOnce,
          WaitersKnown
  <2>1. CASE RequestLock(m)
    BY <2>1 DEF RequestLock
  <2>2. CASE HookStops(m)
    BY <2>2 DEF HookStops
  <2>3. CASE StartRun(m)
    BY <2>3 DEF StartRun
  <2>4. CASE StartFails(m)
    BY <2>4 DEF StartFails
  <2>5. CASE EndRun(m)
    BY <2>5 DEF EndRun
  <2>6. CASE Leave(m)
    BY <2>6 DEF Leave, Finalize, BeginFinalize, MonitorOpen
  <2>7. CASE EndFinalize(m)
    BY <2>7 DEF EndFinalize
  <2> QED
    BY <1>7, <2>1, <2>2, <2>3, <2>4, <2>5, <2>6, <2>7 DEF Proceed
<1>8. ASSUME NEW r \in Msgs, Run(r) \/ RequestStop(r) PROVE LifeInv'
  <2> USE <1>1 DEF coordinatorVars, runnerVars, lockVars, LifeInv, TypeOK,
          NewUntouched, CapturedFirst, TicketDecided, AnsweredOnce, WaitersKnown
  <2>1. Waiting(r) \subseteq queued
    BY DEF Waiting
  <2>2. CASE ToolResult(r)
    BY <2>1, <2>2 DEF ToolResult
  <2>3. CASE Complete(r) \/ RunBreaks(r) \/ RequestStop(r)
    BY <2>3 DEF Complete, RunBreaks, RequestStop, ticketVars
  <2>4. CASE ResolveRest(r) \/ ErrorAnswer(r)
    BY <2>1, <2>4 DEF ResolveRest, ErrorAnswer
  <2> QED
    BY <1>8, <2>2, <2>3, <2>4 DEF Run
<1>9. ASSUME NEW m \in Msgs, Cancel(m) PROVE LifeInv'
  <2> USE <1>1 DEF coordinatorVars, ticketVars, runnerVars, lockVars, LifeInv,
          TypeOK, NewUntouched, CapturedFirst, TicketDecided, AnsweredOnce,
          WaitersKnown
  <2>1. CASE CancelCaptured(m)
    BY <2>1 DEF CancelCaptured, Finalize, BeginFinalize, MonitorOpen
  <2>2. CASE CancelEntering(m)
    BY <2>2 DEF CancelEntering
  <2>3. CASE CancelRun(m)
    BY <2>3 DEF CancelRun
  <2>4. CASE CancelLeaving(m)
    BY <2>4 DEF CancelLeaving
  <2> QED
    BY <1>9, <2>1, <2>2, <2>3, <2>4 DEF Cancel
<1> QED
  BY <1>2, <1>3, <1>4, <1>5, <1>6, <1>7, <1>8, <1>9 DEF Next, Terminate

-----------------------------------------------------------------------------
(* Which places a step settles *)

(* The messages that stop holding a place with this step.                  *)
Settling == {m \in Msgs : Unsettled(m) /\ ~Unsettled(m)'}

(* Every step but an arrival and the end of a termination settles the      *)
(* places of the messages that stop holding one, and no others.            *)
LEMMA StepSettles ==
  ASSUME IInv, Next, UNCHANGED capture, ~EndTerminate
  PROVE  \E gone \in SUBSET {PlaceOf(m) : m \in Settling} : OrdersStep(gone)
<1>1. TypeOK /\ CapturedFirst /\ TicketDecided
  BY DEF IInv
<1>2. ASSUME UNCHANGED <<order, activeRunner>>
      PROVE  \E gone \in SUBSET {PlaceOf(m) : m \in Settling} : OrdersStep(gone)
  BY <1>2, NothingSettled
<1>3. CASE BeginTerminate
  BY <1>2, <1>3 DEF BeginTerminate
<1>4. ASSUME NEW m \in Msgs, Arrive(m)
      PROVE  UNCHANGED <<order, activeRunner>>
  <2>1. CASE ArriveCaptured(m)
    <3>1. capture[m] = NoCapture
      BY <2>1 DEF ArriveCaptured, IInv, NewUntouched
    <3>2. capture'[m] \in Capture
      <4>1. Capturable(m) /\ CaptureKey(m) \in Keys
        BY <2>1, SenderOfAssumption DEF ArriveCaptured, CaptureKey, Keys
      <4>2. activeRunner[CaptureKey(m)] \in Msgs
        BY <1>1, <4>1 DEF Capturable, TypeOK
      <4>3. Len(Allocated(order[CaptureKey(m)]).slots) \in Nat
        BY <4>1, AllocatedOrder DEF IInv, OrdersOK
      <4> QED
        BY <1>1, <2>1, <4>1, <4>2, <4>3 DEF ArriveCaptured, Capture, TypeOK
    <3> QED
      BY <3>1, <3>2, NoCaptureAssumption
  <2>2. CASE ArriveAlone(m)
    BY <2>2 DEF ArriveAlone, coordinatorVars
  <2> QED
    BY <1>4, <2>1, <2>2 DEF Arrive
<1>5. ASSUME NEW m \in Msgs, pc[m] # "done", pc'[m] = "done", SettleCapture(m),
             UNCHANGED activeRunner
      PROVE  \E gone \in SUBSET {PlaceOf(n) : n \in Settling} : OrdersStep(gone)
  <2>1. OrdersStep(IF Unsettled(m) THEN {PlaceOf(m)} ELSE {})
    BY <1>5, SettleCaptureSettles
  <2>2. Unsettled(m) => m \in Settling
    BY <1>5 DEF Settling, Unsettled
  <2> QED
    BY <2>1, <2>2
<1>6. ASSUME NEW m \in Msgs, Finalize(m), pc[m] # "done", UNCHANGED activeRunner
      PROVE  \E gone \in SUBSET {PlaceOf(n) : n \in Settling} : OrdersStep(gone)
  <2>1. CASE MonitorOpen(m)
    BY <1>2, <1>6, <2>1 DEF Finalize
  <2>2. CASE ~MonitorOpen(m)
    <3>1. pc'[m] = "done"
      BY <1>1, <1>6, <2>2 DEF Finalize, BeginFinalize, TypeOK
    <3> QED
      BY <1>5, <1>6, <2>2, <3>1 DEF Finalize
  <2> QED
    BY <2>1, <2>2
<1>7. ASSUME NEW m \in Msgs, Prepare(m)
      PROVE  \E gone \in SUBSET {PlaceOf(n) : n \in Settling} : OrdersStep(gone)
  <2>1. CASE PrepareTerminated(m) \/ TakeTurn(m) \/ TurnTerminated(m)
    BY <1>2, <2>1 DEF PrepareTerminated, TakeTurn, TurnTerminated, coordinatorVars
  <2>2. CASE PrepareConsumed(m)
    <3>1. capture[m] \in Capture /\ outcome[m] = "none" /\ outcome'[m] = "marked"
      BY <1>1, <2>2 DEF PrepareConsumed, CapturedFirst, TypeOK
    <3>2. OrdersStep({PlaceOf(m)})
      BY <2>2, <3>1, MarkConsumedSettles DEF PrepareConsumed, PlaceOf, Capture
    <3>3. m \in Settling
      BY <2>2, <3>1, NoCaptureAssumption DEF PrepareConsumed, Settling, Unsettled
    <3> QED
      BY <3>2, <3>3
  <2>3. CASE PrepareActivate(m)
    <3> PICK k \in Keys, seq \in Nat : k = capture[m].key /\ seq = capture[m].seq
      BY <1>1, <2>3 DEF PrepareActivate, CapturedFirst, TypeOK, Capture
    <3>1. seq \in Open(order[k])
      BY <1>1, <2>3 DEF PrepareActivate, CapturedFirst, Unsettled, IInv, PlacesHeld
    <3>2. order[k] # NoOrder /\ WellFormed(order[k])
      BY <3>1 DEF Open, IInv, OrdersOK
    <3> DEFINE p == SetSlot(order[k], seq, "active")
    <3>3. /\ WellFormed(p)
          /\ p.turn = order[k].turn
          /\ Len(p.slots) = Len(order[k].slots)
          /\ Open(p) = Open(order[k])
          /\ Idle(p) <=> Idle(order[k])
      BY <3>1, <3>2, ActiveOrder
    <3>4. order' = [order EXCEPT ![k] = p] /\ UNCHANGED activeRunner
      BY <2>3, <3>2 DEF PrepareActivate
    <3> HIDE DEF p
    <3>5. /\ order' \in [Keys -> OrderState \cup {NoOrder}]
          /\ \A j \in Keys : order'[j] = IF j = k THEN p ELSE order[j]
      BY <1>1, <3>3, <3>4 DEF TypeOK, WellFormed
    <3>6. OrdersOK' /\ IdleStateReleased'
      BY <3>2, <3>3, <3>4, <3>5 DEF IInv, OrdersOK, IdleStateReleased
    <3>7. OrdersStep({})
      BY <3>2, <3>3, <3>5, <3>6 DEF OrdersStep
    <3> QED
      BY <3>7
  <2> QED
    BY <1>7, <2>1, <2>2, <2>3 DEF Prepare
<1>8. ASSUME NEW m \in Msgs, Monitor(m)
      PROVE  UNCHANGED <<order, activeRunner>>
  BY <1>1, <1>8 DEF Monitor, MonitorWake, MonitorCancelled, TicketDecided
<1>9. ASSUME NEW m \in Msgs, Proceed(m)
      PROVE  \E gone \in SUBSET {PlaceOf(n) : n \in Settling} : OrdersStep(gone)
  <2>1. CASE RequestLock(m) \/ HookStops(m) \/ StartFails(m)
    BY <1>2, <2>1 DEF RequestLock, HookStops, StartFails, coordinatorVars
  <2>2. CASE StartRun(m)
    <3>1. UNCHANGED order /\ \A k \in Keys : activeRunner[k] # NoMsg => activeRunner'[k] # NoMsg
      BY <1>1, <2>2, NoMsgAssumption DEF StartRun, TypeOK
    <3> QED
      BY <3>1, NothingSettled
  <2>3. CASE EndRun(m)
    BY <2>3, UnregisteredSettlesNothing DEF EndRun
  <2>4. CASE Leave(m)
    BY <1>6, <2>4 DEF Leave
  <2>5. CASE EndFinalize(m)
    BY <1>1, <1>5, <2>5 DEF EndFinalize, TypeOK
  <2> QED
    BY <1>9, <2>1, <2>2, <2>3, <2>4, <2>5 DEF Proceed
<1>10. ASSUME NEW r \in Msgs, Run(r) \/ RequestStop(r)
       PROVE  UNCHANGED <<order, activeRunner>>
  BY <1>10 DEF Run, ToolResult, Complete, ResolveRest, ErrorAnswer, RunBreaks,
               RequestStop, coordinatorVars
<1>11. ASSUME NEW m \in Msgs, Cancel(m)
       PROVE  \E gone \in SUBSET {PlaceOf(n) : n \in Settling} : OrdersStep(gone)
  <2>1. CASE CancelCaptured(m)
    BY <1>6, <2>1 DEF CancelCaptured
  <2>2. CASE CancelEntering(m) \/ CancelLeaving(m)
    BY <1>2, <2>2 DEF CancelEntering, CancelLeaving, coordinatorVars
  <2>3. CASE CancelRun(m)
    BY <2>3, UnregisteredSettlesNothing DEF CancelRun
  <2> QED
    BY <1>11, <2>1, <2>2, <2>3 DEF Cancel
<1> QED
  BY <1>2, <1>3, <1>4, <1>7, <1>8, <1>9, <1>10, <1>11 DEF Next, Terminate

(* An arrival that is captured opens one place, at the end of an order.    *)
LEMMA ArrivalOpens ==
  ASSUME IInv, NEW m \in Msgs, ArriveCaptured(m)
  PROVE  /\ order' \in [Keys -> OrderState \cup {NoOrder}]
         /\ OrdersOK'
         /\ IdleStateReleased'
         /\ capture' \in [Msgs -> Capture \cup {NoCapture}]
         /\ capture'[m] \in Capture
         /\ \A n \in Msgs \ {m} : capture'[n] = capture[n]
         /\ \E k \in Keys, seq \in Nat :
              /\ capture'[m].key = k /\ capture'[m].seq = seq
              /\ seq \notin Open(order[k])
              /\ \A j \in Keys : Open(order'[j]) = Open(order[j]) \cup
                                                   (IF j = k THEN {seq} ELSE {})
         /\ \A k \in Keys : \A i \in Open(order[k]) :
              order[k].turn = i => order'[k].turn = i
         /\ capture'[m].seq = SlotCount(capture'[m].key) + 1
         /\ \A k \in Keys : SlotCount(k)' = IF k = capture'[m].key
                                              THEN capture'[m].seq
                                              ELSE SlotCount(k)
<1>1. TypeOK
  BY DEF IInv
<1> PICK k \in Keys : k = CaptureKey(m)
  BY SenderOfAssumption DEF CaptureKey, Keys
<1> PICK o \in OrderState \cup {NoOrder} : o = order[k]
  BY <1>1 DEF TypeOK
<1> DEFINE p == Allocated(o)
           seq == Len(p.slots)
<1>2. /\ WellFormed(p)
      /\ seq \in Nat
      /\ Open(p) = Open(o) \cup {seq}
      /\ seq \notin Open(o)
      /\ \A i \in Open(o) : o.turn = i => p.turn = i
      /\ seq = SlotCount(k) + 1
  BY AllocatedOrder DEF IInv, OrdersOK, SlotCount
<1>3. activeRunner[k] \in Msgs
  BY <1>1 DEF ArriveCaptured, Capturable, TypeOK
<1> DEFINE c == [key |-> k, seq |-> seq, target |-> activeRunner[k]]
<1>4. c \in Capture /\ c.key = k /\ c.seq = seq
  BY <1>2, <1>3 DEF Capture
<1>5. capture' = [capture EXCEPT ![m] = c] /\ order' = [order EXCEPT ![k] = p]
  BY DEF ArriveCaptured
<1>6. UNCHANGED activeRunner
  BY DEF ArriveCaptured
<1>12. seq = Len(p.slots)
  OBVIOUS
<1> HIDE DEF p, c, seq
<1>7. /\ capture' \in [Msgs -> Capture \cup {NoCapture}]
      /\ capture'[m] = c
      /\ \A n \in Msgs \ {m} : capture'[n] = capture[n]
  BY <1>1, <1>4, <1>5 DEF TypeOK
<1>8. /\ order' \in [Keys -> OrderState \cup {NoOrder}]
      /\ \A j \in Keys : order'[j] = IF j = k THEN p ELSE order[j]
  BY <1>1, <1>2, <1>5 DEF TypeOK, WellFormed
<1>9. OrdersOK'
  BY <1>2, <1>8 DEF IInv, OrdersOK
<1>10. IdleStateReleased'
  BY <1>3, <1>6, <1>8, NoMsgAssumption DEF IInv, IdleStateReleased
<1>11. /\ \A j \in Keys : Open(order'[j]) = Open(order[j]) \cup
                                          (IF j = k THEN {seq} ELSE {})
       /\ \A j \in Keys : \A i \in Open(order[j]) :
            order[j].turn = i => order'[j].turn = i
  BY <1>2, <1>8
<1>13. \A j \in Keys : SlotCount(j)' = IF j = k THEN seq ELSE SlotCount(j)
  BY <1>2, <1>8, <1>12, NoOrderAssumption DEF SlotCount, WellFormed
<1> QED
  BY <1>2, <1>4, <1>7, <1>8, <1>9, <1>10, <1>11, <1>13

(* A coordinator that was terminated stays it.                             *)
LEMMA NextKeepsTerminated ==
  ASSUME Next, ~Terminate
  PROVE  UNCHANGED terminated
<1>1. ASSUME NEW m \in Msgs, Arrive(m) \/ Prepare(m) \/ Monitor(m)
      PROVE  UNCHANGED terminated
  BY <1>1 DEF Arrive, ArriveCaptured, ArriveAlone, Prepare, PrepareTerminated,
       PrepareConsumed, PrepareActivate, TakeTurn, TurnTerminated, Monitor,
       MonitorWake, MonitorCancelled, coordinatorVars
<1>2. ASSUME NEW m \in Msgs, Proceed(m) \/ Cancel(m)
      PROVE  UNCHANGED terminated
  BY <1>2 DEF Proceed, RequestLock, HookStops, StartRun, StartFails, EndRun,
       Leave, EndFinalize, Cancel, CancelCaptured, CancelEntering, CancelRun,
       CancelLeaving, coordinatorVars
<1>3. ASSUME NEW m \in Msgs, Run(m) \/ RequestStop(m)
      PROVE  UNCHANGED terminated
  BY <1>3 DEF Run, ToolResult, Complete, ResolveRest, ErrorAnswer, RunBreaks,
       RequestStop, coordinatorVars
<1> QED
  BY <1>1, <1>2, <1>3 DEF Next

LEMMA NextTerminates ==
  ASSUME Next, terminated' = "no"
  PROVE  terminated = "no" /\ ~EndTerminate /\ ~BeginTerminate
<1>1. ~EndTerminate /\ ~BeginTerminate
  BY DEF EndTerminate, BeginTerminate
<1> QED
  BY <1>1, NextKeepsTerminated DEF Terminate

(* Only an arrival changes a capture.                                      *)
LEMMA NextCaptures ==
  Next => EndTerminate \/ UNCHANGED capture \/ \E m \in Msgs : ArriveCaptured(m)
<1>1. ASSUME NEW m \in Msgs, ArriveAlone(m) \/ Prepare(m) \/ Monitor(m)
      PROVE  UNCHANGED capture
  BY <1>1 DEF ArriveAlone, Prepare, PrepareTerminated, PrepareConsumed,
     PrepareActivate, TakeTurn, TurnTerminated, Monitor, MonitorWake,
     MonitorCancelled
<1>2. ASSUME NEW m \in Msgs, Proceed(m) \/ Cancel(m)
      PROVE  UNCHANGED capture
  BY <1>2 DEF Proceed, RequestLock, HookStops, StartRun, StartFails, EndRun,
     Leave, EndFinalize, Cancel, CancelCaptured, CancelEntering, CancelRun,
     CancelLeaving
<1>3. ASSUME NEW m \in Msgs, Run(m) \/ RequestStop(m)
      PROVE  UNCHANGED capture
  BY <1>3 DEF Run, ToolResult, Complete, ResolveRest, ErrorAnswer, RunBreaks,
     RequestStop
<1> QED
  BY <1>1, <1>2, <1>3 DEF Next, Terminate, BeginTerminate, Arrive

(* The holders of places: a step that settles the places of those who stop *)
(* holding one leaves the others theirs, and the turn with the one served. *)
LEMMA PlacesKept == IInv /\ Next => PlacesHeld'
<1> SUFFICES ASSUME IInv, Next, terminated' = "no" PROVE PlacesHeld'
  BY DEF PlacesHeld
<1>1. TypeOK /\ CapturedFirst /\ NewUntouched /\ PlacesHeld
  BY DEF IInv
<1>2. terminated = "no" /\ ~EndTerminate /\ ~BeginTerminate
  BY NextTerminates
<1>3. /\ \A m \in Msgs : Unsettled(m) =>
           /\ capture[m] \in Capture
           /\ capture[m].key \in Keys
           /\ capture[m].seq \in Nat
           /\ capture[m].seq \in Open(order[capture[m].key])
      /\ \A m, n \in Msgs :
           Unsettled(m) /\ Unsettled(n) /\ capture[m].key = capture[n].key
             /\ capture[m].seq = capture[n].seq => m = n
      /\ \A m \in Msgs :
           Serving(m) => Unsettled(m) /\ order[capture[m].key].turn = capture[m].seq
  <2>1. \A m \in Msgs : Unsettled(m) => capture[m] \in Capture
    BY <1>1 DEF Unsettled, TypeOK
  <2>2. \A m \in Msgs : Serving(m) => Unsettled(m)
    BY <1>1 DEF Unsettled, Serving, CapturedFirst
  <2> QED
    BY <1>1, <1>2, <2>1, <2>2 DEF PlacesHeld, Capture
<1>4. ASSUME NEW m \in Msgs, ArriveCaptured(m) PROVE PlacesHeld'
  <2> PICK k \in Keys, seq \in Nat :
        /\ capture'[m].key = k /\ capture'[m].seq = seq
        /\ seq \notin Open(order[k])
        /\ \A j \in Keys : Open(order'[j]) = Open(order[j]) \cup
                                             (IF j = k THEN {seq} ELSE {})
    BY <1>4, ArrivalOpens
  <2>1. /\ \A n \in Msgs \ {m} : capture'[n] = capture[n]
        /\ \A j \in Keys : \A i \in Open(order[j]) :
             order[j].turn = i => order'[j].turn = i
    BY <1>4, ArrivalOpens
  <2>2. \A n \in Msgs \ {m} :
          (Unsettled(n)' <=> Unsettled(n)) /\ (Serving(n)' <=> Serving(n))
    BY <1>1, <1>4, <2>1 DEF ArriveCaptured, Unsettled, Serving, TypeOK
  <2>3. ~Serving(m)'
    BY <1>1, <1>4 DEF ArriveCaptured, NewUntouched, Serving
  <2>4. ASSUME NEW n \in Msgs, Unsettled(n)'
        PROVE  capture'[n].seq \in Open(order'[capture'[n].key])
    <3>1. CASE n = m
      BY <3>1
    <3>2. CASE n # m
      <4>1. Unsettled(n) /\ capture'[n] = capture[n]
        BY <2>1, <2>2, <2>4, <3>2 DEF Unsettled
      <4> QED
        BY <1>3, <4>1
    <3> QED
      BY <3>1, <3>2
  <2>5. ASSUME NEW n \in Msgs, NEW r \in Msgs, Unsettled(n)', Unsettled(r)',
               capture'[n].key = capture'[r].key, capture'[n].seq = capture'[r].seq
        PROVE  n = r
    <3>1. CASE n # m /\ r # m
      <4>1. /\ Unsettled(n) /\ capture'[n] = capture[n]
            /\ Unsettled(r) /\ capture'[r] = capture[r]
        BY <2>1, <2>2, <2>5, <3>1 DEF Unsettled
      <4> QED
        BY <1>3, <2>5, <4>1
    <3>2. ASSUME NEW u \in Msgs \ {m}, Unsettled(u)',
                 capture'[u].key = k, capture'[u].seq = seq
          PROVE  FALSE
      <4>1. Unsettled(u) /\ capture'[u] = capture[u]
        BY <2>1, <2>2, <3>2 DEF Unsettled
      <4> QED
        BY <1>3, <3>2, <4>1
    <3> QED
      BY <2>5, <3>1, <3>2
  <2>6. ASSUME NEW n \in Msgs, Serving(n)'
        PROVE  order'[capture'[n].key].turn = capture'[n].seq
    <3>1. n # m /\ Serving(n) /\ capture'[n] = capture[n]
      BY <2>1, <2>2, <2>3, <2>6 DEF Serving
    <3> QED
      BY <1>3, <2>1, <3>1
  <2> QED
    BY <2>4, <2>5, <2>6 DEF PlacesHeld
<1>5. ASSUME UNCHANGED capture,
             \A m \in Msgs : Unsettled(m)' => Unsettled(m),
             \A m \in Msgs : Serving(m)' => Unsettled(m) /\ Unsettled(m)'
                /\ order[capture[m].key].turn = capture[m].seq
      PROVE  PlacesHeld'
  <2> PICK gone \in SUBSET {PlaceOf(m) : m \in Settling} : OrdersStep(gone)
    BY <1>2, <1>5, StepSettles
  <2>1. ASSUME NEW n \in Msgs, Unsettled(n), Unsettled(n)'
        PROVE  capture[n].seq \in Open(order'[capture[n].key])
    <3>1. ASSUME PlaceOf(n) \in gone PROVE FALSE
      <4>1. PICK m \in Settling : PlaceOf(m) = PlaceOf(n)
        BY <3>1
      <4>2. m \in Msgs /\ Unsettled(m) /\ ~Unsettled(m)'
        BY DEF Settling
      <4>3. m = n
        BY <1>3, <2>1, <4>1, <4>2 DEF PlaceOf
      <4> QED
        BY <2>1, <4>2, <4>3
    <3> QED
      BY <1>3, <2>1, <3>1 DEF OrdersStep, PlaceOf
  <2>2. ASSUME NEW n \in Msgs, Serving(n)'
        PROVE  order'[capture[n].key].turn = capture[n].seq
    BY <1>3, <1>5, <2>1, <2>2 DEF OrdersStep
  <2> QED
    BY <1>3, <1>5, <2>1, <2>2 DEF PlacesHeld
(* A step that hands nobody the turn and revives nobody.                   *)
<1>6. ASSUME UNCHANGED capture,
             \A m \in Msgs : pc[m] = "done" => pc'[m] = "done",
             \A m \in Msgs : outcome[m] = "marked" => outcome'[m] = "marked",
             \A m \in Msgs : outcome'[m] = "activated" => outcome[m] = "activated"
      PROVE  PlacesHeld'
  <2>1. \A m \in Msgs : Unsettled(m)' => Unsettled(m)
    BY <1>6 DEF Unsettled
  <2>2. ASSUME NEW m \in Msgs, Serving(m)'
        PROVE  Unsettled(m) /\ Unsettled(m)' /\ order[capture[m].key].turn = capture[m].seq
    <3>1. Serving(m) /\ outcome'[m] = "activated" /\ pc'[m] # "done"
      BY <1>6, <2>2 DEF Serving
    <3>2. Unsettled(m) /\ order[capture[m].key].turn = capture[m].seq
      BY <1>3, <3>1
    <3> QED
      BY <1>6, <3>1, <3>2 DEF Unsettled
  <2> QED
    BY <1>5, <1>6, <2>1, <2>2
<1>7. ASSUME NEW m \in Msgs, Arrive(m) PROVE PlacesHeld'
  BY <1>4, <1>6, <1>7, <1>1
     DEF Arrive, ArriveAlone, coordinatorVars, ticketVars, TypeOK
<1>8. ASSUME NEW m \in Msgs, Prepare(m) PROVE PlacesHeld'
  <2>1. CASE PrepareTerminated(m) \/ PrepareConsumed(m) \/ TurnTerminated(m)
    BY <1>1, <1>6, <2>1
       DEF PrepareTerminated, PrepareConsumed, TurnTerminated, BeginFinalize, TypeOK
  <2>2. ASSUME UNCHANGED capture, pc[m] # "done", pc'[m] # "done",
               Unsettled(m), order[capture[m].key].turn = capture[m].seq,
               \A n \in Msgs \ {m} : pc'[n] = pc[n] /\ outcome'[n] = outcome[n],
               outcome'[m] # "marked"
        PROVE  PlacesHeld'
    <3>1. \A n \in Msgs : Unsettled(n)' => Unsettled(n)
      BY <2>2 DEF Unsettled
    <3>2. ASSUME NEW n \in Msgs, Serving(n)'
          PROVE  Unsettled(n) /\ Unsettled(n)' /\ order[capture[n].key].turn = capture[n].seq
      <4>1. CASE n = m
        BY <2>2, <4>1 DEF Unsettled
      <4>2. CASE n # m
        <5>1. Serving(n) /\ outcome'[n] = "activated" /\ pc'[n] # "done"
          BY <2>2, <3>2, <4>2 DEF Serving
        <5>2. Unsettled(n) /\ order[capture[n].key].turn = capture[n].seq
          BY <1>3, <5>1
        <5> QED
          BY <2>2, <5>1, <5>2 DEF Unsettled
      <4> QED
        BY <4>1, <4>2
    <3> QED
      BY <1>5, <2>2, <3>1, <3>2
  <2>3. CASE PrepareActivate(m)
    <3> DEFINE k == capture[m].key
               atOnce == order[k] = NoOrder \/ order[k].turn = capture[m].seq
    <3>1. Unsettled(m)
      BY <1>1, <2>3 DEF PrepareActivate, Unsettled, CapturedFirst
    <3>2. order[k] # NoOrder
      BY <1>3, <3>1 DEF Open
    <3>3. CASE atOnce
      <4>1. outcome' = [outcome EXCEPT ![m] = "activated"] /\ pc' = [pc EXCEPT ![m] = "entering"]
        BY <2>3, <3>3 DEF PrepareActivate
      <4>2. UNCHANGED capture /\ pc[m] # "done"
        BY <2>3 DEF PrepareActivate
      <4> QED
        BY <1>1, <2>2, <3>1, <3>2, <3>3, <4>1, <4>2 DEF TypeOK
    <3>4. CASE ~atOnce
      <4>1. outcome' = outcome /\ pc' = [pc EXCEPT ![m] = "awaitTurn"]
        BY <2>3, <3>4 DEF PrepareActivate
      <4>2. UNCHANGED capture /\ pc[m] # "done"
        BY <2>3 DEF PrepareActivate
      <4> QED
        BY <1>1, <1>6, <4>1, <4>2 DEF TypeOK
    <3> QED
      BY <3>3, <3>4
  <2>4. CASE TakeTurn(m)
    <3>1. Unsettled(m)
      BY <1>1, <2>4 DEF TakeTurn, Unsettled, CapturedFirst
    <3>2. /\ UNCHANGED capture /\ pc[m] # "done"
          /\ outcome' = [outcome EXCEPT ![m] = "activated"]
          /\ pc' = [pc EXCEPT ![m] = "entering"]
          /\ order[capture[m].key].turn = capture[m].seq
      BY <2>4 DEF TakeTurn, TurnCame
    <3> QED
      BY <1>1, <2>2, <3>1, <3>2 DEF TypeOK
  <2> QED
    BY <1>8, <2>1, <2>3, <2>4 DEF Prepare
<1>9. ASSUME NEW m \in Msgs, Monitor(m) PROVE PlacesHeld'
  BY <1>6, <1>9 DEF Monitor, MonitorWake, MonitorCancelled
<1>10. ASSUME NEW m \in Msgs, Proceed(m) PROVE PlacesHeld'
  BY <1>1, <1>6, <1>10
     DEF Proceed, RequestLock, HookStops, StartRun, StartFails, EndRun, Leave,
         Finalize, BeginFinalize, EndFinalize, TypeOK
<1>11. ASSUME NEW r \in Msgs, Run(r) \/ RequestStop(r) PROVE PlacesHeld'
  BY <1>6, <1>11 DEF Run, ToolResult, Complete, ResolveRest, ErrorAnswer,
                     RunBreaks, RequestStop
<1>12. ASSUME NEW m \in Msgs, Cancel(m) PROVE PlacesHeld'
  BY <1>1, <1>6, <1>12
     DEF Cancel, CancelCaptured, CancelEntering, CancelRun, CancelLeaving,
         Finalize, BeginFinalize, TypeOK
<1> QED
  BY <1>2, <1>7, <1>8, <1>9, <1>10, <1>11, <1>12 DEF Next, Terminate

-----------------------------------------------------------------------------
(* Types and order states *)

LEMMA RunKeyType == \A m \in Msgs : RunKey(m) \in Keys
BY SenderOfAssumption DEF RunKey, Keys

(* The session locks hold messages only.                                   *)
LockTypes == line \in [Keys -> Seq(Msgs)] /\ owner \in [Keys -> Msgs \cup {NoMsg}]

LEMMA LockTypesKept ==
  ASSUME LockTypes, NEW m \in Msgs, NEW k \in Keys,
         \/ Mutex!Enqueue(m, k)
         \/ Mutex!Handover(m, k)
         \/ Mutex!Quit(m, k)
         \/ Mutex!Release(m, k)
  PROVE  LockTypes'
<1>1. line[k] \in Seq(Msgs) /\ DOMAIN line[k] = 1 .. Len(line[k])
  BY LenProperties DEF LockTypes
<1>2. CASE Mutex!Enqueue(m, k)
  <2>1. Append(line[k], m) \in Seq(Msgs)
    BY <1>1, AppendProperties
  <2> QED
    BY <1>2, <2>1 DEF Mutex!Enqueue, LockTypes
<1>3. CASE Mutex!Handover(m, k)
  <2>1. Tail(line[k]) \in Seq(Msgs)
    BY <1>1, <1>3, HeadTailProperties DEF Mutex!Handover
  <2> QED
    BY <1>3, <2>1 DEF Mutex!Handover, LockTypes
<1>4. CASE Mutex!Quit(m, k)
  <2>1. Mutex!Without(line[k], m) = Without(line[k], m)
    BY DEF Mutex!Without, Without, Mutex!Place, Place
  <2>2. \E i \in 1 .. Len(line[k]) : line[k][i] = m
    BY <1>1, <1>4 DEF Mutex!Quit, Mutex!InLine
  <2>3. Without(line[k], m) \in Seq(Msgs)
    BY <1>1, <2>2, WithoutElements
  <2> QED
    BY <1>4, <2>1, <2>3 DEF Mutex!Quit, LockTypes
<1>5. CASE Mutex!Release(m, k)
  BY <1>5 DEF Mutex!Release, LockTypes
<1> QED
  BY <1>2, <1>3, <1>4, <1>5

LEMMA OrdersKept ==
  IInv /\ Next => /\ order' \in [Keys -> OrderState \cup {NoOrder}]
                  /\ OrdersOK' /\ IdleStateReleased'
                  /\ capture' \in [Msgs -> Capture \cup {NoCapture}]
<1> SUFFICES ASSUME IInv, Next
             PROVE  /\ order' \in [Keys -> OrderState \cup {NoOrder}]
                    /\ OrdersOK' /\ IdleStateReleased'
                    /\ capture' \in [Msgs -> Capture \cup {NoCapture}]
  OBVIOUS
<1>1. capture \in [Msgs -> Capture \cup {NoCapture}]
  BY DEF IInv, TypeOK
<1>2. CASE EndTerminate
  BY <1>1, <1>2 DEF EndTerminate, OrdersOK, IdleStateReleased
<1>3. CASE \E m \in Msgs : ArriveCaptured(m)
  BY <1>3, ArrivalOpens
<1>4. CASE UNCHANGED capture /\ ~EndTerminate
  BY <1>1, <1>4, StepSettles DEF OrdersStep
<1> QED
  BY <1>2, <1>3, <1>4, NextCaptures

LEMMA TypesKept == IInv /\ Next => TypeOK'
<1> SUFFICES ASSUME IInv, Next PROVE TypeOK'
  OBVIOUS
<1>1. TypeOK /\ LockTypes
  BY DEF IInv, TypeOK, LockTypes
(* All types but those of order and capture.                               *)
<1> DEFINE Rest ==
      /\ activeRunner \in [Keys -> Msgs \cup {NoMsg}]
      /\ pendingTickets \in SUBSET Msgs
      /\ monitor \in [Msgs -> {"none", "waiting", "cancelled", "done"}]
      /\ terminated \in {"no", "closing", "closed"}
      /\ queued \in SUBSET Msgs
      /\ resolved \in SUBSET Msgs
      /\ consumed \in SUBSET Msgs
      /\ runner \in [Msgs -> {"none", "live", "done", "over", "broken"}]
      /\ stopping \in SUBSET Msgs
      /\ pc \in [Msgs -> Phases]
      /\ outcome \in [Msgs -> {"none", "activated", "marked"}]
      /\ LockTypes
<1>2. Rest
  BY <1>1 DEF TypeOK
<1>3. UNCHANGED lockVars => LockTypes'
  BY <1>1 DEF lockVars, LockTypes
<1>4. ASSUME Terminate PROVE Rest'
  BY <1>2, <1>3, <1>4 DEF Terminate, BeginTerminate, EndTerminate, runnerVars, ticketVars
<1>5. ASSUME NEW m \in Msgs, Arrive(m) PROVE Rest'
  BY <1>2, <1>3, <1>5
     DEF Arrive, ArriveCaptured, ArriveAlone, Phases, coordinatorVars,
         ticketVars, runnerVars
<1>6. ASSUME NEW m \in Msgs, Prepare(m) PROVE Rest'
  <2> USE <1>2, <1>3 DEF Phases, coordinatorVars, ticketVars, runnerVars
  <2>1. CASE PrepareTerminated(m)
    BY <2>1 DEF PrepareTerminated, BeginFinalize
  <2>2. CASE PrepareConsumed(m)
    BY <2>2 DEF PrepareConsumed, BeginFinalize
  <2>3. CASE PrepareActivate(m)
    BY <2>3 DEF PrepareActivate
  <2>4. CASE TakeTurn(m)
    BY <2>4 DEF TakeTurn
  <2>5. CASE TurnTerminated(m)
    BY <2>5 DEF TurnTerminated, BeginFinalize
  <2> QED
    BY <1>6, <2>1, <2>2, <2>3, <2>4, <2>5 DEF Prepare
<1>7. ASSUME NEW m \in Msgs, Monitor(m) PROVE Rest'
  BY <1>2, <1>3, <1>7
     DEF Monitor, MonitorWake, MonitorCancelled, ticketVars, runnerVars
<1>8. ASSUME NEW m \in Msgs, Proceed(m) PROVE Rest'
  <2> USE <1>2, <1>3 DEF Phases, coordinatorVars, ticketVars, runnerVars
  <2>1. CASE RequestLock(m)
    BY <1>1, <2>1, RunKeyType, LockTypesKept DEF RequestLock
  <2>2. CASE HookStops(m)
    BY <2>2 DEF HookStops
  <2>3. CASE StartRun(m)
    <3>1. LockTypes'
      BY <1>1, <2>3, RunKeyType, LockTypesKept DEF StartRun
    <3> QED
      BY <2>3, <3>1 DEF StartRun
  <2>4. CASE StartFails(m)
    BY <1>1, <2>4, RunKeyType, LockTypesKept DEF StartFails
  <2>5. CASE EndRun(m)
    <3>1. LockTypes'
      BY <1>1, <2>5, RunKeyType, LockTypesKept DEF EndRun, Unregistered
    <3>2. activeRunner' \in [Keys -> Msgs \cup {NoMsg}]
      BY <2>5, UnregisteredSettlesNothing DEF EndRun
    <3> QED
      BY <2>5, <3>1, <3>2 DEF EndRun
  <2>6. CASE Leave(m)
    BY <2>6 DEF Leave, Finalize, BeginFinalize
  <2>7. CASE EndFinalize(m)
    BY <2>7 DEF EndFinalize
  <2> QED
    BY <1>8, <2>1, <2>2, <2>3, <2>4, <2>5, <2>6, <2>7 DEF Proceed
<1>9. ASSUME NEW r \in Msgs, Run(r) \/ RequestStop(r) PROVE Rest'
  <2>1. Waiting(r) \subseteq Msgs
    BY <1>2 DEF Waiting
  <2> QED
    BY <1>2, <1>3, <1>9, <2>1
       DEF Run, ToolResult, Complete, ResolveRest, ErrorAnswer, RunBreaks,
           RequestStop, coordinatorVars, ticketVars, runnerVars
<1>10. ASSUME NEW m \in Msgs, Cancel(m) PROVE Rest'
  <2> USE <1>2, <1>3 DEF Phases, coordinatorVars, ticketVars, runnerVars
  <2>1. CASE CancelCaptured(m)
    BY <2>1 DEF CancelCaptured, Finalize, BeginFinalize
  <2>2. CASE CancelEntering(m)
    <3>1. LockTypes'
      BY <1>1, <2>2, RunKeyType, LockTypesKept DEF CancelEntering
    <3> QED
      BY <2>2, <3>1 DEF CancelEntering
  <2>3. CASE CancelRun(m)
    <3>1. LockTypes'
      BY <1>1, <2>3, RunKeyType, LockTypesKept DEF CancelRun, Unregistered
    <3>2. activeRunner' \in [Keys -> Msgs \cup {NoMsg}]
      BY <2>3, UnregisteredSettlesNothing DEF CancelRun
    <3> QED
      BY <2>3, <3>1, <3>2 DEF CancelRun
  <2>4. CASE CancelLeaving(m)
    BY <2>4 DEF CancelLeaving
  <2> QED
    BY <1>10, <2>1, <2>2, <2>3, <2>4 DEF Cancel
<1>11. Rest'
  BY <1>4, <1>5, <1>6, <1>7, <1>8, <1>9, <1>10 DEF Next
<1>12. \A k \in Keys : order'[k] # NoOrder =>
                         order'[k].turn \in 1 .. Len(order'[k].slots) + 1
  BY OrdersKept DEF OrdersOK, WellFormed
<1> QED
  BY <1>11, <1>12, OrdersKept DEF TypeOK, LockTypes

-----------------------------------------------------------------------------
(* The theorems *)

LEMMA InitIInv == Init => IInv
<1> SUFFICES ASSUME Init PROVE IInv
  OBVIOUS
<1>1. TypeOK
  <2>1. line = [k \in Keys |-> <<>>] /\ owner = [k \in Keys |-> NoMsg]
    BY DEF Init, Mutex!Init
  <2> QED
    BY <2>1, EmptySeq DEF Init, TypeOK, Phases
<1>2. OrdersOK /\ IdleStateReleased
  BY DEF Init, OrdersOK, IdleStateReleased
<1>3. NewUntouched /\ CapturedFirst /\ TicketDecided /\ AnsweredOnce /\ WaitersKnown
  BY DEF Init, NewUntouched, CapturedFirst, TicketDecided, AnsweredOnce, WaitersKnown
<1>4. PlacesHeld
  BY DEF Init, PlacesHeld, Unsettled, Serving
<1> QED
  BY <1>1, <1>2, <1>3, <1>4 DEF IInv

LEMMA NextKeepsIInv == IInv /\ [Next]_vars => IInv'
<1>1. IInv /\ Next => IInv'
  BY TypesKept, OrdersKept, LifeKept, PlacesKept DEF IInv, LifeInv
<1>2. IInv /\ UNCHANGED vars => IInv'
  BY DEF vars, IInv, TypeOK, OrdersOK, IdleStateReleased, NewUntouched,
         CapturedFirst, TicketDecided, AnsweredOnce, WaitersKnown, PlacesHeld,
         Unsettled, Serving
<1> QED
  BY <1>1, <1>2

(* The pipeline never leaves the inductive invariant, whatever messages,   *)
(* senders and faults there are.                                           *)
THEOREM InductiveInvariance == Spec => []IInv
<1> QED
  BY InitIInv, NextKeepsIInv, PTL DEF Spec

(* Every variable keeps its type; in particular a turn that is advanced    *)
(* stays a number (the loop of _advance_turn_locked always stops).         *)
THEOREM TypeCorrectness == Spec => []TypeOK
<1>1. IInv => TypeOK
  BY DEF IInv
<1> QED
  BY <1>1, InductiveInvariance, PTL

(* Captured messages of one key are processed one at a time and in the     *)
(* order of their arrival: the one that is served has the turn, the places *)
(* before the turn are popped, and everybody unsettled holds an open place *)
(* of his own.                                                             *)
THEOREM FollowUpsInOrder == Spec => []InOrder
<1>1. IInv => InOrder
  <2> SUFFICES ASSUME IInv, terminated = "no", NEW m \in Msgs, NEW n \in Msgs,
                      Serving(m), Unsettled(n), m # n,
                      capture[m].key = capture[n].key
               PROVE  capture[m].seq < capture[n].seq
    BY DEF InOrder
  <2> DEFINE o == order[capture[n].key]
  <2>1. Unsettled(m)
    BY DEF IInv, CapturedFirst, Serving, Unsettled
  <2>2. o.turn = capture[m].seq /\ capture[n].seq \in Open(o)
        /\ capture[m].seq # capture[n].seq
    BY <2>1 DEF IInv, PlacesHeld
  <2>3. o # NoOrder
    BY <2>2 DEF Open
  <2>4. capture[n].key \in Keys
    BY DEF Unsettled, IInv, TypeOK, Capture
  <2>5. WellFormed(o)
    BY <2>3, <2>4 DEF IInv, OrdersOK
  <2> HIDE DEF o
  <2>6. /\ capture[n].seq \in 1 .. Len(o.slots)
        /\ o.slots[capture[n].seq] # "gone"
    BY <2>2, <2>3 DEF Open
  <2>7. ~(capture[n].seq < o.turn) /\ o.turn \in Nat /\ capture[n].seq \in Nat
    BY <2>5, <2>6 DEF WellFormed, OrderState
  <2> QED
    BY <2>2, <2>7
<1> QED
  BY <1>1, InductiveInvariance, PTL

(* No follow-up is both handed to the run and processed on its own, and    *)
(* none is dropped as consumed that was not.                               *)
THEOREM FollowUpsAnsweredOnce == Spec => []AnsweredOnce
<1>1. IInv => AnsweredOnce
  BY DEF IInv
<1> QED
  BY <1>1, InductiveInvariance, PTL

(* terminate knows every message that still waits for its ticket.          *)
THEOREM TerminateFindsWaiters == Spec => []WaitersKnown
<1>1. IInv => WaitersKnown
  BY DEF IInv
<1> QED
  BY <1>1, InductiveInvariance, PTL

(* No idle order state outlives its runner.                                *)
THEOREM IdleStatesReleased == Spec => []IdleStateReleased
<1>1. IInv => IdleStateReleased
  BY DEF IInv
<1> QED
  BY <1>1, InductiveInvariance, PTL
-----------------------------------------------------------------------------
(* Every open place has its owner *)

(* No task is cancelled in stop_typing, where the code skips               *)
(* finalize_capture.                                                       *)
TypingSpared == "cancel in typing" \notin Faults

(* A message that stops holding a place gives it up in the same step,      *)
(* unless the coordinator was terminated or its task was cancelled in      *)
(* stop_typing.                                                            *)
LEMMA SettlingGivesUp ==
  ASSUME IInv, Next, terminated = "no", UNCHANGED capture,
         TypingSpared, NEW m \in Settling
  PROVE  capture[m].seq \notin Open(order'[capture[m].key])
<1>1. TypeOK /\ CapturedFirst
  BY DEF IInv
<1>2. /\ m \in Msgs /\ Unsettled(m) /\ ~Unsettled(m)'
      /\ capture[m].key \in Keys /\ capture[m].seq \in Nat
  BY <1>1 DEF Settling, Unsettled, TypeOK, Capture
<1>3. pc[m] # "done" /\ outcome[m] # "marked"
      /\ (pc'[m] = "done" \/ outcome'[m] = "marked")
  BY <1>2 DEF Unsettled
<1>4. ASSUME SettleCapture(m), UNCHANGED activeRunner
      PROVE  capture[m].seq \notin Open(order'[capture[m].key])
  <2>1. OrdersStep({PlaceOf(m)})
    BY <1>2, <1>3, <1>4, SettleCaptureSettles
  <2> QED
    BY <1>2, <2>1 DEF OrdersStep, PlaceOf
<1>5. CASE Terminate
  BY <1>3, <1>5 DEF Terminate, BeginTerminate, EndTerminate
<1>6. ASSUME NEW n \in Msgs, Arrive(n) PROVE FALSE
  BY <1>1, <1>2, <1>3, <1>6 DEF Arrive, ArriveCaptured, ArriveAlone, TypeOK
<1>7. ASSUME NEW n \in Msgs, Prepare(n)
      PROVE  capture[m].seq \notin Open(order'[capture[m].key])
  <2>1. CASE PrepareTerminated(n) \/ TurnTerminated(n)
    BY <2>1 DEF PrepareTerminated, TurnTerminated
  <2>2. CASE PrepareConsumed(n)
    <3>1. n = m
      BY <1>1, <1>2, <1>3, <2>2 DEF PrepareConsumed, BeginFinalize, TypeOK
    <3>2. OrdersStep({PlaceOf(m)})
      BY <1>2, <2>2, <3>1, MarkConsumedSettles DEF PrepareConsumed, PlaceOf
    <3> QED
      BY <1>2, <3>2 DEF OrdersStep, PlaceOf
  <2>3. CASE PrepareActivate(n)
    <3>1. \/ outcome' = [outcome EXCEPT ![n] = "activated"]
          \/ outcome' = outcome
      BY <2>3 DEF PrepareActivate
    <3>2. \/ pc' = [pc EXCEPT ![n] = "entering"]
          \/ pc' = [pc EXCEPT ![n] = "awaitTurn"]
      BY <2>3 DEF PrepareActivate
    <3> QED
      BY <1>1, <1>2, <1>3, <3>1, <3>2 DEF TypeOK
  <2>4. CASE TakeTurn(n)
    BY <1>1, <1>2, <1>3, <2>4 DEF TakeTurn, TypeOK
  <2> QED
    BY <1>7, <2>1, <2>2, <2>3, <2>4 DEF Prepare
<1>8. ASSUME NEW n \in Msgs, Monitor(n) PROVE FALSE
  BY <1>3, <1>8 DEF Monitor, MonitorWake, MonitorCancelled
<1>9. ASSUME NEW n \in Msgs, Finalize(n), UNCHANGED <<activeRunner, outcome>>
      PROVE  capture[m].seq \notin Open(order'[capture[m].key])
  <2>1. n = m /\ ~MonitorOpen(n)
    BY <1>1, <1>2, <1>3, <1>9 DEF Finalize, BeginFinalize, TypeOK
  <2> QED
    BY <1>4, <1>9, <2>1 DEF Finalize
<1>10. ASSUME NEW n \in Msgs, Proceed(n)
       PROVE  capture[m].seq \notin Open(order'[capture[m].key])
  <2>1. CASE RequestLock(n) \/ HookStops(n) \/ StartRun(n) \/ StartFails(n) \/ EndRun(n)
    BY <1>1, <1>2, <1>3, <2>1
       DEF RequestLock, HookStops, StartRun, StartFails, EndRun, TypeOK
  <2>2. CASE Leave(n)
    BY <1>9, <2>2 DEF Leave
  <2>3. CASE EndFinalize(n)
    <3>1. n = m
      BY <1>1, <1>2, <1>3, <2>3 DEF EndFinalize, TypeOK
    <3> QED
      BY <1>4, <2>3, <3>1 DEF EndFinalize
  <2> QED
    BY <1>10, <2>1, <2>2, <2>3 DEF Proceed
<1>11. ASSUME NEW n \in Msgs, Run(n) \/ RequestStop(n) PROVE FALSE
  BY <1>3, <1>11 DEF Run, ToolResult, Complete, ResolveRest, ErrorAnswer,
                     RunBreaks, RequestStop
<1>12. ASSUME NEW n \in Msgs, Cancel(n)
       PROVE  capture[m].seq \notin Open(order'[capture[m].key])
  <2>1. CASE CancelCaptured(n)
    BY <1>9, <2>1 DEF CancelCaptured
  <2>2. CASE CancelEntering(n) \/ CancelRun(n)
    BY <1>1, <1>2, <1>3, <2>2 DEF CancelEntering, CancelRun, TypeOK
  <2>3. CASE CancelLeaving(n)
    BY <2>3 DEF CancelLeaving, TypingSpared
  <2> QED
    BY <1>12, <2>1, <2>2, <2>3 DEF Cancel
<1> QED
  BY <1>5, <1>6, <1>7, <1>8, <1>10, <1>11, <1>12 DEF Next

(* Arrivals open places of their own, and only settling closes one.        *)
LEMMA OwnersKept ==
  ASSUME TypingSpared
  PROVE  IInv /\ PlacesOwned /\ Next => PlacesOwned'
<1> SUFFICES ASSUME IInv, PlacesOwned, Next, terminated' = "no",
                    NEW k \in Keys, NEW i \in Open(order'[k])
             PROVE  \E m \in Msgs : /\ Unsettled(m)'
                                    /\ capture'[m].key = k
                                    /\ capture'[m].seq = i
  BY DEF PlacesOwned
<1>1. terminated = "no" /\ ~EndTerminate
  BY NextTerminates
<1>2. ASSUME NEW m \in Msgs, ArriveCaptured(m)
      PROVE  \E n \in Msgs : /\ Unsettled(n)'
                             /\ capture'[n].key = k
                             /\ capture'[n].seq = i
  <2> PICK key \in Keys, seq \in Nat :
        /\ capture'[m].key = key /\ capture'[m].seq = seq
        /\ seq \notin Open(order[key])
        /\ \A j \in Keys : Open(order'[j]) = Open(order[j]) \cup
                                             (IF j = key THEN {seq} ELSE {})
    BY <1>2, ArrivalOpens
  <2>1. /\ capture[m] = NoCapture
        /\ capture'[m] # NoCapture
        /\ \A n \in Msgs \ {m} : capture'[n] = capture[n]
    <3>1. capture[m] = NoCapture
      BY <1>2 DEF ArriveCaptured, IInv, NewUntouched
    <3>2. capture'[m] \in Capture /\ \A n \in Msgs \ {m} : capture'[n] = capture[n]
      BY <1>2, ArrivalOpens
    <3> QED
      BY <3>1, <3>2, NoCaptureAssumption
  <2>2. Unsettled(m)'
    BY <1>2, <2>1 DEF ArriveCaptured, IInv, TypeOK, NewUntouched, Unsettled
  <2>3. CASE k = key /\ i = seq
    BY <2>2, <2>3
  <2>4. CASE i \in Open(order[k])
    <3>1. PICK n \in Msgs : Unsettled(n) /\ capture[n].key = k /\ capture[n].seq = i
      BY <1>1, <2>4 DEF PlacesOwned
    <3>2. n # m
      BY <2>1, <3>1 DEF Unsettled
    <3>3. Unsettled(n)'
      BY <1>2, <2>1, <3>1, <3>2 DEF ArriveCaptured, IInv, TypeOK, Unsettled
    <3> QED
      BY <2>1, <3>1, <3>2, <3>3
  <2> QED
    BY <2>3, <2>4
<1>3. CASE UNCHANGED capture
  <2> PICK gone \in SUBSET {PlaceOf(m) : m \in Settling} : OrdersStep(gone)
    BY <1>1, <1>3, StepSettles
  <2>1. i \in Open(order[k])
    BY DEF OrdersStep
  <2>2. PICK m \in Msgs : Unsettled(m) /\ capture[m].key = k /\ capture[m].seq = i
    BY <1>1, <2>1 DEF PlacesOwned
  <2>3. m \notin Settling
    BY <1>1, <1>3, <2>2, SettlingGivesUp
  <2> QED
    BY <1>3, <2>2, <2>3 DEF Settling
<1> QED
  BY <1>1, <1>2, <1>3, NextCaptures

(* Every open place of an order belongs to a message that will give it up: *)
(* nothing but a cancellation in stop_typing, which skips finalize_capture,*)
(* leaves a place without an owner, whatever else is cancelled or breaks.  *)
THEOREM PlacesAreOwned ==
  ASSUME TypingSpared
  PROVE  Spec => []PlacesOwned
<1>1. Init => PlacesOwned
  BY DEF Init, PlacesOwned, Open
<1>2. IInv /\ PlacesOwned /\ [Next]_vars => PlacesOwned'
  <2>1. IInv /\ PlacesOwned /\ UNCHANGED vars => PlacesOwned'
    BY DEF vars, PlacesOwned, Unsettled
  <2> QED
    BY <2>1, OwnersKept
<1> QED
  BY <1>1, <1>2, InductiveInvariance, PTL DEF Spec
-----------------------------------------------------------------------------
(* The line of those who wait for their turn *)

(* Who sits at the places 1 to n, and the gaps between them.               *)
Seats(place, n) ==
  [i \in 1 .. n |->
     LET At == {m \in DOMAIN place : place[m] = i}
     IN IF At = {} THEN NoMsg ELSE CHOOSE m \in At : TRUE]

(* Everybody in W has a place of his own.                                  *)
Placed(W, place, n) ==
  /\ W \subseteq Msgs
  /\ place \in [W -> 1 .. n]
  /\ \A u, v \in W : place[u] = place[v] => u = v

(* Everybody in W sits in q at his place, and nobody else does.            *)
Seated(W, place, n, q) ==
  /\ q \in Seq(Msgs \cup {NoMsg})
  /\ Len(q) = n
  /\ \A u \in W : place[u] \in 1 .. n /\ q[place[u]] = u
  /\ \A i \in 1 .. n : /\ q[i] \in W \cup {NoMsg}
                       /\ q[i] \in W => place[q[i]] = i

LEMMA SeatsTaken ==
  ASSUME NEW W, NEW n \in Nat, NEW place, Placed(W, place, n)
  PROVE  /\ Seated(W, place, n, Seats(place, n))
         /\ ByPlace(place, n) = Kept(Seats(place, n), W)
<1> DEFINE At(i) == {m \in W : place[m] = i}
           q == Seats(place, n)
<1>1. DOMAIN place = W /\ W \subseteq Msgs
  BY DEF Placed
<1>2. \A i \in 1 .. n : q[i] = IF At(i) = {} THEN NoMsg ELSE CHOOSE m \in At(i) : TRUE
  BY <1>1 DEF Seats
<1>3. ASSUME NEW i \in 1 .. n
      PROVE  /\ At(i) = {} => q[i] = NoMsg
             /\ At(i) # {} => q[i] \in At(i)
  BY <1>2
<1>4. q \in [1 .. n -> Msgs \cup {NoMsg}]
  <2>1. \A i \in 1 .. n : q[i] \in Msgs \cup {NoMsg}
    BY <1>1, <1>3
  <2> QED
    BY <2>1 DEF Seats
<1>5. q \in Seq(Msgs \cup {NoMsg}) /\ Len(q) = n
  BY <1>4, FunctionIsSequence
<1>6. ASSUME NEW u \in W
      PROVE  place[u] \in 1 .. n /\ q[place[u]] = u
  <2>1. place[u] \in 1 .. n /\ u \in At(place[u])
    BY DEF Placed
  <2>2. q[place[u]] \in At(place[u])
    BY <1>3, <2>1
  <2> QED
    BY <2>1, <2>2 DEF Placed
<1>7. ASSUME NEW i \in 1 .. n, q[i] \in W
      PROVE  place[q[i]] = i
  BY <1>1, <1>3, <1>7, NoMsgAssumption
<1>9. \A i \in 1 .. n : q[i] \in W \cup {NoMsg}
  BY <1>3
<1>8. ByPlace(place, n) = Kept(q, W)
  BY <1>1 DEF ByPlace, Seats
<1> QED
  BY <1>5, <1>6, <1>7, <1>8, <1>9 DEF Seated

(* Exactly those in W stand in the line, each once.                        *)
LEMMA ByPlaceMembers ==
  ASSUME NEW W, NEW n \in Nat, NEW place, Placed(W, place, n)
  PROVE  /\ ByPlace(place, n) \in Seq(Msgs)
         /\ Distinct(ByPlace(place, n))
         /\ Members(ByPlace(place, n)) = W
<1> DEFINE q == Seats(place, n)
           line1 == ByPlace(place, n)
<1>1. Seated(W, place, n, q) /\ line1 = Kept(q, W)
  BY SeatsTaken
<1>2. W \subseteq Msgs
  BY DEF Placed
<1> USE DEF Seated
<1> HIDE DEF q, line1
<1>3. W \subseteq Members(q)
  BY <1>1 DEF Members
<1>4. line1 \in Seq(Msgs \cup {NoMsg}) /\ Members(line1) = W
  <2>1. line1 \in Seq(Msgs \cup {NoMsg}) /\ Members(line1) = Members(q) \cap W
    BY <1>1, KeptMembers
  <2> QED
    BY <1>3, <2>1
<1>5. Distinct(line1)
  BY <1>1, KeptDistinct
<1>6. line1 \in Seq(Msgs)
  <2>1. \A i \in 1 .. Len(line1) : line1[i] \in Msgs
    BY <1>2, <1>4 DEF Members
  <2>2. Len(line1) \in Nat /\ line1 = [i \in 1 .. Len(line1) |-> line1[i]]
    BY <1>4, LenProperties, SeqDef
  <2>3. line1 \in [1 .. Len(line1) -> Msgs]
    BY <2>1, <2>2
  <2> QED
    BY <2>2, <2>3, FunctionIsSequence
<1> QED
  BY <1>4, <1>5, <1>6 DEF line1

(* Who stays in the line keeps his place in it.                            *)
LEMMA ByPlaceLess ==
  ASSUME NEW W, NEW n \in Nat, NEW place, Placed(W, place, n), NEW V \in SUBSET W
  PROVE  ByPlace([m \in V |-> place[m]], n) = Kept(ByPlace(place, n), V)
<1> DEFINE less == [m \in V |-> place[m]]
           q == Seats(place, n)
           r == Seats(less, n)
<1>1. Placed(V, less, n)
  BY DEF Placed
<1>2. Seated(W, place, n, q) /\ ByPlace(place, n) = Kept(q, W)
  BY SeatsTaken
<1>3. Seated(V, less, n, r) /\ ByPlace(less, n) = Kept(r, V)
  <2> HIDE DEF less
  <2> QED
    BY <1>1, SeatsTaken
<1>4. \A u \in V : less[u] = place[u] /\ u \in W
  OBVIOUS
<1> USE DEF Seated
<1> HIDE DEF less, q, r
<1>5. Kept(Kept(q, W), V) = Kept(q, V)
  <2>1. W \cap V = V
    OBVIOUS
  <2> QED
    BY <1>2, <2>1, KeptKept
<1>6. ASSUME NEW i \in 1 .. n
      PROVE  /\ q[i] \in V <=> r[i] \in V
             /\ q[i] \in V => r[i] = q[i]
  <2>1. ASSUME q[i] \in V PROVE r[i] = q[i]
    BY <1>2, <1>3, <1>4, <2>1
  <2>2. ASSUME r[i] \in V PROVE r[i] = q[i]
    BY <1>2, <1>3, <1>4, <2>2
  <2> QED
    BY <2>1, <2>2
<1>7. Kept(q, V) = Kept(r, V)
  BY <1>2, <1>3, <1>6, KeptAgree
<1> QED
  BY <1>2, <1>3, <1>5, <1>7 DEF less

(* The places in `more' are those in `place' and the next one for m.       *)
JoinsLast(W, place, n, m, more) ==
  /\ n \in Nat
  /\ Placed(W, place, n)
  /\ m \in Msgs \ W
  /\ more \in [W \cup {m} -> 1 .. n + 1]
  /\ \A u \in W : more[u] = place[u]
  /\ more[m] = n + 1

(* Whoever gets the next place stands at the end of the line.              *)
LEMMA ByPlaceMore ==
  ASSUME NEW W, NEW n, NEW place, NEW m, NEW more,
         JoinsLast(W, place, n, m, more)
  PROVE  ByPlace(more, n + 1) = Append(ByPlace(place, n), m)
<1>0. /\ n \in Nat
      /\ Placed(W, place, n)
      /\ m \in Msgs /\ m \notin W
      /\ more \in [W \cup {m} -> 1 .. n + 1]
      /\ \A u \in W : more[u] = place[u]
      /\ more[m] = n + 1
  BY DEF JoinsLast
<1> USE <1>0
<1> DEFINE q == Seats(place, n)
           r == Seats(more, n + 1)
           V == W \cup {m}
<1>1. Placed(V, more, n + 1)
  BY DEF Placed
<1>2. Seated(W, place, n, q) /\ ByPlace(place, n) = Kept(q, W)
  BY SeatsTaken
<1> HIDE DEF V
<1>3. Seated(V, more, n + 1, r) /\ ByPlace(more, n + 1) = Kept(r, V)
  BY <1>1, SeatsTaken
<1> USE DEF Seated
<1> HIDE DEF q, r
<1> DEFINE qm == Append(q, m)
<1>4. /\ qm \in Seq(Msgs \cup {NoMsg}) /\ Len(qm) = n + 1
      /\ \A i \in 1 .. n : qm[i] = q[i]
      /\ qm[n + 1] = m
  BY <1>2, AppendProperties
<1>5. Kept(qm, V) = Append(Kept(q, V), m)
  BY <1>2, KeptAppend DEF V
<1> HIDE DEF qm
<1>6. ASSUME NEW i \in 1 .. n + 1
      PROVE  /\ qm[i] \in V <=> r[i] \in V
             /\ qm[i] \in V => r[i] = qm[i]
  <2>1. CASE i = n + 1
    BY <1>3, <1>4, <2>1 DEF V
  <2>2. CASE i \in 1 .. n
    <3>1. ASSUME q[i] \in V PROVE r[i] = q[i]
      <4>1. q[i] # m
        BY <1>2, <2>2, NoMsgAssumption
      <4> QED
        BY <1>2, <1>3, <2>2, <3>1, <4>1 DEF V
    <3>2. ASSUME r[i] \in V PROVE r[i] = q[i]
      <4>1. more[r[i]] = i /\ r[i] # m
        BY <1>3, <2>2, <3>2
      <4>2. r[i] \in W
        BY <3>2, <4>1 DEF V
      <4> QED
        BY <1>2, <4>1, <4>2
    <3> QED
      BY <1>4, <2>2, <3>1, <3>2
  <2> QED
    BY <2>1, <2>2
<1>7. Kept(qm, V) = Kept(r, V)
  BY <1>3, <1>4, <1>6, KeptAgree
<1>8. Kept(q, V) = Kept(q, W)
  <2>1. m \notin Members(q)
    BY <1>2, NoMsgAssumption DEF Members
  <2>2. Members(q) \cap V = Members(q) \cap W
    BY <2>1 DEF V
  <2> QED
    BY <1>2, <2>2, KeptSame
<1> QED
  BY <1>2, <1>3, <1>5, <1>7, <1>8

(* The one with the smallest place stands at the head.                     *)
LEMMA ByPlaceFirst ==
  ASSUME NEW W, NEW n \in Nat, NEW place, Placed(W, place, n),
         NEW m \in W, \A u \in W : place[m] <= place[u]
  PROVE  ByPlace(place, n) # <<>> /\ Head(ByPlace(place, n)) = m
<1> DEFINE q == Seats(place, n)
<1>1. Seated(W, place, n, q) /\ ByPlace(place, n) = Kept(q, W)
  BY SeatsTaken
<1> USE DEF Seated
<1> HIDE DEF q
<1>2. place[m] \in 1 .. Len(q) /\ q[place[m]] = m
  BY <1>1
<1>3. \A i \in 1 .. place[m] - 1 : q[i] \notin W
  <2> SUFFICES ASSUME NEW i \in 1 .. place[m] - 1, q[i] \in W PROVE FALSE
    OBVIOUS
  <2>1. i \in 1 .. n /\ i < place[m]
    BY <1>1, <1>2
  <2>2. place[q[i]] = i
    BY <1>1, <2>1
  <2>3. place[m] <= i
    BY <2>2
  <2> QED
    BY <1>1, <2>1, <2>3
<1> QED
  BY <1>1, <1>2, <1>3, KeptFirst


Places(k) == [m \in WaitingUnder(k) |-> capture[m].seq]

(* Under every key those who wait have places of their own.                *)
LinesPlaced ==
  \A k \in Keys : /\ SlotCount(k) \in Nat
                  /\ Placed(WaitingUnder(k), Places(k), SlotCount(k))

LEMMA LinesArePlaced ==
  ASSUME IInv, terminated = "no"
  PROVE  LinesPlaced
<1> SUFFICES ASSUME NEW k \in Keys
             PROVE  /\ SlotCount(k) \in Nat
                    /\ Placed(WaitingUnder(k), Places(k), SlotCount(k))
  BY DEF LinesPlaced
<1>1. order[k] = NoOrder \/ WellFormed(order[k])
  BY DEF IInv, OrdersOK
<1>2. SlotCount(k) \in Nat
  BY <1>1, LenProperties DEF SlotCount, WellFormed, OrderState
<1>3. Open(order[k]) \subseteq 1 .. SlotCount(k)
  BY DEF Open, SlotCount
<1>4. \A m \in WaitingUnder(k) :
        m \in Msgs /\ Unsettled(m) /\ capture[m].key = k
  BY DEF WaitingUnder
<1>5. \A m \in WaitingUnder(k) : capture[m].seq \in 1 .. SlotCount(k)
  BY <1>3, <1>4 DEF IInv, PlacesHeld
<1>6. \A u, v \in WaitingUnder(k) : capture[u].seq = capture[v].seq => u = v
  BY <1>4 DEF IInv, PlacesHeld
<1> QED
  BY <1>2, <1>4, <1>5, <1>6 DEF Placed, Places

LEMMA LineOfPlaced ==
  ASSUME NEW W, NEW n \in Nat, NEW place, Placed(W, place, n)
  PROVE  (IF W = {} THEN <<>> ELSE ByPlace(place, n)) = ByPlace(place, n)
BY ByPlaceMembers, MembersOfEmpty

LEMMA TurnLineIs ==
  ASSUME LinesPlaced, NEW k \in Keys
  PROVE  /\ TurnLine(k) = ByPlace(Places(k), SlotCount(k))
         /\ TurnLine(k) \in Seq(Msgs)
         /\ Distinct(TurnLine(k))
         /\ Members(TurnLine(k)) = WaitingUnder(k)
<1>1. SlotCount(k) \in Nat /\ Placed(WaitingUnder(k), Places(k), SlotCount(k))
  BY DEF LinesPlaced
<1>2. TurnLine(k) = ByPlace(Places(k), SlotCount(k))
  BY <1>1, LineOfPlaced DEF TurnLine, Places
<1> QED
  BY <1>1, <1>2, ByPlaceMembers

(* When nobody joins, the line is what is left of it.                      *)
LEMMA TurnLineLess ==
  ASSUME LinesPlaced, NEW k \in Keys,
         NEW V, WaitingUnder(k)' = V, V \subseteq WaitingUnder(k),
         UNCHANGED capture,
         V # {} => SlotCount(k)' = SlotCount(k)
  PROVE  TurnLine(k)' = Kept(TurnLine(k), V)
<1>1. SlotCount(k) \in Nat /\ Placed(WaitingUnder(k), Places(k), SlotCount(k))
  BY DEF LinesPlaced
<1>2. CASE V = {}
  <2>1. TurnLine(k)' = <<>>
    BY <1>2 DEF TurnLine
  <2>2. Kept(TurnLine(k), V) = <<>>
    BY <1>2, TurnLineIs, KeptNone
  <2> QED
    BY <2>1, <2>2
<1>3. CASE V # {}
  <2>1. TurnLine(k)' = ByPlace([m \in V |-> capture[m].seq], SlotCount(k))
    BY <1>3 DEF TurnLine
  <2>2. [m \in V |-> Places(k)[m]] = [m \in V |-> capture[m].seq]
    BY DEF Places
  <2>3. ByPlace([m \in V |-> Places(k)[m]], SlotCount(k))
          = Kept(ByPlace(Places(k), SlotCount(k)), V)
    BY <1>1, ByPlaceLess
  <2> QED
    BY <2>1, <2>2, <2>3, TurnLineIs
<1> QED
  BY <1>2, <1>3

-----------------------------------------------------------------------------
(* What a step does to one message *)

(* The step of a message leaves the others where they are; it never begins *)
(* to wait again, and is handed its turn only when the turn is its own.    *)
TurnStep(m) ==
  /\ \A n \in Msgs \ {m} : pc'[n] = pc[n] /\ outcome'[n] = outcome[n]
  /\ pc[m] = "done" => pc'[m] = "done"
  /\ outcome[m] # "none" => outcome'[m] = outcome[m]
  /\ outcome[m] = "none" /\ outcome'[m] = "activated"
       => /\ Unsettled(m)
          /\ pc'[m] # "done"
          /\ order[capture[m].key].turn = capture[m].seq

LEMMA StepOfOne ==
  ASSUME IInv, Next, terminated = "no", terminated' = "no"
  PROVE  \E m \in Msgs : TurnStep(m)
<1>1. /\ TypeOK /\ CapturedFirst /\ NewUntouched /\ PlacesHeld
      /\ pc \in [Msgs -> Phases]
      /\ outcome \in [Msgs -> {"none", "activated", "marked"}]
  BY DEF IInv, TypeOK
<1>2. ~EndTerminate /\ ~BeginTerminate
  BY NextTerminates
<1>3. ASSUME NEW m \in Msgs, pc[m] # "done", UNCHANGED outcome,
             \E p \in Phases : pc' = [pc EXCEPT ![m] = p]
      PROVE  TurnStep(m)
  BY <1>1, <1>3 DEF TurnStep
<1>4. ASSUME NEW m \in Msgs, pc[m] # "done", outcome[m] = "none",
             outcome' = [outcome EXCEPT ![m] = "marked"],
             \E p \in Phases : pc' = [pc EXCEPT ![m] = p]
      PROVE  TurnStep(m)
  BY <1>1, <1>4 DEF TurnStep
<1>5. ASSUME NEW m \in Msgs, BeginFinalize(m)
      PROVE  \E p \in Phases : pc' = [pc EXCEPT ![m] = p]
  BY <1>5 DEF BeginFinalize, Phases
<1>6. ASSUME NEW m \in Msgs, UNCHANGED <<pc, outcome>>
      PROVE  TurnStep(m)
  BY <1>6 DEF TurnStep
<1>7. ASSUME NEW m \in Msgs, Arrive(m) PROVE TurnStep(m)
  BY <1>3, <1>7 DEF Arrive, ArriveCaptured, ArriveAlone, Phases
<1>8. ASSUME NEW m \in Msgs, Prepare(m) PROVE TurnStep(m)
  <2>1. CASE PrepareTerminated(m) \/ TurnTerminated(m)
    BY <2>1 DEF PrepareTerminated, TurnTerminated
  <2>2. CASE PrepareConsumed(m)
    BY <1>1, <1>4, <1>5, <2>2 DEF PrepareConsumed, CapturedFirst
  <2>3. CASE PrepareActivate(m) \/ TakeTurn(m)
    <3>1. pc[m] \in {"awaitTicket", "awaitTurn"} /\ outcome[m] = "none" /\ Unsettled(m)
      BY <1>1, <2>3 DEF PrepareActivate, TakeTurn, CapturedFirst, Unsettled
    <3>2. order[capture[m].key] # NoOrder
      BY <1>1, <3>1 DEF PlacesHeld, Open
    <3>3. CASE order[capture[m].key].turn = capture[m].seq
      <4>1. pc' = [pc EXCEPT ![m] = "entering"] /\ outcome' = [outcome EXCEPT ![m] = "activated"]
        BY <2>3, <3>3 DEF PrepareActivate, TakeTurn
      <4> QED
        BY <1>1, <3>1, <3>3, <4>1 DEF TurnStep
    <3>4. CASE order[capture[m].key].turn # capture[m].seq
      <4>1. pc' = [pc EXCEPT ![m] = "awaitTurn"] /\ UNCHANGED outcome
        BY <2>3, <3>2, <3>4 DEF PrepareActivate, TakeTurn, TurnCame
      <4> QED
        BY <1>3, <3>1, <4>1 DEF Phases
    <3> QED
      BY <3>3, <3>4
  <2> QED
    BY <1>8, <2>1, <2>2, <2>3 DEF Prepare
<1>9. ASSUME NEW m \in Msgs, Monitor(m) \/ Run(m) \/ RequestStop(m) PROVE TurnStep(m)
  BY <1>6, <1>9 DEF Monitor, MonitorWake, MonitorCancelled, Run, ToolResult, Complete,
     ResolveRest, ErrorAnswer, RunBreaks, RequestStop
<1>10. ASSUME NEW m \in Msgs, Proceed(m) PROVE TurnStep(m)
  <2>1. CASE Leave(m)
    BY <1>3, <1>5, <2>1 DEF Leave, Finalize
  <2>2. CASE ~Leave(m)
    BY <1>3, <1>10, <2>2
       DEF Proceed, RequestLock, HookStops, StartRun, StartFails, EndRun, EndFinalize, Phases
  <2> QED
    BY <2>1, <2>2
<1>11. ASSUME NEW m \in Msgs, Cancel(m) PROVE TurnStep(m)
  <2>1. CASE CancelCaptured(m)
    BY <1>3, <1>5, <2>1 DEF CancelCaptured, Finalize
  <2>2. CASE ~CancelCaptured(m)
    BY <1>3, <1>11, <2>2 DEF Cancel, CancelEntering, CancelRun, CancelLeaving, Phases
  <2> QED
    BY <2>1, <2>2
<1> QED
  BY <1>2, <1>7, <1>8, <1>9, <1>10, <1>11 DEF Next, Terminate

(* At most one message of a key is served.                                 *)
OneServed == \A k \in Keys : \A u, v \in ServedUnder(k) : u = v

LEMMA OneIsServed ==
  ASSUME IInv, terminated = "no"
  PROVE  OneServed
<1> SUFFICES ASSUME NEW k \in Keys, NEW u \in ServedUnder(k), NEW v \in ServedUnder(k)
             PROVE  u = v
  BY DEF OneServed
<1>1. \A m \in {u, v} : m \in Msgs /\ Serving(m) /\ Unsettled(m) /\ capture[m].key = k
  BY DEF ServedUnder, Serving, Unsettled, IInv, CapturedFirst
<1> QED
  BY <1>1 DEF IInv, PlacesHeld

LEMMA TurnOwnerIs ==
  ASSUME NEW k, NEW m \in ServedUnder(k), \A u, v \in ServedUnder(k) : u = v
  PROVE  TurnOwner(k) = m
BY DEF TurnOwner

(* The one whose turn it is stands at the head of the line, and nobody is  *)
(* served before him.                                                      *)
LEMMA TurnIsFirst ==
  ASSUME IInv, terminated = "no", NEW k \in Keys, NEW m \in WaitingUnder(k),
         order[k].turn = capture[m].seq
  PROVE  /\ ServedUnder(k) = {}
         /\ TurnLine(k) # <<>> /\ Head(TurnLine(k)) = m
<1>1. LinesPlaced
  BY LinesArePlaced
<1>2. SlotCount(k) \in Nat /\ Placed(WaitingUnder(k), Places(k), SlotCount(k))
  BY <1>1 DEF LinesPlaced
<1>3. m \in Msgs /\ Unsettled(m) /\ capture[m].key = k /\ outcome[m] = "none"
  BY DEF WaitingUnder
<1>4. order[k] # NoOrder
  BY <1>3 DEF IInv, PlacesHeld, Open
<1>5. WellFormed(order[k])
  BY <1>4 DEF IInv, OrdersOK
<1>6. ASSUME NEW u \in WaitingUnder(k) PROVE capture[m].seq <= capture[u].seq
  <2>1. capture[u].seq \in Open(order[k])
    BY DEF WaitingUnder, IInv, PlacesHeld
  <2>2. capture[u].seq \in 1 .. Len(order[k].slots)
        /\ order[k].slots[capture[u].seq] # "gone"
    BY <1>4, <2>1 DEF Open
  <2>3. ~(capture[u].seq < order[k].turn) /\ order[k].turn \in Nat
    BY <1>5, <2>2 DEF WellFormed, OrderState
  <2> QED
    BY <2>2, <2>3
<1>7. \A u \in WaitingUnder(k) : Places(k)[m] <= Places(k)[u]
  BY <1>6 DEF Places
<1>8. TurnLine(k) # <<>> /\ Head(TurnLine(k)) = m
  BY <1>1, <1>2, <1>7, TurnLineIs, ByPlaceFirst
<1>9. ASSUME NEW u \in ServedUnder(k) PROVE FALSE
  <2>1. u \in Msgs /\ Serving(u) /\ Unsettled(u) /\ capture[u].key = k
        /\ outcome[u] = "activated"
    BY DEF ServedUnder, Serving, Unsettled, IInv, CapturedFirst
  <2>2. u = m
    BY <1>3, <2>1 DEF IInv, PlacesHeld
  <2> QED
    BY <1>3, <2>1, <2>2
<1> QED
  BY <1>8, <1>9

-----------------------------------------------------------------------------
(* The refinement *)

(* A step that captures nobody hands over a turn, gives one back, lets one *)
(* who waits leave the line, or changes neither line nor owner.            *)
LEMMA StepRefines ==
  ASSUME IInv, LinesPlaced', OneServed, OneServed', Next, terminated = "no", terminated' = "no",
         UNCHANGED capture
  PROVE  [Turns!Next]_Turns!vars
<1> PICK m \in Msgs : TurnStep(m)
  BY StepOfOne
<1>1. LinesPlaced
  BY LinesArePlaced
<1>2. PICK gone \in SUBSET {PlaceOf(n) : n \in Settling} : OrdersStep(gone)
  BY StepSettles, NextTerminates
<1>3. ASSUME NEW k \in Keys
      PROVE  /\ \A n \in Msgs \ {m} : /\ n \in WaitingUnder(k)' <=> n \in WaitingUnder(k)
                                      /\ n \in ServedUnder(k)' <=> n \in ServedUnder(k)
             /\ m \in WaitingUnder(k)' => m \in WaitingUnder(k)
             /\ m \in ServedUnder(k)' /\ m \notin ServedUnder(k)
                  => m \in WaitingUnder(k) /\ order[k].turn = capture[m].seq
             /\ m \in ServedUnder(k) => m \notin WaitingUnder(k)
             /\ m \in ServedUnder(k)' => m \notin WaitingUnder(k)'
             /\ WaitingUnder(k) \subseteq Msgs /\ WaitingUnder(k)' \subseteq Msgs
             /\ ServedUnder(k) \subseteq Msgs /\ ServedUnder(k)' \subseteq Msgs
  <2>1. outcome \in [Msgs -> {"none", "activated", "marked"}]
    BY DEF IInv, TypeOK
  <2> QED
    BY <2>1 DEF TurnStep, WaitingUnder, ServedUnder, Serving, Unsettled
<1>4. ASSUME NEW k \in Keys, WaitingUnder(k)' # {}
      PROVE  SlotCount(k)' = SlotCount(k)
  <2>1. Placed(WaitingUnder(k)', Places(k)', SlotCount(k)') /\ SlotCount(k)' \in Nat
    BY DEF LinesPlaced
  <2>2. SlotCount(k)' # 0
    BY <1>4, <2>1 DEF Placed
  <2>3. order'[k] # NoOrder
    BY <2>2 DEF SlotCount
  <2> QED
    BY <1>2, <2>3 DEF OrdersStep, SlotCount
<1>5. ASSUME NEW k \in Keys
      PROVE  TurnLine(k)' = Kept(TurnLine(k), WaitingUnder(k)')
  <2>1. WaitingUnder(k)' \subseteq WaitingUnder(k)
    BY <1>3
  <2> QED
    BY <1>1, <1>4, <2>1, TurnLineLess
<1>6. ASSUME NEW k \in Keys, m \in WaitingUnder(k)' <=> m \in WaitingUnder(k)
      PROVE  TurnLine(k)' = TurnLine(k)
  <2>1. WaitingUnder(k)' = WaitingUnder(k)
    <3>1. \A n \in Msgs : n \in WaitingUnder(k)' <=> n \in WaitingUnder(k)
      BY <1>3, <1>6
    <3>2. WaitingUnder(k) \subseteq Msgs /\ WaitingUnder(k)' \subseteq Msgs
      BY <1>3
    <3> QED
      BY <3>1, <3>2
  <2> QED
    BY <1>1, <1>5, <2>1, TurnLineIs, KeptAll
<1>7. ASSUME NEW k \in Keys, m \in ServedUnder(k)' <=> m \in ServedUnder(k)
      PROVE  TurnOwner(k)' = TurnOwner(k)
  <2>1. ServedUnder(k)' = ServedUnder(k)
    <3>1. \A n \in Msgs : n \in ServedUnder(k)' <=> n \in ServedUnder(k)
      BY <1>3, <1>7
    <3>2. ServedUnder(k) \subseteq Msgs /\ ServedUnder(k)' \subseteq Msgs
      BY <1>3
    <3> QED
      BY <3>1, <3>2
  <2> QED
    BY <2>1 DEF TurnOwner
<1>8. ASSUME NEW k \in Keys, m \in WaitingUnder(k) \cup ServedUnder(k)
      PROVE  \A j \in Keys \ {k} : TurnLine(j)' = TurnLine(j) /\ TurnOwner(j)' = TurnOwner(j)
  <2>1. \A j \in Keys \ {k} : /\ m \notin WaitingUnder(j) /\ m \notin ServedUnder(j)
                              /\ m \notin WaitingUnder(j)' /\ m \notin ServedUnder(j)'
    BY <1>8 DEF WaitingUnder, ServedUnder
  <2> QED
    BY <1>6, <1>7, <2>1
<1>9. ASSUME NEW k \in Keys, m \in WaitingUnder(k), m \notin WaitingUnder(k)'
      PROVE  /\ TurnLine(k)' = Without(TurnLine(k), m)
             /\ TurnLine(k) \in Seq(Msgs) /\ Distinct(TurnLine(k))
             /\ \E i \in DOMAIN TurnLine(k) : TurnLine(k)[i] = m
  <2>1. /\ TurnLine(k) \in Seq(Msgs) /\ Distinct(TurnLine(k))
        /\ Members(TurnLine(k)) = WaitingUnder(k)
    BY <1>1, TurnLineIs
  <2>2. WaitingUnder(k)' = WaitingUnder(k) \ {m}
    BY <1>3, <1>9
  <2>3. Kept(TurnLine(k), WaitingUnder(k)) = TurnLine(k)
    BY <2>1, KeptAll
  <2>4. Without(Kept(TurnLine(k), WaitingUnder(k)), m)
          = Kept(TurnLine(k), WaitingUnder(k) \ {m})
    BY <1>9, <2>1, WithoutKept
  <2>5. \E i \in 1 .. Len(TurnLine(k)) : TurnLine(k)[i] = m
    BY <1>9, <2>1 DEF Members
  <2> QED
    BY <1>5, <2>1, <2>2, <2>3, <2>4, <2>5, LenProperties
<1>10. ASSUME NEW k \in Keys, m \in WaitingUnder(k), m \notin WaitingUnder(k)',
              m \notin ServedUnder(k)'
       PROVE  Turns!Quit(m, k)
  <2>1. TurnOwner(k)' = TurnOwner(k)
    BY <1>3, <1>7, <1>10
  <2>2. Turns!InLine(m, k)
    BY <1>9, <1>10 DEF Turns!InLine
  <2>3. Turns!Without(TurnLine(k), m) = Without(TurnLine(k), m)
    BY DEF Turns!Without, Turns!Place, Without, Place
  <2>4. TurnLine(k)' = Without(TurnLine(k), m)
    BY <1>9, <1>10
  <2>5. \A j \in Keys \ {k} : TurnLine(j)' = TurnLine(j) /\ TurnOwner(j)' = TurnOwner(j)
    BY <1>8, <1>10
  <2> QED
    BY <2>1, <2>2, <2>3, <2>4, <2>5 DEF Turns!Quit
<1>11. ASSUME NEW k \in Keys, m \in ServedUnder(k)', m \notin ServedUnder(k)
       PROVE  Turns!Handover(m, k)
  <2>1. /\ m \in WaitingUnder(k) /\ m \notin WaitingUnder(k)'
        /\ order[k].turn = capture[m].seq
    BY <1>3, <1>11
  <2>2. ServedUnder(k) = {} /\ TurnLine(k) # <<>> /\ Head(TurnLine(k)) = m
    BY <2>1, TurnIsFirst
  <2>3. TurnOwner(k) = NoMsg
    BY <2>2 DEF TurnOwner
  <2>4. TurnOwner(k)' = m
    <3>1. ServedUnder(k)' = {m}
      BY <1>11 DEF OneServed
    <3> QED
      BY <3>1 DEF TurnOwner
  <2>5. TurnLine(k)' = Tail(TurnLine(k))
    BY <1>9, <2>1, <2>2, WithoutHead
  <2>6. \A j \in Keys \ {k} : TurnLine(j)' = TurnLine(j) /\ TurnOwner(j)' = TurnOwner(j)
    BY <1>8, <2>1
  <2> QED
    BY <2>2, <2>3, <2>4, <2>5, <2>6 DEF Turns!Handover
<1>12. ASSUME NEW k \in Keys, m \in ServedUnder(k), m \notin ServedUnder(k)'
       PROVE  Turns!Release(m, k)
  <2>1. ServedUnder(k) = {m} /\ ServedUnder(k)' = {}
    BY <1>3, <1>12 DEF OneServed
  <2>2. TurnOwner(k) = m /\ TurnOwner(k)' = NoMsg
    BY <2>1 DEF TurnOwner
  <2>3. TurnLine(k)' = TurnLine(k)
    BY <1>3, <1>6, <1>12
  <2>4. \A j \in Keys \ {k} : TurnLine(j)' = TurnLine(j) /\ TurnOwner(j)' = TurnOwner(j)
    BY <1>8, <1>12
  <2> QED
    BY <2>2, <2>3, <2>4 DEF Turns!Release
<1>13. CASE \A k \in Keys : /\ m \in WaitingUnder(k)' <=> m \in WaitingUnder(k)
                            /\ m \in ServedUnder(k)' <=> m \in ServedUnder(k)
  <2>1. \A k \in Keys : TurnLine(k)' = TurnLine(k) /\ TurnOwner(k)' = TurnOwner(k)
    BY <1>6, <1>7, <1>13
  <2> QED
    BY <2>1 DEF Turns!vars
<1>14. CASE \E k \in Keys : \/ m \in WaitingUnder(k) /\ m \notin WaitingUnder(k)'
                            \/ m \in ServedUnder(k)' /\ m \notin ServedUnder(k)
                            \/ m \in ServedUnder(k) /\ m \notin ServedUnder(k)'
  <2> PICK k \in Keys : \/ m \in WaitingUnder(k) /\ m \notin WaitingUnder(k)'
                        \/ m \in ServedUnder(k)' /\ m \notin ServedUnder(k)
                        \/ m \in ServedUnder(k) /\ m \notin ServedUnder(k)'
    BY <1>14
  <2>1. Turns!Quit(m, k) \/ Turns!Handover(m, k) \/ Turns!Release(m, k)
    BY <1>3, <1>10, <1>11, <1>12
  <2> QED
    BY <2>1 DEF Turns!Next
<1> QED
  BY <1>3, <1>13, <1>14

(* A captured message joins the end of the line.                           *)
LEMMA ArrivalRefines ==
  ASSUME IInv, OneServed, terminated = "no", NEW m \in Msgs, ArriveCaptured(m)
  PROVE  Turns!Next
<1>1. LinesPlaced
  BY LinesArePlaced
<1> PICK k \in Keys, seq \in Nat :
      /\ capture'[m].key = k /\ capture'[m].seq = seq
      /\ seq = SlotCount(k) + 1
      /\ \A j \in Keys : SlotCount(j)' = IF j = k THEN seq ELSE SlotCount(j)
  BY ArrivalOpens
<1>2. /\ capture[m] = NoCapture
      /\ capture'[m] # NoCapture
      /\ \A n \in Msgs \ {m} : capture'[n] = capture[n]
  <2>1. capture[m] = NoCapture
    BY DEF ArriveCaptured, IInv, NewUntouched
  <2>2. capture'[m] \in Capture /\ \A n \in Msgs \ {m} : capture'[n] = capture[n]
    BY ArrivalOpens
  <2> QED
    BY <2>1, <2>2, NoCaptureAssumption
<1>3. /\ outcome' = outcome /\ outcome[m] = "none"
      /\ pc' = [pc EXCEPT ![m] = "awaitTicket"] /\ pc \in [Msgs -> Phases]
  BY DEF ArriveCaptured, IInv, NewUntouched, TypeOK
<1>4. ASSUME NEW j \in Keys
      PROVE  /\ WaitingUnder(j)' = IF j = k THEN WaitingUnder(j) \cup {m} ELSE WaitingUnder(j)
             /\ ServedUnder(j)' = ServedUnder(j)
             /\ m \notin WaitingUnder(j)
             /\ m \notin ServedUnder(j)
             /\ WaitingUnder(j) \subseteq Msgs
  BY <1>2, <1>3 DEF WaitingUnder, ServedUnder, Serving, Unsettled
<1>5. ASSUME NEW j \in Keys PROVE TurnOwner(j)' = TurnOwner(j)
  <2>1. ServedUnder(j)' = ServedUnder(j)
    BY <1>4
  <2> QED
    BY <2>1 DEF TurnOwner
<1>6. ASSUME NEW j \in Keys \ {k} PROVE TurnLine(j)' = TurnLine(j)
  <2>1. WaitingUnder(j)' = WaitingUnder(j) /\ SlotCount(j)' = SlotCount(j)
    BY <1>4
  <2>2. \A n \in WaitingUnder(j) : capture'[n].seq = capture[n].seq
    BY <1>2, <1>4
  <2> QED
    BY <2>1, <2>2 DEF TurnLine
<1>7. TurnLine(k)' = Append(TurnLine(k), m)
  <2> DEFINE W == WaitingUnder(k)
             n == SlotCount(k)
             more == [u \in W \cup {m} |-> capture'[u].seq]
  <2>1. n \in Nat /\ Placed(W, Places(k), n)
    BY <1>1 DEF LinesPlaced
  <2>2. \A u \in W : more[u] = Places(k)[u] /\ u # m
    BY <1>2, <1>4 DEF Places
  <2>3. more[m] = n + 1
    OBVIOUS
  <2>4. TurnLine(k)' = ByPlace(more, n + 1)
    <3>1. WaitingUnder(k)' = W \cup {m} /\ SlotCount(k)' = n + 1
      BY <1>4
    <3> QED
      BY <3>1 DEF TurnLine
  <2>5. TurnLine(k) = ByPlace(Places(k), n)
    BY <1>1, TurnLineIs
  <2>6. m \notin W
    BY <1>4
  <2>7. DOMAIN more = W \cup {m} /\ more = [u \in W \cup {m} |-> more[u]]
    OBVIOUS
  <2> HIDE DEF W, n, more
  <2>8. more \in [W \cup {m} -> 1 .. n + 1]
    <3>1. \A u \in W : Places(k)[u] \in 1 .. n + 1
      BY <2>1 DEF Placed
    <3> QED
      BY <2>1, <2>2, <2>3, <2>7, <3>1
  <2>9. ByPlace(more, n + 1) = Append(ByPlace(Places(k), n), m)
    <3>1. JoinsLast(W, Places(k), n, m, more)
      BY <2>1, <2>2, <2>3, <2>6, <2>8 DEF JoinsLast
    <3> QED
      BY <2>1, <3>1, ByPlaceMore
  <2> QED
    BY <2>4, <2>5, <2>9
<1>8. Turns!Enqueue(m, k)
  <2>1. TurnOwner(k) # m
    BY <1>4, NoMsgAssumption DEF TurnOwner
  <2>2. ~Turns!InLine(m, k)
    <3>1. TurnLine(k) \in Seq(Msgs) /\ m \notin Members(TurnLine(k))
      BY <1>1, <1>4, TurnLineIs
    <3>2. DOMAIN TurnLine(k) = 1 .. Len(TurnLine(k))
      BY <3>1, LenProperties
    <3> QED
      BY <3>1, <3>2 DEF Turns!InLine, Members
  <2> QED
    BY <1>5, <1>6, <1>7, <2>1, <2>2 DEF Turns!Enqueue
<1> QED
  BY <1>8 DEF Turns!Next

(* The coordinator is not terminated.                                      *)
NeverTerminated == "terminate" \notin Faults

(* As long as the coordinator is not terminated, the turns of each key are *)
(* given out like a first-come first-served mutex: to one message at a     *)
(* time, in the order in which the messages were captured, whatever        *)
(* becomes of the runs and of the tasks.                                   *)
THEOREM TurnsImplemented ==
  ASSUME NeverTerminated
  PROVE  Spec => ImplementsTurns
<1> DEFINE Lives == terminated = "no"
<1>1. Init => Lives /\ Turns!Init
  <2> SUFFICES ASSUME Init PROVE Lives /\ Turns!Init
    OBVIOUS
  <2>1. ASSUME NEW k \in Keys PROVE TurnLine(k) = <<>> /\ TurnOwner(k) = NoMsg
    BY DEF Init, TurnLine, TurnOwner, WaitingUnder, ServedUnder, Unsettled, Serving
  <2> QED
    BY <2>1 DEF Init, Turns!Init
<1>2. IInv /\ Lives /\ [Next]_vars => Lives'
  <2>1. BeginTerminate => FALSE
    BY DEF NeverTerminated, BeginTerminate
  <2>2. EndTerminate => terminated # "no"
    BY DEF EndTerminate
  <2>3. ASSUME Next, ~Terminate PROVE UNCHANGED terminated
    BY <2>3, NextKeepsTerminated
  <2> QED
    BY <2>1, <2>2, <2>3 DEF vars, Terminate
<1>3. IInv /\ Lives => LinesPlaced /\ OneServed
  BY LinesArePlaced, OneIsServed
<1>4. /\ IInv /\ Lives /\ LinesPlaced /\ OneServed
      /\ Lives' /\ LinesPlaced' /\ OneServed'
      /\ [Next]_vars
      => [Turns!Next]_Turns!vars
  <2> SUFFICES ASSUME IInv, Lives, OneServed, Lives', LinesPlaced', OneServed', [Next]_vars
               PROVE  [Turns!Next]_Turns!vars
    OBVIOUS
  <2>1. CASE UNCHANGED vars
    <3>1. ASSUME NEW k \in Keys
          PROVE  WaitingUnder(k)' = WaitingUnder(k) /\ ServedUnder(k)' = ServedUnder(k)
      BY <2>1 DEF vars, WaitingUnder, ServedUnder, Unsettled, Serving
    <3>2. ASSUME NEW k \in Keys
          PROVE  TurnLine(k)' = TurnLine(k) /\ TurnOwner(k)' = TurnOwner(k)
      <4>1. SlotCount(k)' = SlotCount(k) /\ capture' = capture
        BY <2>1 DEF vars, SlotCount
      <4>2. TurnLine(k)' = TurnLine(k)
        BY <3>1, <4>1 DEF TurnLine
      <4>3. TurnOwner(k)' = TurnOwner(k)
        <5>1. ServedUnder(k)' = ServedUnder(k)
          BY <3>1
        <5> QED
          BY <5>1 DEF TurnOwner
      <4> QED
        BY <4>2, <4>3
    <3> QED
      BY <3>2 DEF Turns!vars
  <2>2. CASE Next
    <3>1. EndTerminate => FALSE
      BY <2>2, NextTerminates
    <3>2. ASSUME NEW m \in Msgs, ArriveCaptured(m) PROVE Turns!Next
      BY <3>2, ArrivalRefines
    <3>3. CASE UNCHANGED capture
      BY <2>2, <3>3, StepRefines
    <3> QED
      BY <2>2, <3>1, <3>2, <3>3, NextCaptures
  <2> QED
    BY <2>1, <2>2
<1> HIDE DEF Lives
<1> QED
  BY <1>1, <1>2, <1>3, <1>4, InductiveInvariance, PTL
     DEF Spec, ImplementsTurns, Turns!Spec
=============================================================================
