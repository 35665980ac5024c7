---------------------------- MODULE OutboundGate ----------------------------
(***************************************************************************)
(* group_sender_concurrency.py and the places that send through it.  In a  *)
(* group with sender-split locks several agent runs (concurrent turns) are *)
(* active at once.  GroupOutboundGate is to let one turn at a time speak:  *)
(* a turn takes the outbound lock of the group (UMO) with its first send   *)
(* and gives it back when it ends.                                         *)
(*                                                                         *)
(* One group is modelled.  A concurrent turn is known by its event, which  *)
(* also names its pipeline task; a run's tools send from tasks of their    *)
(* own, which inherit the turn with the context; other tasks of the group  *)
(* have no turn.  A task is known by its id(), which a later task may get. *)
(* The sections under _registry_lock do not suspend.                       *)
(***************************************************************************)
EXTENDS Naturals, Sequences, FiniteSets

CONSTANTS
  Events,     \* events with a concurrent turn, and their pipeline tasks
  Children,   \* tasks created inside a turn
  Others,     \* tasks that send to the group outside of any turn
  Umo,        \* the group
  Sends,      \* "guarded": through serialize_group_outbound,
              \* "direct": event.send() alone
  LateSends,  \* whether an event is sent to after its turn has ended
  Serial,     \* whether the tasks of a turn send one after the other
  Reuse,      \* whether a new task gets the id() of one that has ended
  MaxSends,   \* bound: messages per task
  NoTask

Tasks == Events \cup Children \cup Others

ASSUME DisjointAssumption ==
  /\ Events \cap Children = {}
  /\ Events \cap Others = {}
  /\ Children \cap Others = {}
ASSUME NoTaskAssumption == NoTask \notin Tasks
ASSUME NamesAssumption == {"no", "nested", "unborn", "ended"} \cap Tasks = {}
ASSUME MaxSendsAssumption == MaxSends \in Nat

VARIABLES
  phase,    \* phase[e]: before, in and after the turn of e
  home,     \* home[c]: the event whose turn child c has, while it runs
  reg,      \* reg[e]: _turn_umos and _turn_cms together: "no" entry, an
            \* entry without lock ("nested"), or the task whose acquire_lock
            \* is to be exited
  pending,  \* _pending_events
  depth,    \* depth[t]: _depth of task t
  act,      \* act[t]: what task t is suspended in
  next,     \* next[t]: what follows the hold_turn that t waits in
  sent,     \* sent[t]: messages task t has begun to send
  open,     \* turns that have posted a message and have not ended
  late,     \* events that were sent to after their turn
  line, owner

gateVars == <<reg, pending, depth, line, owner>>
vars == <<phase, home, reg, pending, depth, act, next, sent, open, late, line, owner>>

Mutex == INSTANCE SessionMutex WITH Slots <- {Umo}

TypeOK ==
  /\ phase \in [Events -> {"before", "turn", "after"}]
  /\ home \in [Children -> Events \cup {"unborn", "ended"}]
  /\ reg \in [Events -> {"no", "nested"} \cup Tasks]
  /\ pending \in SUBSET Events
  /\ depth \in [Tasks -> Nat]
  /\ act \in [Tasks -> {"idle", "holding", "around", "sending",
                      "sendingInside", "sendingAround"}]
  /\ next \in [Tasks -> {"idle", "sending"}]
  /\ sent \in [Tasks -> 0 .. MaxSends]
  /\ open \in SUBSET Events
  /\ late \in SUBSET Events
  /\ line \in [{Umo} -> Seq(Tasks)]
  /\ owner \in [{Umo} -> Tasks \cup {NoTask}]

Init ==
  /\ phase = [e \in Events |-> "before"]
  /\ home = [c \in Children |-> "unborn"]
  /\ reg = [e \in Events |-> "no"]
  /\ pending = {}
  /\ depth = [t \in Tasks |-> 0]
  /\ act = [t \in Tasks |-> "idle"]
  /\ next = [t \in Tasks |-> "idle"]
  /\ sent = [t \in Tasks |-> 0]
  /\ open = {}
  /\ late = {}
  /\ Mutex!Init

-----------------------------------------------------------------------------
(* What a task sees *)

EventOf(t) == IF t \in Children THEN home[t] ELSE t

(* current_concurrent_turn(): the pipeline task has it during its turn; a  *)
(* task created in the turn keeps its copy of the context to its end.      *)
HasTurn(t) ==
  \/ t \in Events /\ phase[t] = "turn"
  \/ t \in Children

(* The event carries the _group_outbound_gate extra, also after its turn.  *)
HasEvent(t) == t \notin Others

HasTurnHolder == \E e \in Events : reg[e] # "no"

Mates(t) == {u \in Tasks \ Others : u # t /\ EventOf(u) = EventOf(t)}

MaySend(t) ==
  /\ sent[t] < MaxSends
  /\ t \in Events => phase[t] = "turn" \/ (phase[t] = "after" /\ LateSends)
  /\ t \in Children => home[t] \in Events
  /\ Serial /\ HasEvent(t) => \A u \in Mates(t) : act[u] = "idle"

-----------------------------------------------------------------------------
(* hold_turn for the event of t, after which t goes on with what *)

(* Mutant: the registration is kept by group.                              *)
KnownByGroup(e) == HasTurnHolder \/ pending # {}

Known(e) == reg[e] # "no" \/ e \in pending

(* The event is registered, or another task of it is about to be.          *)
HoldKnown(t, what) ==
  /\ Known(EventOf(t))
  /\ act' = [act EXCEPT ![t] = what]
  /\ UNCHANGED <<gateVars, next>>

(* This task is inside the lock already.                                   *)
HoldNested(t, what) ==
  /\ ~Known(EventOf(t))
  /\ depth[t] > 0
  /\ depth' = [depth EXCEPT ![t] = @ + 1]
  /\ reg' = [reg EXCEPT ![EventOf(t)] = "nested"]
  /\ act' = [act EXCEPT ![t] = what]
  /\ UNCHANGED <<pending, line, owner, next>>

(* The event is reserved and the lock asked for.                           *)
HoldAsks(t, what) ==
  /\ ~Known(EventOf(t))
  /\ depth[t] = 0
  /\ pending' = pending \cup {EventOf(t)}
  /\ Mutex!Enqueue(t, Umo)
  /\ act' = [act EXCEPT ![t] = "holding"]
  /\ next' = [next EXCEPT ![t] = what]
  /\ UNCHANGED <<reg, depth>>

HoldTurn(t, what) ==
  HoldKnown(t, what) \/ HoldNested(t, what) \/ HoldAsks(t, what)

(* The lock is ours: the event is registered with it.                      *)
GainHold(t) ==
  /\ act[t] = "holding"
  /\ Mutex!Handover(t, Umo)
  /\ pending' = pending \ {EventOf(t)}
  /\ reg' = [reg EXCEPT ![EventOf(t)] = t]
  /\ depth' = [depth EXCEPT ![t] = 1]
  /\ act' = [act EXCEPT ![t] = next[t]]
  /\ UNCHANGED <<phase, home, next, sent, open, late>>

(* The task is cancelled while it waits: the reservation is withdrawn.     *)
CancelHold(t) ==
  /\ act[t] = "holding"
  /\ Mutex!Quit(t, Umo)
  /\ pending' = pending \ {EventOf(t)}
  /\ act' = [act EXCEPT ![t] = "idle"]
  /\ UNCHANGED <<phase, home, reg, depth, next, sent, open, late>>

-----------------------------------------------------------------------------
(* Sending *)

Sending(t) ==
  /\ act[t] = "idle"
  /\ MaySend(t)
  /\ sent' = [sent EXCEPT ![t] = @ + 1]
  /\ late' = IF HasEvent(t) /\ phase[EventOf(t)] = "after"
               THEN late \cup {EventOf(t)}
               ELSE late

(* event.send(): the adapter submits the message before it calls the base  *)
(* class, which is where the turn is taken.                                *)
SendDirect(t) ==
  /\ "direct" \in Sends
  /\ HasEvent(t)
  /\ Sending(t)
  /\ act' = [act EXCEPT ![t] = "sending"]
  /\ UNCHANGED <<phase, home, gateVars, next, open>>

(* serialize_group_outbound in a turn: the turn is taken first.            *)
SendInTurn(t) ==
  /\ "guarded" \in Sends
  /\ HasTurn(t)
  /\ Sending(t)
  /\ HoldTurn(t, "sending")
  /\ UNCHANGED <<phase, home, open>>

(* serialize_group_outbound outside a turn: wait for the lock only when a  *)
(* turn is seen to hold it.                                                *)
SendAround(t) ==
  /\ "guarded" \in Sends
  /\ ~HasTurn(t)
  /\ HasTurnHolder
  /\ Sending(t)
  /\ IF depth[t] > 0
       THEN /\ depth' = [depth EXCEPT ![t] = @ + 1]
            /\ act' = [act EXCEPT ![t] = "sendingInside"]
            /\ UNCHANGED <<line, owner>>
       ELSE /\ Mutex!Enqueue(t, Umo)
            /\ act' = [act EXCEPT ![t] = "around"]
            /\ UNCHANGED depth
  /\ UNCHANGED <<phase, home, reg, pending, next, open>>

SendUnseen(t) ==
  /\ "guarded" \in Sends
  /\ ~HasTurn(t)
  /\ ~HasTurnHolder
  /\ Sending(t)
  /\ act' = [act EXCEPT ![t] = "sending"]
  /\ UNCHANGED <<phase, home, gateVars, next, open>>

(* Mutant: the depth is not counted.                                       *)
GainAroundUncounted(t) ==
  /\ act[t] = "around"
  /\ Mutex!Handover(t, Umo)
  /\ act' = [act EXCEPT ![t] = "sendingAround"]
  /\ UNCHANGED <<phase, home, reg, pending, depth, next, sent, open, late>>

GainAround(t) ==
  /\ act[t] = "around"
  /\ Mutex!Handover(t, Umo)
  /\ depth' = [depth EXCEPT ![t] = @ + 1]
  /\ act' = [act EXCEPT ![t] = "sendingAround"]
  /\ UNCHANGED <<phase, home, reg, pending, next, sent, open, late>>

CancelAround(t) ==
  /\ act[t] = "around"
  /\ Mutex!Quit(t, Umo)
  /\ act' = [act EXCEPT ![t] = "idle"]
  /\ UNCHANGED <<phase, home, reg, pending, depth, next, sent, open, late>>

(* The message of t appears in the group.                                  *)
Posted(t) ==
  open' = IF HasEvent(t) /\ phase[EventOf(t)] = "turn"
            THEN open \cup {EventOf(t)}
            ELSE open

(* The platform call returns; the base class of the event takes the turn   *)
(* of the task, or else the gate that the event carries.                   *)
Post(t) ==
  /\ act[t] = "sending"
  /\ Posted(t)
  /\ IF HasEvent(t)
       THEN HoldTurn(t, "idle")
       ELSE /\ act' = [act EXCEPT ![t] = "idle"]
            /\ UNCHANGED <<gateVars, next>>
  /\ UNCHANGED <<phase, home, sent, late>>

(* The same under around_send, and its exit; an event that carries the     *)
(* gate is registered as nested in between, and keeps one level of depth.  *)
PostAround(t) ==
  LET nests == HasEvent(t) /\ ~Known(EventOf(t))
      left == depth[t] - (IF nests THEN 0 ELSE 1)
  IN /\ act[t] \in {"sendingAround", "sendingInside"}
     /\ Posted(t)
     /\ reg' = IF nests THEN [reg EXCEPT ![EventOf(t)] = "nested"] ELSE reg
     /\ depth' = [depth EXCEPT ![t] = left]
     /\ act' = [act EXCEPT ![t] = "idle"]
     /\ IF act[t] = "sendingAround"
          THEN Mutex!Release(t, Umo)
          ELSE UNCHANGED <<line, owner>>
     /\ UNCHANGED <<phase, home, pending, next, sent, late>>

-----------------------------------------------------------------------------
(* bind_concurrent_turn, and the tasks created inside of it *)

BeginTurn(e) ==
  /\ phase[e] = "before"
  /\ phase' = [phase EXCEPT ![e] = "turn"]
  /\ UNCHANGED <<home, gateVars, act, next, sent, open, late>>

(* A tool call creates a task, which runs with a copy of the context.      *)
ChildBegins(c, e) ==
  /\ phase[e] = "turn"
  /\ home[c] = "unborn" \/ (home[c] = "ended" /\ Reuse)
  /\ home' = [home EXCEPT ![c] = e]
  /\ UNCHANGED <<phase, gateVars, act, next, sent, open, late>>

(* The gate does not learn of it: the depth of the task stays.             *)
ChildEnds(c) ==
  /\ home[c] \in Events
  /\ act[c] = "idle"
  /\ home' = [home EXCEPT ![c] = "ended"]
  /\ UNCHANGED <<phase, gateVars, act, next, sent, open, late>>

(* Mutants: the lock, the registration are left as they are.               *)
ReleaseKeepsLock(e) ==
  reg' = [reg EXCEPT ![e] = "no"] /\ UNCHANGED <<depth, line, owner>>

ReleaseKeepsEntry(e) ==
  /\ depth' = IF reg[e] = "no" THEN depth
                ELSE [depth EXCEPT ![e] = IF @ > 1 THEN @ - 1 ELSE 0]
  /\ IF reg[e] \in Tasks /\ depth[e] <= 1
       THEN Mutex!Release(reg[e], Umo)
       ELSE UNCHANGED <<line, owner>>
  /\ UNCHANGED reg

(* release_turn, called by the pipeline task, whose depth it looks at.     *)
ReleaseTurn(e) ==
  /\ reg' = [reg EXCEPT ![e] = "no"]
  /\ depth' = IF reg[e] = "no" THEN depth
                ELSE [depth EXCEPT ![e] = IF @ > 1 THEN @ - 1 ELSE 0]
  /\ IF reg[e] \in Tasks /\ depth[e] <= 1
       THEN Mutex!Release(reg[e], Umo)
       ELSE UNCHANGED <<line, owner>>

(* Without late sends, the tasks of the turn have ended before.            *)
EndTurn(e) ==
  /\ phase[e] = "turn"
  /\ act[e] = "idle"
  /\ LateSends \/ \A c \in Children : home[c] # e
  /\ phase' = [phase EXCEPT ![e] = "after"]
  /\ ReleaseTurn(e)
  /\ open' = open \ {e}
  /\ late' = IF \A u \in Mates(e) : act[u] = "idle" THEN late ELSE late \cup {e}
  /\ UNCHANGED <<home, pending, act, next, sent>>

-----------------------------------------------------------------------------

Send(t) == SendDirect(t) \/ SendInTurn(t) \/ SendAround(t) \/ SendUnseen(t)
Continue(t) == GainHold(t) \/ GainAround(t) \/ Post(t) \/ PostAround(t)
CancelWait(t) == CancelHold(t) \/ CancelAround(t)

Next ==
  \/ \E t \in Tasks : Send(t) \/ Continue(t) \/ CancelWait(t)
  \/ \E e \in Events : BeginTurn(e) \/ EndTurn(e)
  \/ \E c \in Children : ChildEnds(c) \/ \E e \in Events : ChildBegins(c, e)

Spec == Init /\ [][Next]_vars

(* Ready tasks run, platform calls return, and tool calls and agent runs   *)
(* end; nobody has to send, to start a turn or to cancel.                  *)
Fairness ==
  /\ \A t \in Tasks : WF_vars(Continue(t))
  /\ \A e \in Events : SF_vars(EndTurn(e))
  /\ \A c \in Children : SF_vars(ChildEnds(c))

FairSpec == Spec /\ Fairness

-----------------------------------------------------------------------------
(* Properties *)

(* While one turn is speaking, from its first message to its end, no       *)
(* message of another turn appears in the group (architecture.md: "A whole *)
(* turn still sends one-at-a-time per group UMO").                         *)
OneTurnSpeaks == \A e, f \in open : e = f

(* The outbound lock is taken for one message around the turns, or by a    *)
(* turn that has not ended (GroupOutboundGate: "holds the UMO lock from its *)
(* first real send until release_turn").                                   *)
HeldInTurn ==
  owner[Umo] # NoTask =>
    \/ act[owner[Umo]] = "sendingAround"
    \/ \E e \in Events : reg[e] = owner[Umo] /\ phase[e] = "turn"

(* A turn leaves nothing behind, unless its event is sent to later: it is  *)
(* not registered any more, and no depth stays with which its pipeline     *)
(* task, or a task outside of the turns, would send past the lock.  The    *)
(* depth of a task created inside a turn may stay.                         *)
TurnLeavesNothing ==
  /\ \A e \in Events \ late : phase[e] = "after" => reg[e] = "no"
  /\ \A t \in Tasks \ (Children \cup late) : depth[t] > 0 => owner[Umo] = t

(* The outbound lock is never given back for somebody else: whatever is    *)
(* registered is really held.  And it is never orphaned, but by late       *)
(* sends: whoever has it is in the middle of one message around the turns, *)
(* or is registered with an event that is in its turn or was sent to after *)
(* its turn.                                                               *)
LockAccounted ==
  /\ \A e \in Events : reg[e] \in Tasks => owner[Umo] = reg[e]
  /\ owner[Umo] # NoTask =>
       \/ act[owner[Umo]] = "sendingAround"
       \/ \E e \in Events : reg[e] = owner[Umo] /\ (phase[e] = "turn" \/ e \in late)

(* Whoever waits for the outbound lock gets it or is cancelled.            *)
WaitEnds ==
  \A t \in Tasks : act[t] \in {"holding", "around"} ~> act[t] \notin {"holding", "around"}
=============================================================================
