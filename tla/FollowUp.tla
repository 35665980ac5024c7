------------------------------ MODULE FollowUp ------------------------------
(***************************************************************************)
(* agent/follow_up.py, with the agent runner that hands out the tickets    *)
(* and the pipeline stage that calls both: a message that arrives while    *)
(* an agent run of the same sender is active is captured.  Either the run  *)
(* consumes it with its next tool result, or, when the run ends first, the *)
(* message is processed on its own, one at a time and in arrival order.    *)
(*                                                                         *)
(* One conversation (UMO) is modelled: two conversations share no table    *)
(* entry, no runner and no lock.  Each message has a pipeline task of its  *)
(* own, and the run it starts is known by the message.  One step is what a *)
(* task does between two suspensions; a critical section under an order    *)
(* state's condition suspends only in condition.wait().                    *)
(***************************************************************************)
EXTENDS WaitQueue, FiniteSets

CONSTANTS
  Msgs,      \* the messages, and the tasks and runs they start
  Senders,   \* who writes in the conversation
  SenderOf,  \* SenderOf[m]: the sender of message m
  Split,     \* the messages that run under sender-split keys
  Umo,       \* the key of the whole conversation
  Faults,    \* which of "crash", "cancel", "cancel in typing" and
             \* "terminate" happen
  NoMsg, NoOrder, NoCapture

Keys == Senders \cup {Umo}
SlotStatus == {"pending", "active", "consumed", "finished", "gone"}
OrderState == [slots : Seq(SlotStatus), turn : Nat]
Capture == [key : Keys, seq : Nat, target : Msgs]

ASSUME SenderOfAssumption == SenderOf \in [Msgs -> Senders]
ASSUME SplitAssumption == Split \subseteq Msgs
ASSUME UmoAssumption == Umo \notin Senders
ASSUME NoMsgAssumption == NoMsg \notin Msgs
ASSUME NoOrderAssumption == NoOrder \notin OrderState
ASSUME NoCaptureAssumption == NoCapture \notin Capture

VARIABLES
  \* FollowUpCoordinator
  activeRunner,  \* _active_runners
  order,         \* _order_states: a dict from 1, 2, ... to a status, popped
                 \* entries "gone", and the sequence whose turn it is
  pendingTickets,\* _pending_tickets
  monitor,       \* monitor[m]: the monitor task of m's capture
  terminated,    \* "no", "closing" (_terminated is set), "closed" (all done)
  \* the tickets and the runner that owns them
  queued,        \* tickets in the _pending_follow_ups of their runner
  resolved,      \* tickets whose event is set
  consumed,      \* tickets with consumed = True
  runner,        \* runner[m]: state of the run of message m
  stopping,      \* runs asked to stop
  \* the pipeline stage
  pc,            \* pc[m]: where m's task is in process()
  capture,       \* capture[m]: its FollowUpCapture
  outcome,       \* follow_up_activated and follow_up_consumed_marked
  line, owner    \* the session locks, see SessionMutex

coordinatorVars == <<activeRunner, order, pendingTickets, monitor, terminated>>
ticketVars == <<queued, resolved, consumed>>
runnerVars == <<runner, stopping>>
lockVars == <<line, owner>>
vars == <<activeRunner, order, pendingTickets, monitor, terminated, queued,
          resolved, consumed, runner, stopping, pc, capture, outcome,
          line, owner>>

(* The session lock, through what it promises (see SessionLock).           *)
Mutex == INSTANCE SessionMutex WITH Tasks <- Msgs, Slots <- Keys, NoTask <- NoMsg

Phases == {"new", "awaitTicket", "awaitTurn", "entering", "waitLock",
           "running", "leaving", "finalizing", "done"}

TypeOK ==
  /\ activeRunner \in [Keys -> Msgs \cup {NoMsg}]
  /\ order \in [Keys -> OrderState \cup {NoOrder}]
  /\ \A k \in Keys : order[k] # NoOrder =>
                       order[k].turn \in 1 .. Len(order[k].slots) + 1
  /\ pendingTickets \in SUBSET Msgs
  /\ monitor \in [Msgs -> {"none", "waiting", "cancelled", "done"}]
  /\ terminated \in {"no", "closing", "closed"}
  /\ queued \in SUBSET Msgs
  /\ resolved \in SUBSET Msgs
  /\ consumed \in SUBSET Msgs
  /\ runner \in [Msgs -> {"none", "live", "done", "over", "broken"}]
  /\ stopping \in SUBSET Msgs
  /\ pc \in [Msgs -> Phases]
  /\ capture \in [Msgs -> Capture \cup {NoCapture}]
  /\ outcome \in [Msgs -> {"none", "activated", "marked"}]
  /\ line \in [Keys -> Seq(Msgs)]
  /\ owner \in [Keys -> Msgs \cup {NoMsg}]

Init ==
  /\ activeRunner = [k \in Keys |-> NoMsg]
  /\ order = [k \in Keys |-> NoOrder]
  /\ pendingTickets = {}
  /\ monitor = [m \in Msgs |-> "none"]
  /\ terminated = "no"
  /\ queued = {}
  /\ resolved = {}
  /\ consumed = {}
  /\ runner = [m \in Msgs |-> "none"]
  /\ stopping = {}
  /\ pc = [m \in Msgs |-> "new"]
  /\ capture = [m \in Msgs |-> NoCapture]
  /\ outcome = [m \in Msgs |-> "none"]
  /\ Mutex!Init

-----------------------------------------------------------------------------
(* Order states *)

Settled == {"consumed", "finished"}

(* The first sequence from the current turn on that is not settled.        *)
IsNextOpen(o, n) ==
  /\ n \in o.turn .. Len(o.slots) + 1
  /\ \A i \in o.turn .. n - 1 : o.slots[i] \in Settled
  /\ n \in DOMAIN o.slots => o.slots[n] \notin Settled

(* Mutant: one sequence too far.                                           *)
NextOpenSkips(o) ==
  1 + CHOOSE n \in o.turn .. Len(o.slots) + 1 : IsNextOpen(o, n)

NextOpen(o) ==
  CHOOSE n \in o.turn .. Len(o.slots) + 1 : IsNextOpen(o, n)

(* _advance_turn_locked: settled entries are popped from the turn on.      *)
Advance(o) ==
  LET n == NextOpen(o)
  IN [slots |-> [i \in DOMAIN o.slots |->
                   IF i \in o.turn .. n - 1 THEN "gone" ELSE o.slots[i]],
      turn  |-> n]

Idle(o) == \A i \in DOMAIN o.slots : o.slots[i] = "gone"

(* Mutant: the state is kept.                                              *)
ReleasedNever(o, runnerOfKey) == o

(* _release_order_state_if_idle                                            *)
Released(o, runnerOfKey) ==
  IF runnerOfKey = NoMsg /\ o # NoOrder /\ Idle(o) THEN NoOrder ELSE o

(* A status is set only where the sequence is still in the dict.           *)
SetSlot(o, seq, status) ==
  IF seq \in DOMAIN o.slots /\ o.slots[seq] # "gone"
    THEN [o EXCEPT !.slots[seq] = status]
    ELSE o

(* _mark_consumed and _finish                                              *)
Settle(k, seq, status) ==
  order' = IF order[k] = NoOrder
             THEN order
             ELSE [order EXCEPT ![k] =
                     Released(Advance(SetSlot(@, seq, status)), activeRunner[k])]

MarkConsumed(k, seq) ==
  IF /\ order[k] # NoOrder
     /\ seq \in DOMAIN order[k].slots
     /\ order[k].slots[seq] = "finished"
    THEN Settle(k, seq, "finished")
    ELSE Settle(k, seq, "consumed")

(* _allocate_order, the state created when there is none                   *)
Allocated(o) ==
  IF o = NoOrder
    THEN [slots |-> <<"pending">>, turn |-> 1]
    ELSE [o EXCEPT !.slots = Append(@, "pending")]

-----------------------------------------------------------------------------
(* A message arrives: process() up to its first suspension *)

RunKey(m) == IF m \in Split THEN SenderOf[m] ELSE Umo

(* The runner of the sender's own key, or else of the whole conversation.  *)
CaptureKey(m) ==
  IF activeRunner[SenderOf[m]] # NoMsg THEN SenderOf[m] ELSE Umo

(* try_capture succeeds: same sender, the run neither stopped nor done.    *)
Capturable(m) ==
  LET r == activeRunner[CaptureKey(m)]
  IN /\ r # NoMsg
     /\ SenderOf[r] = SenderOf[m]
     /\ r \notin stopping
     /\ runner[r] \in {"live", "broken"}

ArriveCaptured(m) ==
  /\ pc[m] = "new"
  /\ Capturable(m)
  /\ LET k == CaptureKey(m)
     IN /\ capture' = [capture EXCEPT ![m] =
                         [key |-> k, seq |-> Len(Allocated(order[k]).slots),
                          target |-> activeRunner[k]]]
        /\ order' = [order EXCEPT ![k] = Allocated(@)]
  /\ queued' = queued \cup {m}
  /\ pendingTickets' = pendingTickets \cup {m}
  /\ monitor' = [monitor EXCEPT ![m] = "waiting"]
  /\ pc' = [pc EXCEPT ![m] = "awaitTicket"]
  /\ UNCHANGED <<activeRunner, terminated, resolved, consumed, runnerVars,
                 outcome, lockVars>>

ArriveAlone(m) ==
  /\ pc[m] = "new"
  /\ ~Capturable(m)
  /\ pc' = [pc EXCEPT ![m] = "entering"]
  /\ UNCHANGED <<coordinatorVars, ticketVars, runnerVars, capture, outcome,
                 lockVars>>

-----------------------------------------------------------------------------
(* finalize_capture *)

(* Mutant: a capture that was activated is taken for settled.              *)
SettleUnlessActivated(m) ==
  IF capture[m] = NoCapture \/ outcome[m] # "none"
    THEN UNCHANGED order
    ELSE MarkConsumed(capture[m].key, capture[m].seq)

(* Its last part, once the monitor has ended.                              *)
SettleCapture(m) ==
  IF capture[m] = NoCapture \/ outcome[m] = "marked"
    THEN UNCHANGED order
    ELSE IF outcome[m] = "activated"
      THEN Settle(capture[m].key, capture[m].seq, "finished")
      ELSE MarkConsumed(capture[m].key, capture[m].seq)

(* Its first part: a monitor that still waits is cancelled and awaited.    *)
MonitorOpen(m) == monitor[m] \in {"waiting", "cancelled"}

BeginFinalize(m) ==
  /\ monitor' = [monitor EXCEPT ![m] = IF MonitorOpen(m) THEN "cancelled" ELSE @]
  /\ pc' = [pc EXCEPT ![m] = IF MonitorOpen(m) THEN "finalizing" ELSE "done"]

(* finalize_capture as far as it gets without waiting.                     *)
Finalize(m) ==
  /\ BeginFinalize(m)
  /\ IF MonitorOpen(m) THEN UNCHANGED order ELSE SettleCapture(m)

(* finalize_capture resumes when the monitor it cancelled has ended.       *)
EndFinalize(m) ==
  /\ pc[m] = "finalizing"
  /\ ~MonitorOpen(m)
  /\ SettleCapture(m)
  /\ pc' = [pc EXCEPT ![m] = "done"]
  /\ UNCHANGED <<activeRunner, pendingTickets, monitor, terminated, ticketVars,
                 runnerVars, capture, outcome, lockVars>>

-----------------------------------------------------------------------------
(* prepare_capture *)

(* The coordinator was terminated: (True, False), and process() returns.   *)
PrepareTerminated(m) ==
  /\ pc[m] = "awaitTicket"
  /\ m \in resolved
  /\ terminated # "no"
  /\ pendingTickets' = pendingTickets \ {m}
  /\ outcome' = [outcome EXCEPT ![m] = "marked"]
  /\ BeginFinalize(m)
  /\ UNCHANGED <<activeRunner, order, terminated, ticketVars, runnerVars,
                 capture, lockVars>>

(* The run took the message: its place in the order is given up, and       *)
(* process() returns and finalizes without another suspension.             *)
PrepareConsumed(m) ==
  /\ pc[m] = "awaitTicket"
  /\ m \in resolved
  /\ terminated = "no"
  /\ m \in consumed
  /\ pendingTickets' = pendingTickets \ {m}
  /\ MarkConsumed(capture[m].key, capture[m].seq)
  /\ outcome' = [outcome EXCEPT ![m] = "marked"]
  /\ BeginFinalize(m)
  /\ UNCHANGED <<activeRunner, terminated, ticketVars, runnerVars, capture,
                 lockVars>>

(* _activate_and_wait up to its wait; the turn may be ours at once.        *)
PrepareActivate(m) ==
  /\ pc[m] = "awaitTicket"
  /\ m \in resolved
  /\ terminated = "no"
  /\ m \notin consumed
  /\ pendingTickets' = pendingTickets \ {m}
  /\ LET k == capture[m].key
         seq == capture[m].seq
         atOnce == order[k] = NoOrder \/ order[k].turn = seq
     IN /\ order' = IF order[k] = NoOrder
                      THEN order
                      ELSE [order EXCEPT ![k] = SetSlot(@, seq, "active")]
        /\ outcome' = IF atOnce THEN [outcome EXCEPT ![m] = "activated"]
                                ELSE outcome
        /\ pc' = [pc EXCEPT ![m] = IF atOnce THEN "entering" ELSE "awaitTurn"]
  /\ UNCHANGED <<activeRunner, monitor, terminated, ticketVars, runnerVars,
                 capture, lockVars>>

(* Mutant: the comparison is the wrong way round.                          *)
TurnNear(m) ==
  /\ order[capture[m].key] # NoOrder
  /\ order[capture[m].key].turn <= capture[m].seq

(* condition.wait() returns: our turn came.                                *)
TurnCame(m) ==
  /\ order[capture[m].key] # NoOrder
  /\ order[capture[m].key].turn = capture[m].seq

TakeTurn(m) ==
  /\ pc[m] = "awaitTurn"
  /\ TurnCame(m)
  /\ terminated = "no"
  /\ outcome' = [outcome EXCEPT ![m] = "activated"]
  /\ pc' = [pc EXCEPT ![m] = "entering"]
  /\ UNCHANGED <<coordinatorVars, ticketVars, runnerVars, capture, lockVars>>

(* Mutant: terminate does not notify the condition.                        *)
TurnTerminatedUnnotified(m) ==
  /\ pc[m] = "awaitTurn"
  /\ terminated # "no"
  /\ TurnCame(m)
  /\ outcome' = [outcome EXCEPT ![m] = "marked"]
  /\ BeginFinalize(m)
  /\ UNCHANGED <<activeRunner, order, pendingTickets, terminated, ticketVars,
                 runnerVars, capture, lockVars>>

(* condition.wait() returns on a terminated coordinator, by the turn or by *)
(* the closing of the state: the message is dropped.                       *)
TurnTerminated(m) ==
  /\ pc[m] = "awaitTurn"
  /\ terminated # "no"
  /\ terminated = "closed" \/ TurnCame(m)
  /\ outcome' = [outcome EXCEPT ![m] = "marked"]
  /\ BeginFinalize(m)
  /\ UNCHANGED <<activeRunner, order, pendingTickets, terminated, ticketVars,
                 runnerVars, capture, lockVars>>

(* Mutant: the monitor does not wait for the event.                        *)
MonitorWakeEarly(m) ==
  /\ monitor[m] = "waiting"
  /\ monitor' = [monitor EXCEPT ![m] = "done"]
  /\ pendingTickets' = pendingTickets \ {m}
  /\ UNCHANGED <<activeRunner, order, terminated, ticketVars, runnerVars, pc,
                 capture, outcome, lockVars>>

(* The monitor wakes after the task in prepare_capture, which began to     *)
(* wait for the same event first; a cancelled task does not count.         *)
MonitorWake(m) ==
  /\ monitor[m] = "waiting"
  /\ m \in resolved
  /\ pc[m] # "awaitTicket"
  /\ monitor' = [monitor EXCEPT ![m] = "done"]
  /\ pendingTickets' = pendingTickets \ {m}
  /\ IF m \in consumed
       THEN MarkConsumed(capture[m].key, capture[m].seq)
       ELSE UNCHANGED order
  /\ UNCHANGED <<activeRunner, terminated, ticketVars, runnerVars, pc, capture,
                 outcome, lockVars>>

MonitorCancelled(m) ==
  /\ monitor[m] = "cancelled"
  /\ monitor' = [monitor EXCEPT ![m] = "done"]
  /\ pendingTickets' = pendingTickets \ {m}
  /\ UNCHANGED <<activeRunner, order, terminated, ticketVars, runnerVars, pc,
                 capture, outcome, lockVars>>

-----------------------------------------------------------------------------
(* process() after the capture: typing, hooks, the session lock, the run *)

RequestLock(m) ==
  /\ pc[m] = "entering"
  /\ Mutex!Enqueue(m, RunKey(m))
  /\ pc' = [pc EXCEPT ![m] = "waitLock"]
  /\ UNCHANGED <<coordinatorVars, ticketVars, runnerVars, capture, outcome>>

(* A plugin's waiting hook stops the event before the lock is asked for.   *)
HookStops(m) ==
  /\ pc[m] = "entering"
  /\ pc' = [pc EXCEPT ![m] = "leaving"]
  /\ UNCHANGED <<coordinatorVars, ticketVars, runnerVars, capture, outcome,
                 lockVars>>

(* The lock is ours, the runner is built and registered.                   *)
StartRun(m) ==
  /\ pc[m] = "waitLock"
  /\ Mutex!Handover(m, RunKey(m))
  /\ activeRunner' = [activeRunner EXCEPT ![RunKey(m)] = m]
  /\ runner' = [runner EXCEPT ![m] = "live"]
  /\ pc' = [pc EXCEPT ![m] = "running"]
  /\ UNCHANGED <<order, pendingTickets, monitor, terminated, ticketVars,
                 stopping, capture, outcome>>

(* The lock is ours but the LLM is disabled, the runner cannot be built or *)
(* a hook stops the request: the lock is given back without a run.         *)
StartFails(m) ==
  /\ pc[m] = "waitLock"
  /\ owner[RunKey(m)] = NoMsg
  /\ Head(line[RunKey(m)]) = m
  /\ Mutex!Quit(m, RunKey(m))
  /\ pc' = [pc EXCEPT ![m] = "leaving"]
  /\ UNCHANGED <<coordinatorVars, ticketVars, runnerVars, capture, outcome>>

(* The tickets in the runner's own list.                                   *)
Waiting(r) == {m \in queued : capture[m].target = r}

(* _consume_follow_up_notice: a tool result takes every waiting message.   *)
ToolResult(r) ==
  /\ runner[r] = "live"
  /\ Waiting(r) # {}
  /\ consumed' = consumed \cup Waiting(r)
  /\ resolved' = resolved \cup Waiting(r)
  /\ queued' = queued \ Waiting(r)
  /\ UNCHANGED <<coordinatorVars, runnerVars, pc, capture, outcome, lockVars>>

RequestStop(r) ==
  /\ runner[r] = "live"
  /\ r \notin stopping
  /\ stopping' = stopping \cup {r}
  /\ UNCHANGED <<coordinatorVars, ticketVars, runner, pc, capture, outcome,
                 lockVars>>

(* The final answer or an honoured stop: DONE, then the on_agent_done hook *)
(* is awaited with the follow-ups still unresolved.                        *)
Complete(r) ==
  /\ runner[r] = "live"
  /\ runner' = [runner EXCEPT ![r] = "done"]
  /\ UNCHANGED <<coordinatorVars, ticketVars, stopping, pc, capture, outcome,
                 lockVars>>

(* _resolve_unconsumed_follow_ups, after the hook.                         *)
ResolveRest(r) ==
  /\ runner[r] = "done"
  /\ resolved' = resolved \cup Waiting(r)
  /\ queued' = queued \ Waiting(r)
  /\ runner' = [runner EXCEPT ![r] = "over"]
  /\ UNCHANGED <<coordinatorVars, consumed, stopping, pc, capture, outcome,
                 lockVars>>

(* Mutant: the error is retried, the list of follow-ups is not emptied.    *)
ErrorAnswerRetried(r) ==
  /\ runner[r] = "live"
  /\ resolved' = resolved \cup Waiting(r)
  /\ UNCHANGED <<coordinatorVars, queued, consumed, runnerVars, pc, capture,
                 outcome, lockVars>>

(* An error answer of the model: ERROR and the resolution in one step.     *)
ErrorAnswer(r) ==
  /\ runner[r] = "live"
  /\ resolved' = resolved \cup Waiting(r)
  /\ queued' = queued \ Waiting(r)
  /\ runner' = [runner EXCEPT ![r] = "over"]
  /\ UNCHANGED <<coordinatorVars, consumed, stopping, pc, capture, outcome,
                 lockVars>>

(* step() or the delivery of its output raises, or the step limit ends the *)
(* run before it is done: nothing more is resolved, and until the run is   *)
(* unregistered it does not look done.                                     *)
RunBreaks(r) ==
  /\ "crash" \in Faults
  /\ runner[r] = "live"
  /\ runner' = [runner EXCEPT ![r] = "broken"]
  /\ UNCHANGED <<coordinatorVars, ticketVars, stopping, pc, capture, outcome,
                 lockVars>>

(* unregister_active_runner and the release of the session lock.           *)
Unregistered(m) ==
  LET k == RunKey(m)
  IN /\ activeRunner' = IF activeRunner[k] = m
                          THEN [activeRunner EXCEPT ![k] = NoMsg]
                          ELSE activeRunner
     /\ order' = [order EXCEPT ![k] = Released(@, activeRunner'[k])]
     /\ Mutex!Release(m, k)

EndRun(m) ==
  /\ pc[m] = "running"
  /\ runner[m] \in {"over", "broken"}
  /\ Unregistered(m)
  /\ pc' = [pc EXCEPT ![m] = "leaving"]
  /\ UNCHANGED <<pendingTickets, monitor, terminated, ticketVars, runnerVars,
                 capture, outcome>>

(* stop_typing has returned; finalize_capture.                             *)
Leave(m) ==
  /\ pc[m] = "leaving"
  /\ Finalize(m)
  /\ UNCHANGED <<activeRunner, pendingTickets, terminated, ticketVars,
                 runnerVars, capture, outcome, lockVars>>

-----------------------------------------------------------------------------
(* Cancellation of a message's task, wherever it is suspended *)

(* In prepare_capture: the locals say neither activated nor marked.        *)
CancelCaptured(m) ==
  /\ "cancel" \in Faults
  /\ pc[m] \in {"awaitTicket", "awaitTurn"}
  /\ Finalize(m)
  /\ UNCHANGED <<activeRunner, pendingTickets, terminated, ticketVars,
                 runnerVars, capture, outcome, lockVars>>

CancelEntering(m) ==
  /\ "cancel" \in Faults
  /\ \/ pc[m] = "entering" /\ UNCHANGED lockVars
     \/ pc[m] = "waitLock" /\ Mutex!Quit(m, RunKey(m))
  /\ pc' = [pc EXCEPT ![m] = "leaving"]
  /\ UNCHANGED <<coordinatorVars, ticketVars, runnerVars, capture, outcome>>

(* In the run: the runner is left as it is and resolves nothing more.      *)
CancelRun(m) ==
  /\ "cancel" \in Faults
  /\ pc[m] = "running"
  /\ runner' = [runner EXCEPT ![m] = "broken"]
  /\ Unregistered(m)
  /\ pc' = [pc EXCEPT ![m] = "leaving"]
  /\ UNCHANGED <<pendingTickets, monitor, terminated, ticketVars, stopping,
                 capture, outcome>>

(* In stop_typing: `except Exception' lets the cancellation through and    *)
(* finalize_capture is never called.                                       *)
CancelLeaving(m) ==
  /\ "cancel in typing" \in Faults
  /\ pc[m] = "leaving"
  /\ pc' = [pc EXCEPT ![m] = "done"]
  /\ UNCHANGED <<coordinatorVars, ticketVars, runnerVars, capture, outcome,
                 lockVars>>

-----------------------------------------------------------------------------
(* terminate *)

BeginTerminate ==
  /\ "terminate" \in Faults
  /\ terminated = "no"
  /\ terminated' = "closing"
  /\ resolved' = resolved \cup pendingTickets
  /\ pendingTickets' = {}
  /\ monitor' = [m \in Msgs |-> IF monitor[m] = "waiting" THEN "cancelled"
                                                          ELSE monitor[m]]
  /\ UNCHANGED <<activeRunner, order, queued, consumed, runnerVars, pc, capture,
                 outcome, lockVars>>

(* The cancelled monitors have ended.                                      *)
EndTerminate ==
  /\ terminated = "closing"
  /\ \A m \in Msgs : monitor[m] # "cancelled"
  /\ terminated' = "closed"
  /\ activeRunner' = [k \in Keys |-> NoMsg]
  /\ order' = [k \in Keys |-> NoOrder]
  /\ UNCHANGED <<pendingTickets, monitor, ticketVars, runnerVars, pc, capture,
                 outcome, lockVars>>

Terminate == BeginTerminate \/ EndTerminate

-----------------------------------------------------------------------------

Arrive(m) == ArriveCaptured(m) \/ ArriveAlone(m)
Prepare(m) ==
  \/ PrepareTerminated(m)
  \/ PrepareConsumed(m)
  \/ PrepareActivate(m)
  \/ TakeTurn(m)
  \/ TurnTerminated(m)
Monitor(m) == MonitorWake(m) \/ MonitorCancelled(m)
Proceed(m) ==
  \/ RequestLock(m)
  \/ HookStops(m)
  \/ StartRun(m)
  \/ StartFails(m)
  \/ EndRun(m)
  \/ Leave(m)
  \/ EndFinalize(m)
Run(r) ==
  \/ ToolResult(r)
  \/ Complete(r)
  \/ ResolveRest(r)
  \/ ErrorAnswer(r)
  \/ RunBreaks(r)
Cancel(m) ==
  \/ CancelCaptured(m)
  \/ CancelEntering(m)
  \/ CancelRun(m)
  \/ CancelLeaving(m)

Next ==
  \/ \E m \in Msgs : \/ Arrive(m)
                     \/ Prepare(m)
                     \/ Monitor(m)
                     \/ Proceed(m)
                     \/ Run(m)
                     \/ RequestStop(m)
                     \/ Cancel(m)
  \/ Terminate

Spec == Init /\ [][Next]_vars

(* The event loop runs every ready task, a run ends (the step limit bounds *)
(* it) and a hook or stop_typing returns.  Nobody has to send a message,   *)
(* to stop a run, to cancel a task or to terminate the coordinator; a      *)
(* termination that has begun goes on.                                     *)
Fairness ==
  /\ \A m \in Msgs : /\ WF_vars(Prepare(m))
                     /\ WF_vars(Monitor(m))
                     /\ WF_vars(Proceed(m))
                     /\ WF_vars(Complete(m) \/ ErrorAnswer(m) \/ RunBreaks(m))
                     /\ WF_vars(ResolveRest(m))
  /\ WF_vars(EndTerminate)

FairSpec == Spec /\ Fairness

-----------------------------------------------------------------------------
(* Properties *)

(* m was handed its turn and its task has not ended.                       *)
Serving(m) == outcome[m] = "activated" /\ pc[m] # "done"

(* m was captured and still holds a place in the order.                    *)
Unsettled(m) ==
  capture[m] # NoCapture /\ outcome[m] # "marked" /\ pc[m] # "done"

(* A captured message is processed on its own only after every message     *)
(* captured before it under the same key was consumed by the run, was      *)
(* processed to its end or was cancelled: follow-ups keep their order, and *)
(* no two of them are processed at once (_activate_and_wait).              *)
InOrder ==
  terminated = "no" =>
    \A m, n \in Msgs :
      Serving(m) /\ Unsettled(n) /\ m # n /\ capture[m].key = capture[n].key
        => capture[m].seq < capture[n].seq

(* A follow-up is answered in one way: what a tool result handed to the    *)
(* model is not processed again on its own, and what is dropped as already *)
(* consumed was really consumed, unless the coordinator was terminated.    *)
AnsweredOnce ==
  \A m \in Msgs :
    /\ outcome[m] = "activated" => m \notin consumed
    /\ outcome[m] = "marked" /\ terminated = "no" => m \in consumed

(* terminate finds every message that still waits for its ticket, also     *)
(* when monitors were cancelled or captures abandoned around it.           *)
WaitersKnown ==
  \A m \in Msgs :
    pc[m] = "awaitTicket" /\ m \notin resolved => m \in pendingTickets

(* An order state whose captures have all settled goes away with the last  *)
(* of them or with the run, whichever is later (_release_order_state_if_   *)
(* idle): a long-lived coordinator keeps no entry for an idle conversation.*)
IdleStateReleased ==
  \A k \in Keys :
    order[k] # NoOrder /\ Idle(order[k]) => activeRunner[k] # NoMsg

(* The places of an order that somebody still has to give up.              *)
Open(o) ==
  IF o = NoOrder
    THEN {}
    ELSE {i \in 1 .. Len(o.slots) : o.slots[i] \in {"pending", "active"}}

(* Every open place of an order belongs to a task that will give it up: a  *)
(* finished or cancelled capture never blocks the ones after it            *)
(* (finalize_capture: "Release all state retained for a completed or       *)
(* abandoned capture").                                                    *)
PlacesOwned ==
  terminated = "no" =>
    \A k \in Keys : \A i \in Open(order[k]) :
      \E m \in Msgs : Unsettled(m) /\ capture[m].key = k /\ capture[m].seq = i

(* Every message that arrives is eventually done with: its ticket is       *)
(* resolved, its turn comes, it gets the session lock.                     *)
EveryMessageEnds == \A m \in Msgs : pc[m] # "new" ~> pc[m] = "done"

(* The same as long as no run breaks: whatever is cancelled, a message only *)
(* waits for ever behind a run that ended without resolving its tickets.   *)
EndsUnlessRunBreaks ==
  \A m \in Msgs :
    pc[m] # "new" ~> pc[m] = "done" \/ \E r \in Msgs : runner[r] = "broken"

(* A terminated coordinator lets go of every message it had captured, what *)
(* ever happened to the runs and the tasks they wait for.                  *)
TerminateReleases ==
  \A m \in Msgs :
    terminated # "no" /\ monitor[m] \in {"cancelled", "done"}
      ~> pc[m] \notin {"awaitTicket", "awaitTurn"}

-----------------------------------------------------------------------------
(* Refinement: as long as the coordinator lives, the turns of a key are    *)
(* given out like a first-come first-served mutex.                         *)

(* The messages captured under k that have not been handed their turn, and *)
(* the ones that have.                                                     *)
WaitingUnder(k) ==
  {m \in Msgs : Unsettled(m) /\ outcome[m] = "none" /\ capture[m].key = k}
ServedUnder(k) == {m \in Msgs : Serving(m) /\ capture[m].key = k}

(* The domain of place in the order of its values, which are at most n.    *)
ByPlace(place, n) ==
  LET At(i) == {m \in DOMAIN place : place[m] = i}
  IN Kept([i \in 1 .. n |->
             IF At(i) = {} THEN NoMsg ELSE CHOOSE m \in At(i) : TRUE],
          DOMAIN place)

SlotCount(k) == IF order[k] = NoOrder THEN 0 ELSE Len(order[k].slots)

TurnLine(k) ==
  LET W == WaitingUnder(k)
  IN IF W = {} THEN <<>>
               ELSE ByPlace([m \in W |-> capture[m].seq], SlotCount(k))
TurnOwner(k) ==
  IF ServedUnder(k) = {} THEN NoMsg ELSE CHOOSE m \in ServedUnder(k) : TRUE

Turns == INSTANCE SessionMutex WITH
  Tasks <- Msgs, Slots <- Keys, NoTask <- NoMsg,
  line <- [k \in Keys |-> TurnLine(k)],
  owner <- [k \in Keys |-> TurnOwner(k)]

(* Turns are taken and given back only as that mutex allows.               *)
ImplementsTurns == Turns!Spec
=============================================================================
