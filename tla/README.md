# AstrBot in TLA+

AstrBot is a chat bot framework: platform adapters turn messages of chat
services into events, a bus hands each event to a pipeline of stages, and one
of the stages runs a language model agent with tools and answers. Nearly all of
it is one process with cooperative asyncio tasks. What is hard in it is not the
computation but the coordination: one task per message, agent runs that last for
minutes, messages that arrive while a run is active, locks per conversation,
timers, and cancellation at every `await`.

This project models that coordination: the session locks, the follow-up
coordinator with the agent runs it serves, the outbound gate of groups, the turn
windows of private chats, the event bus with the registry of active events, the
work loop of background work, the tool loop of one agent run, WebChat, the
commits of the history, cron jobs and interactive waits. TLC checks the
specifications on small instances, and TLAPS proves the safety invariants that
the runs check, the action property among them and both refinements for every
size. Where the code gives a promise only under conditions, the property or the
theorem names them.

Paths below are relative to `src/astrbot/core/` unless they start with `src/`.

## The system

| Component | State it keeps | Operations | Interacts with | What is hard, and what makes it correct |
|---|---|---|---|---|
| Session locks (`utils/session_lock.py`) | per event loop: lock and user count by session key | `acquire_lock` | taken by the internal agent stage, the outbound gate, the conversation store | cancellation of waiters, lock objects dropped when idle; one lock per key as long as anybody needs it, first come first served |
| Follow-up coordination (`agent/follow_up.py`) | active runners, order states, pending tickets, monitor tasks | `try_capture`, `prepare_capture`, `finalize_capture`, (un)register, `terminate` | agent runner (tickets), agent stage (callers) | three tasks settle the same place in an order; follow-ups answered once, in order, and nobody waits for ever |
| Internal agent stage (`pipeline/process_stage/.../internal.py`) | locals of `process()` | capture, lock, run, clean up | all of the above | clean-up under cancellation |
| Agent runner (`agent/runners/tool_loop_agent_runner.py`, `astr_agent_run_util.py`) | state of the run, pending follow-ups | `step`, `follow_up`, `request_stop` | model provider, tools, hooks | every ticket is resolved however the run ends |
| Group sender concurrency (`group_sender_concurrency.py`) | turn registrations, pending events, depths | `hold_turn`, `release_turn`, `around_send`, `bind_concurrent_turn`, `serialize_group_outbound` | session locks, `AstrMessageEvent.send`, send tools | several tasks of one turn, re-entry; one turn speaks at a time and leaves nothing held |
| Turn windows (`pipeline/turn_window.py`, turn coalesce stage) | open windows, typing notices, flush and guard tasks | `accept`, `pause_typing`, `resume_typing`, `recall`, `discard`, `discard_all`, flush | waking stage, event queue | timers against new messages, lost stop notices, full tables; every fragment is flushed or dropped, in time |
| Event bus, scheduler (`event_bus.py`, `pipeline/scheduler.py`) | event queue, semaphore, pending tasks, stopped platforms | `dispatch`, `stop_platform`, `shutdown` | pipeline, active event registry | removal of a platform during a dispatch; every permit returned once, no event of a stopped platform runs |
| Active event registry (`utils/active_event_registry.py`) | events by conversation, stop callbacks, background tasks | register, `stop_all`, `stop_platform` | bus, agent runs, tools | registration against a stop; a job that was told to stop is cancelled once |
| Work loop (`agent/btw`) | work sessions, detached tasks, the event of each | `submit`, `schedule`, detached run, `close` | scheduler, registry, delivery | three owners follow each other; a queued session is started or cancelled by somebody |
| Assistant history (`assistant_history.py`) | latest sequence per conversation, shape of what was written last | `next_sequence`, `commit` | conversation store | commits out of order; newer never lost to older, and a summary not undone |
| WebChat (`webchat/queue_manager.py`, `run_coordinator.py`) | queues, listeners, runs | put, remove, `create_run`, `close_session`, `terminate` | dashboard, adapter | full queues against removal; a run ends once |
| Session waiters (`utils/session_waiter.py`) | waiting sessions, filters | `register_wait`, `trigger`, `keep`, `stop` | plugins | timeout against an answer |
| Cron (`cron`) | jobs, scheduler | add, run, delete | bus, database | a run against the deletion of its job |
| Rate limiting (`pipeline/rate_limit_check/stage.py`) | time stamps per session | `process` | pipeline | a task that sleeps inside a lock |
| File tokens (`file_token_service.py`) | tokens, owned files, counts | register, claim, expire, shut down | adapters, dashboard | a file is deleted by its last token only |
| Configuration (`config`, `astrbot_config_mgr.py`, `umop_config_router.py`) | profiles, routes, revisions | load, save, route | everything | saves against stale revisions |
| Authorization (`auth`) | roles, relationships, step-up grants | decide, grant | pipeline, tools | a grant is used once |
| Life cycle (`core_lifecycle.py`, `runtime_services.py`, `src/astrbot/runtime_instance_lock.py`) | the services | start, stop, reload | everything | order of shutdown |
| Knowledge bases (`knowledge_base`) | documents in two stores | upload, delete, retrieve | embedding providers | one store fails after the other |

The rest is listed with its reason in `PROJECT.json` and not modelled:
providers and platform adapters, long-term memory, computer use, plugins, tools,
backup, dashboard and command line are I/O, translation of formats, third-party
code or request handlers over the services above.

How a message travels through the modelled parts: the adapter puts it on the
queue and the bus starts a pipeline task for it (`Dispatch!Receive`,
`GetStarts`); the waking stage decides whether it is for the model
(`TurnWindow!Wake`), unless a plugin waits for it (`SessionWaiters!Looks`); in a
private chat the coalesce stage buffers it (`AcceptFirst`, `AcceptMore`) until the
flush puts the whole turn on the bus again; the agent stage offers it to a run in
progress (`FollowUp!ArriveCaptured`) or takes the session lock (`SessionLock`),
takes a snapshot of the history (`History!Builds`) and starts a run of its own
(`AgentRun`), or hands it over to the work loop (`WorkLoop!HandOff`); in a group the
answer goes out through the outbound gate (`OutboundGate`), in WebChat through the
response queue of its run (`WebChat!Puts`); and the turn is committed
(`History!EntersCommit` to `Writes`).

## The modules

| Module | Models | Uses |
|---|---|---|
| `WaitQueue` | the deque of waiters of an asyncio lock, and what is left of a queue | |
| `SessionMutex` | abstract: what a lock per key promises | `WaitQueue` |
| `SessionLock` | `SessionLockManager` over `asyncio.Lock` | `WaitQueue`; implements `SessionMutex` |
| `FollowUp` | coordinator, tickets of the runner, agent stage | `WaitQueue`, `SessionMutex` for the session lock; implements it by its turns |
| `OutboundGate` | `GroupOutboundGate` and the ways to send | `SessionMutex` for the outbound lock |
| `TurnWindow` | `TurnWindowManager`, coalesce stage, part of the waking stage | `WaitQueue` |
| `Dispatch` | `EventBus`, registration of events by the scheduler, `ActiveEventRegistry` | `WaitQueue` |
| `WorkLoop` | `WorkLoop`, work sessions and the detached run | |
| `AgentRun` | `ToolLoopAgentRunner.step` driven by `run_agent` | |
| `WebChat` | run coordinator, response queues, deletion of a session | |
| `Cron` | the runs, updates and deletions of one job | |
| `History` | the committer, the merge of concurrent turns, other writers | `WaitQueue` |
| `SessionWaiters` | waits, filters and timers of one session | `WaitQueue` |
| `Services` | eight of these side by side, with their properties | the components' modules |
| `*Proofs` | theorems | |
| `MC*` | constants for TLC; `MCServicesLive` puts components side by side for the liveness run | |

**Steps.** The code is cooperative: a task runs undisturbed from one suspension
to the next. One action is what one task does between two suspensions. An
`async with` on a lock whose sections never suspend (`_access_lock`,
`_registry_lock`, the conditions of the order states) is therefore not visible
and has no variable; each module's head says which locks these are. In
`FollowUp` an order state's condition suspends only in `wait()`, and each return
from `wait()` is an action.

**SessionLock.** `table` and `count` are `_locks` and `_lock_count` by loop and
key. The lock objects have the state of `asyncio.Lock` (`locked`, `waiters`, one
future per waiter), because the code's safety rests on its details: a cancelled
waiter stays in the queue until its task runs, and a waiter that was woken can
still be cancelled (`doomed`). `Unreferenced` lets the identity of a collected
object be used again. The asyncio parts are modelled from how the standard
library's lock behaves and marked external in the map.

**FollowUp.** An order state is a sequence of statuses ("gone" for popped
entries) and the sequence number whose turn it is; `NextOpen` is where the loop
of `_advance_turn_locked` stops. `pc[m]` says where the pipeline task of message
m is in `process()`: waiting for its ticket, for its turn, for the lock, in the
run, in the clean-up, in `finalize_capture`. `monitor[m]` is the second task of a
capture. `runner[m]` goes from "live" to "done" (the state is DONE but
the `on_agent_done` hook is still awaited) to "over" (tickets resolved), or to
"broken" (the run ended and nothing was resolved). `Faults` chooses which
disturbances an instance has: "crash" (a run breaks), "cancel" (a message's task
is cancelled wherever it waits), "cancel in typing" (it is cancelled in
`stop_typing`) and "terminate". The proofs hold for any set of faults. The model
keeps for each run only its tickets; what it says, which tools it calls, and
how it streams are left out. `StartRun` joins the moment the lock is gained with
the registration of the runner: what the task awaits in between (building the
runner, hooks) changes nothing that another message looks at, and the ways out of
it are `StartFails` and `CancelEntering`. Detached background work, which is
neither captured nor registered, is left out.

**OutboundGate.** One group. `reg[e]` stands for `_turn_umos` and `_turn_cms`,
`depth[t]` for the depth dictionary by task, `act[t]` and `next[t]` for where a
task is suspended. `Sends` chooses how tasks send ("guarded": through
`serialize_group_outbound`; "direct": `event.send()` alone). `Children` are the
tasks that the runner creates for tool calls (`_await_stop_interruptibly`, the
task group of a parallel batch), with a copy of the context and so with the
turn: `home[c]` is the event of the turn a child belongs to while it runs. Four
constants open the known ways around the gate: "direct" in `Sends` (an adapter
posts before it calls the base class, and so speaks before it has the lock);
`LateSends` (an event is sent to after `release_turn`, by its own task or by a
child that outlives the turn; `late` collects these events, and the lock they
take is released by nobody); `~Serial` (a second task of a turn sends while the
first one still waits for the lock); and `Reuse` (a new task gets the `id()` of
one that has ended and whose depth is still there). `LockAccounted` and
`TurnLeavesNothing` are checked and proved with all four open: the lock belongs
to a message around the turns, to a turn that has not ended or to an event in
`late`; and a turn that is not in `late` is unregistered when it has ended, with
no depth left for its pipeline task. Nothing is said of the depth of a child:
`release_turn` clears that of the current task only. `OneTurnSpeaks` is checked and
proved with all four closed.

**TurnWindow.** Windows with their fragments, age, pause flag and flush task;
`timer[t]` what a flush task still sleeps for; `guard[k]` the guard of a typing
notice. `Tick` lets time pass and is enabled only when no timer is due. The age
stops counting one above `MaxTotal`, which is all the code compares it with.
The temporary files of fragments are left out.

**Dispatch.** `at[e]` is where an event is: in the queue, in the hand of the
dispatch task that waits for the semaphore, in a pipeline task that is created,
running, over (its done callback has not run) or gone. `permits` and `granted`
are the semaphore with a permit that is on its way to the waiting dispatch.
`job[j]` are the background tasks that the registry knows, `signal` the stop
signal they share with the events they wake the agent with, `asked[j]` how often
the registry has cancelled one. `stop_platform` has the steps
`StopPlatform`, `StopJobs`, `StopReturns`, between which everything else may happen.
Two things of `stop_platform` and the registry are elsewhere or left out: the
stop callbacks of runs (`AgentRun!RequestStop`), and `shutdown`.

**WorkLoop.** Each piece of work has a request (the generator that acknowledges
it and the scheduler behind it), a detached task and a work session with a
status. `detached` is the mark that moves the ownership of the event from the
scheduler to the task, `finished` the mark that the task has settled it,
`snapshot` the tasks that `close()` awaits. A task that is cancelled before its
first step runs none of its own clean-up (`CancelledUnstarted`): `Closed` settles
it, and the finalizer's await between its mark and the end of the registration
is joined with both into one step.

**AgentRun.** `pc` follows `step()` from one `await` to the next: preparing the
context, asking a provider, its answer, the second request of skills-like tools,
the calls, the hook at the end. `call[i]` is one tool call of the batch, in
sequence or in parallel. `Interrupted` and `StopCall` are the places where
`_await_stop_interruptibly` gives up what it awaits. `missing` counts tool calls
in the context that have no result.

**WebChat.** A run has an entry in the coordinator, a task, a response queue and
the pipeline that answers it; `back[r]` and `items[r]` are the queue, and a writer
that waits for room is "blocked". `CloseSession` and `SessionClosed` are
`close_session` before and after it awaits the tasks. `LateRequests` lets
requests for the session come in between. A cancellation of `close_session` while
it awaits them is left out: the entry of a run that never started would then stay.

**Cron.** The row, the entry of the scheduler and the marker of a deletion with
its count (`deleting`). A run resumes after every access to the database; a
cancelled run may still write that it was cancelled, and a deletion that was
cancelled may or may not have come through (`Resumes`).

**History.** A history is a sequence of pieces. A turn leaves up to three: the
summary of a compaction, its question, and its answer with everything that led to
it. What a turn hands to the committer is `lead[t]`, its snapshot up to the merge
unit, and `unit[t]`, what `_history_merge_fields` takes as the unit: everything
from the last user message on. That need not be the question, since tool images
and the notice of the forced last step are user messages, too; `Snapshots` has all
the ways to cut the two apart, behind the snapshot the turn began with or what a
compaction has left of it (`Lefts`). Without a user message there is no unit and
the turn is written as it is (`Unmerged`). The committer never compares texts,
only roles and lengths: `Shape` is what it sees, through the constant `Look`, and
`Misled` is when a history looks as if it began with the snapshot and does not.
`EntersCommit`, `Loads`, `Writes` are the three parts of `commit` under the lock of
the conversation. `Disturbers` chooses what interferes: a woken agent that writes
without the committer ("cron"), the user ("edit"), other conversations that push
this one out of the tables ("busy"), a history that cannot be loaded ("unread"),
an update that is cancelled after the database took it ("late"), and turns
without user message ("unmarked"). The ghost `disturbed` is set by each of them
and by `Misled`; `CommittedStaysAlone` and `NoResurrection` are promised up to then.

**SessionWaiters.** `current` is the wait that has the session, `filters` all that
are registered, `timer` and `due[w]` a timer that runs and one that has expired and
not resumed, `lock[w]` the messages at the lock of the wait.

## What is checked

Twelve runs; seven pass, five show a disagreement between the code and
what it says of itself. Every property of a passing run has a mutant in
`PROJECT.json`: a plausible mistake in the modelled code that breaks that
property under that run's own instance.

| Run | Instance | Shows |
|---|---|---|
| `session_lock` | 4 tasks on 2 loops, 2 keys, 3 lock objects | `MutualExclusion`, `OneLockPerSlot`, `CountExact`, `NoLostWakeup`; `WaitEnds` and the refinement `ImplementsMutex`; no deadlock |
| `follow_up` | 4 messages of one sender, crashes and cancellations | `InOrder`, `AnsweredOnce`, `PlacesOwned`, `WaitersKnown`, `IdleStateReleased` |
| `follow_up_live` | 3 messages, cancellations | the refinement `ImplementsTurns`; `EndsUnlessRunBreaks` |
| `follow_up_terminate` | 3 messages, one under the sender's own key, crashes, cancellation in `stop_typing`, termination at any time | `TerminateReleases` |
| `turn_window` | 3 chats, 5 messages, room for 2 windows, 2 fragments, 1 typing notice | `TimerExact`, `PauseGuarded`, `FlushInTime`, `FragmentsHeld` |
| `services` | the components of `MCServices`, see below | `LockAccounted`, `TurnLeavesNothing` (outbound gate), `SlotsExact`, `StoppedIsQuiet` (bus), `PendingOwned`, `ReachableWhileAlive` (work loop), `QuietAfterStop` (agent run), `NothingLeaks` (WebChat), `RunHasRow` (cron), `CommittedStaysAlone`, `NoResurrection` (history) |
| `services_live` | the components of `MCServicesLive` | `OneTurnSpeaks`, `WaitEnds` (gate, guarded sends one after the other), `BufferedEnds` (turn windows), `StopEnds` (bus), `CloseSettles` (work loop), `StoppedRunEnds` (agent run), `WaiterEnds` (waits) |
| `follow_up_crash` | 2 messages, crashes | `EveryMessageEnds` fails |
| `agent_run_unanswered` | one run, tools that may yield nothing | `CallsAnswered` fails |
| `agent_run_stop_fails` | one run, nothing raises | `NotFailed` fails |
| `webchat_close_race` | 2 runs, requests during the deletion | `RunHasQueue` fails |
| `history_question_lost` | two concurrent turns and nobody else | `CompleteTurns` fails |

**Components side by side.** `Services` (whose constants `MCServices` chooses) and
`MCServicesLive` each hold several components that share no variable in these
models. The variable `focus` is chosen
in the first state and names the one that runs; the others keep their initial
states. Every behaviour of each component is among those of the run, and a
product of independent components is not built. A component's invariant is
checked in all of its states; its type invariant is a conjunct of
`ServicesTypeOK`. For the liveness run the fairness of all components is
conjoined. That is harmless for the ones that do not run: in its initial state
none of them has a fair action that is enabled (everything begins with an
arrival, a request or a start, which are not fair), so that weak and strong
fairness hold of it. A component that interacts with another one is not composed
here; where components do interact (`FollowUp` with its lock and its turns,
the gate with its lock) the module itself is built on the abstract
`SessionMutex`.

**Bounds, and why they are enough.**

- `session_lock`: three tasks of one loop meet in one slot as holder, woken
  waiter and cancelled waiter, which is the most the hand-over looks at; the
  fourth task, on another loop, shows that loops do not share locks. Three lock
  objects are as many as can be in use at once (two keys on the first loop, one
  on the second). Tasks come back as often as they like.
- `follow_up`: a run and three followers, so that a follower can stand before,
  at and behind the turn; each message arrives once. One sender is
  enough: a capture needs the sender of the run, so a second sender only adds
  runs that wait for the session lock. Messages that only differ by name are
  interchangeable (`Symmetry`, here and in `turn_window`); the runs with temporal
  properties use no symmetry.
- The outbound gate: in `services` two turns and one child task, which belongs to
  one of them and then, under the same `id()`, to the other, with every way of
  sending and two messages per task (`MaxSends`), so that a task sends again while
  it holds, after its turn and with a depth that stayed. In `services_live` a task
  without turn looks on, too, and each task has one message, since a child and the
  pipeline task of one turn already send twice.
- The bus: three events of two platforms and one permit, so that dispatch waits
  with an event in hand while another one runs and a third is queued; two jobs of
  one event, so that a woken agent submits a job of its own. The live instance
  has two events of one platform.
- The work loop: one request and one piece of scheduled work with one permit, so
  that one waits while the other executes and `close` meets both.
- The agent run: two steps and the forced third, two calls, two fallbacks:
  a batch has a first and a last call, and a fallback a fallback.
- WebChat: two runs with room for two responses, so that a writer blocks. Cron:
  two runs, two deletions, one update, so that deletions overlap with each other
  and with a one-shot run that deletes itself. History: three turns when only
  the committer writes (interchangeable, `Symmetry`), each piece with a look of its
  own; two with a woken agent and everything else that interferes, where pieces of
  one kind look alike. What follows the first disturbance there is not explored
  (`Undisturbed`), since nothing is promised any more. Waits: two, with two
  messages.
- `turn_window`: more chats than windows and more windows than notices, so that
  both evictions happen, a window is evicted while others are paused, and a
  forgotten typist's window is re-armed. `Wait` 2 and `MaxTotal` 3 give a full, a
  shortened and a zero delay; `TypingWait` 2 a guard that fires before and
  after the life of the window is over.

`CHECK_DEADLOCK FALSE` stands where the system may stop: all messages done, all
turns over. `session_lock` runs for ever and is checked for deadlock.

**Fairness.** The event loop runs every ready task: weak fairness of the steps
of a task that nobody else can disable, such as `Resume`, `Prepare`, `Monitor`,
`Proceed`, `Continue`, the unwinding of cancelled tasks in `Dispatch` and `WorkLoop`,
the expiry of timers. In `FollowUp` runs end, because the step limit bounds
them; which end they take, an answer, an error or a break, is not fair.
`AgentRun` assumes less: models and tools need never answer, only the loop and
the hooks go on, which is what `StoppedRunEnds` is about. `WorkLoop` and `Dispatch`
do not assume that executors and pipelines end by themselves either, only
that they unwind when they are cancelled. `SessionWaiters` assumes that handlers
return. `TurnWindow` has strong fairness of `Flush`, because a notice may cancel a
timer that is due and the code has no protection against a user whose notices
come just then for ever. `OutboundGate` has strong fairness of `EndTurn`, because
the turn ends when its task is between two messages, and of `ChildEnds` for the
same reason: tool calls end. Arrivals, cancellations,
stop requests, typing notices and terminations have no fairness: nobody has to
do them.

**What the five violations say.**

1. `follow_up_crash`: when `step()` or the delivery of its output raises, or the
   step limit ends the loop, `run_agent` returns without
   `_resolve_unconsumed_follow_ups`, and messages captured by that run wait
   until the coordinator is terminated. `EndsUnlessRunBreaks` shows that, except
   for a cancellation in `stop_typing`, this is the only way to wait for ever.
2. `agent_run_unanswered`: a local tool that sends its result by itself, an MCP
   tool without a result and a tool with an empty text leave their call in the
   context without a result, which the code elsewhere calls a requirement of
   the model's interface.
3. `agent_run_stop_fails`: a stop seen inside the task group of a parallel batch
   comes out as an exception group, which `step()` does not take for a stop: the
   run is reported as failed.
4. `webchat_close_race`: `close_session` closes the runs it has collected, awaits
   their tasks and then removes the queues of the whole session: a run that was
   created meanwhile stays indexed and has no queue.
5. `history_question_lost`: a turn that commits behind a history which another turn
   has compacted appends its unit only, and the unit begins with the last user
   message. After tool images or the forced last step that is not the question:
   the question and the tool calls before it are not stored, although only the
   committer writes. `CommittedStaysAlone` shows that what *was* stored is not
   lost, in whatever order turns commit.

More places where the code is looser than one may expect:

- `process()` awaits `stop_typing` under `except Exception` before it calls
  `finalize_capture`; a cancellation there skips the latter, and the place of the
  capture blocks all later ones of its key. `PlacesOwned` and
  `EndsUnlessRunBreaks` are checked without this one fault ("cancel in typing");
  `follow_up_terminate` has it.
- The four ways around the outbound gate described above, and a task that looked
  before a turn began to speak (`SendUnseen`).
- A window may outlive `max_total_seconds` during typing, and a message without
  prefix may be woken by a window that is gone when it reaches the coalesce
  stage.
- Two histories whose messages look alike to `_history_struct_summary` (roles and
  lengths) can be taken for each other (`Misled`), and a merge that they mislead
  loses a committed turn.
- A turn without any user message, one whose conversation was pushed out of the
  tables, and one that cannot load the history are written unmerged, over what
  others have committed.
- A woken agent (`cron/manager.py:586`, `astr_agent_tool_exec.py:832`) writes the
  history it read in the beginning, without the session lock and the committer,
  over a turn that was committed meanwhile (`CronBegins`, `CronWrites`).
- A wait whose session was taken over by another one is reached by no message;
  `terminate` cancels its timer without stopping it.

## What is proved

TLAPS proves every invariant, the action property and the two refinements that
the passing runs check, from the named assumptions on the constants and, where it
is said below, one hypothesis that the theorem states (`NamesAssumption` of
`OutboundGate` only keeps tasks apart from the marks used beside them in
`reg` and `home`). The runs show them on one instance each, the theorems for every one.

| Module | Theorems | For any |
|---|---|---|
| `WaitQueueProofs` | what `Append`, `Without` and `Kept` do to the members of a queue, their order and its head | queues |
| `SessionLockProofs` | `TypeOK`, `MutualExclusion`, `OneLockPerSlot`, `CountExact`, `NoLostWakeup`; `ImplementsMutex` | finite set of tasks, loops, keys, lock objects |
| `FollowUpProofs` | `TypeOK`, `InOrder`, `AnsweredOnce`, `WaitersKnown`, `IdleStateReleased`; `PlacesOwned` under `TypingSpared`; `ImplementsTurns` under `NeverTerminated` | messages, senders, keys, other faults |
| `OutboundGateProofs` | `LockAccounted`, `TurnLeavesNothing` whatever is sent and when; `OneTurnSpeaks`, `HeldInTurn` under `Guarded` | turns, child tasks, bystanders |
| `TurnWindowProofs` | `TypeOK`, `TimerExact`, `PauseGuarded`, `FlushInTime`, `FragmentsHeld` | chats, messages, limits, times |
| `AgentRunProofs` | `TypeOK`, `QuietAfterStop`; `CallsAnswered` under `Speaking` | steps, calls, fallbacks |
| `HistoryProofs` | `TypeOK`, `CommittedStaysAlone`, `NoResurrection` | finite set of turns, woken agents, disturbances, looks |
| `ServicesProofs` | `PendingOwned`, `ReachableWhileAlive` (work loop), `SlotsExact`, `StoppedIsQuiet` (bus), `RunHasRow` (cron), `NothingLeaks`, and `RunHasQueue` under `~LateRequests` (WebChat), `ServicesTypeOK`; and the properties of `Services` from those of the components | the constants of the components |

What the hypotheses say of the code:

- `TypingSpared`: no task is cancelled in `stop_typing`. The code skips
  `finalize_capture` there, and the place of the capture stays open for ever.
- `NeverTerminated`: the coordinator is not terminated. `terminate` drops all
  order states at once and lets everybody go, which no mutex does.
- `Guarded`: every message goes through `serialize_group_outbound`, the tasks of a
  turn send one after the other, no event is sent to after its turn (so that no
  task of a turn outlives it), and no task gets the `id()` of an ended one. Tool
  tasks that send within their turn are in it, in any number. Each of the four
  excludes one of the gaps named at `OutboundGate` above.
- `Speaking`: every tool leaves something that becomes a result.
- `TurnsAssumed`, which all theorems of `HistoryProofs` have: the set of turns is
  finite. That nobody interferes and no looks mislead is not a hypothesis but part
  of the two properties (`disturbed`).
- `~LateRequests`: nobody asks for a run of a session while it is being deleted.

The hypotheses are about the environment or about a gap in the code which
is described below the runs; beside `TurnsAssumed` none is needed for type
correctness.

*Queues and what is left of them.* `Kept(q, S)`, the entries of q that are in S,
stands for a queue or an ordered table from whose middle the code takes entries
(dropped events, flushed windows, recalled fragments), and in the refinements for
the line of those who wait. It is a recursive function. The induction theorems of the library take an operator as a parameter
and cannot be used; `SetInduction` and `QueueInduction` are stated with a set
instead (a set of numbers, or of queues, that is closed under the step holds them
all), are proved from the well-foundedness of the order of the naturals, and
carry the facts about `Kept` for queues of every length.

*The invariant of the session locks.* Mutual exclusion is not inductive: that
two tasks are not inside together says nothing of the lock objects they hold.
`IInv` adds that a user's object is the one in the table (`OneLockPerSlot`), which
in turn needs that an entry is dropped only when nobody counts on it
(`CountExact`) and that no object serves two slots (`NoSharedLock`); that the
object is taken while a body runs and that a woken waiter stands at the head of
a free one (`WokenFirst`), which needs that queues hold exactly the waiting
tasks (`QueueExact`). The finiteness of the set of tasks is used for the
cardinality in `CountExact` only.

*The invariant of the coordinator* has three parts. `WellFormed` is the shape of
an order state: popped entries are those before the turn, and the turn stands
at an entry that is not settled. It makes the loop of `_advance_turn_locked` stop
(`NextOpenExists`), which also is what type correctness rests on. `LifeInv` ties
the ticket to the task and the monitor: what waits was captured and is
known to `terminate`, what was activated was not consumed. `PlacesHeld` says
that, while the coordinator lives, a captured message that is not settled holds
an open place of its own, and that the one that is served holds the turn. Each
step is reduced to one lemma (`StepSettles`): it settles the places of the
messages that stop holding one and no others; `PlacesKept` needs only
that. `InOrder` follows, because two unsettled messages hold two open places, no
open place lies before the turn, and the one that is served has the turn.

Conversely every open place has its owner (`PlacesOwned`): who stops holding a
place settles it in the same step (`SettlingGivesUp`), except in the case that
`TypingSpared` excludes.

*The refinements.* `SessionLock` implements `SessionMutex` with the line of a slot
mapped to the waiters of its lock object that have not been cancelled
(`Kept(waiters, LiveTasks)`) and the owner to the task inside. A cancelled task
quits when it is cancelled and not when it leaves the deque, so that
`ResumeCancelled` is a stutter. Beside `IInv` the theorem needs that only a waiter
that was woken can be doomed by a later cancellation (`DoomedWoken`): nobody joins
the line as somebody who has already left it.
`NoLock` must not be a task either (`NoLockAssumption`), since it stands for "nobody
inside". For the turns of `FollowUp` the line of a key holds the captured
messages that have not been handed their turn, by their sequence numbers
(`ByPlace`), and its owner is the one that is served. A capture joins at the end
because `_allocate_order` gives out the next number (`ByPlaceMore`); a
step that captures nobody moves one message only (`StepOfOne`) and leaves the
others their places (`ByPlaceLess`); who is handed the turn has the smallest
open place (`TurnIsFirst`, `ByPlaceFirst`), for the turn stands at the first
entry that is not settled.

*The outbound gate.* `GateInv` is about every way of sending. A lock is registered
with one event at most and with none while a message goes out around the turns
(`OneHolder`), and `release_turn`, which looks at the depth of the pipeline task,
finds there what the registration says: up to the end of its turn that task is
inside the lock once, for its own event, or not at all (`DepthOfTurn`). Then
`LateShape` says that after its turn only an event in `late` has a task that sends,
a registration or a depth. `LockAccounted` and `TurnLeavesNothing` follow without a
hypothesis. That a turn speaks alone does not hold of the code as such and is
proved under `Guarded`: the tasks of a turn send one at a time (`OneAtATime`), a
turn is registered before its first message appears and never without lock
(`RegisteredFirst`), for which a child must not have a depth of its own while
somebody else is registered (`DepthOfChild`); a registered turn owns the lock,
and the lock has one owner.

*Turn windows.* The five properties are inductive together once it is said
whose window a timer belongs to: an open window that is not paused has a live
flush task *of its own chat* (`timer[window[k].task].chat = k`, which the proof
asked for and which is now part of `TimerExact`). The invariant is taken apart by
the tables, windows with timers (`Timed`), with fragments (`Held`), with the order
(`Ordered`) and with typing notices (`Guarded`), and every step is shown to keep
the parts it touches. `TasksAssumption` says that there are as many
identities of flush tasks as windows, which the proof uses to find a free one
(`FreeTask`).

*The bus.* `BusSlots` counts permits against the tasks that hold one, `BusQueued`
ties the place of an event to the queue and to the hand of the dispatch task, and
`BusStops` says what a `stop_platform` at each of its suspensions has left to wait
for: nothing of the platform begins behind its back, because the platform is in
`stopped` before the pipelines are awaited and the events of its jobs have the
stop signal before the jobs are.

*The history.* As long as nobody interferes the committer knows the conversation
(`Alone`): what is stored and what turns have read consists of what was
there in the beginning and of pieces of turns that are over, committed pieces are stored or were compacted, no compacted piece is
stored, and the receipt is the shape of what is stored. A turn that writes has
merged with just that (`WrittenAlone`): either it puts what others have added
between its lead and its unit, or, when its snapshot is no longer what the history
begins with, its unit behind what is stored. In the first case the history really
begins with the snapshot, unless `Misled`, so that what its compaction drops is
what others have, too (`WrittenText`, `AloneWrites`). The looks themselves may be
any.

*The work loop.* The ownership of queued work is handed over twice, from the
request to the detached task (`DetachedExact`) and from the task to its finalizer
(`FinishedOnce`); a task that is cancelled before its first step hands over
nothing, but only `close()` cancels tasks and it awaits all it cancels
(`AskedByClose`).

*Cron jobs.* The marker of a deletion counts the deletions on their way, those of
one-shot runs included (`JobMarkerExact`): no run begins before the last one of them
is through. A deletion waits for every run it found, there are no others
(`JobDeletionDrains`), and so the row outlives them.

*Runs of agents and of WebChat.* `BatchShape` says when a batch of calls exists.
The two theorems with a hypothesis complement the violations: a tool that leaves
nothing behind is the only way to an unanswered call, and a request during
`close_session` the only way to a run without its queue.

*Side by side.* `Services` runs one component and leaves the others in their first
state, so that every behaviour of it is a behaviour of each component
(`GateBehaves`, `BusBehaves` and so on). The theorems about it follow from those
about the components. For the components whose proofs stand in a module of
their own the constants are substituted once more (`GateProved` and its like),
and `GateSame`, `AgentSame`, `LogSame` and `UpsetSame` say that both instances
are the same specification.

Model-checked only: liveness under fairness (`WaitEnds` of the locks and of the
gate, `EndsUnlessRunBreaks`, `TerminateReleases`, `BufferedEnds`, `StopEnds`,
`CloseSettles`, `StoppedRunEnds`, `WaiterEnds`), which with `ENABLED` is out of the
prover's reach. No module of the project declares a RECURSIVE operator: where the
code loops, the model says where the loop stops, or uses a recursive function.

## Not modelled, and what is left

The parts with the program's own coordination are modelled; the plan of modules
is done. What partly modelled parts leave out:

- the event bus: `shutdown()`, the isolation of sessions (a renaming) and the order
  of the stages of the pipeline;
- the work loop: `process()`, the inline fallback of runtimes without background
  tasks, the expiry of finished sessions, the conversation loop around it;
- the agent run: texts, usage, images, guidance on repeated calls, the retries of
  one provider;
- the internal agent stage: prompts, hooks and the stream of results, which only
  stop, fail or end;
- WebChat: replacing the listener when the adapter is loaded again, interrupts
  (which mark a run) and the protocol state of results;
- cron: triggers, time zones, `sync_from_db` and `shutdown()`;
- the waking check and message events: all but the decision about an open turn
  and the sending rule.

Not modelled at all, since their correctness is not a matter of steps that TLC
could interleave:

- rate limiting, file tokens: each operation is atomic under its lock, and what
  remains is arithmetic on clocks and counts;
- configuration, authorization: schemas, rules and saving are functions of data;
- the life cycle: an order of calls; the calls into modelled parts are actions of
  those (`DiscardAll`, `Close`, `Terminate`);
- the database: transactions of SQLite, external to this code;
- long-term memory, knowledge bases: retrieval and scoring over external stores;
- providers, platform adapters, sandboxes, tools, backup: I/O and translation;
- plugins: third-party code;
- dashboard, API, command line: request handlers over the services above.

They make up most of the lines of the repository, which is why the map covers
a small share of them.

What could be added with profit: a composition of `Dispatch` with
`FollowUp`, in which the stop of a platform meets captured messages; the
conversation loop of background work; and theorems that make the five violations
sharp, as `CallsAreAnswered` and `RunsKeepQueues` do for two of them: that a
stop is reported as failed only from a parallel batch (`NotFailed`), and that a
question is lost only behind a compacted history (`CompleteTurns`).

## Running

    tlc -config MCSessionLock.cfg MCSessionLock
    tlapm FollowUpProofs.tla

Each run of `PROJECT.json` names its module and configuration; the longest
takes two to three minutes.
