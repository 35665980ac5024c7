------------------------------ MODULE AgentRun ------------------------------
(***************************************************************************)
(* agent/runners/tool_loop_agent_runner.py, driven by run_agent of         *)
(* astr_agent_run_util.py: one run of the tool loop.  A step prepares the  *)
(* context, asks the model (with fallback to other providers) and executes *)
(* the tools it calls for, one after the other or, an approved batch, in   *)
(* parallel.  A stop may be requested at any time; whatever is awaited     *)
(* then is given up.  The follow-up tickets of a run are in FollowUp.      *)
(*                                                                         *)
(* Texts, images, usage and events are left out.  An answer of the model   *)
(* is what the loop tells apart: a visible chunk, an answer, calls of      *)
(* tools, an error, nothing.  Retries of one provider are not counted.     *)
(***************************************************************************)
EXTENDS Naturals, FiniteSets

CONSTANTS
  MaxSteps,    \* max_step of run_agent
  MaxCalls,    \* calls in one answer of the model
  Fallbacks,   \* number of fallback providers
  Results,     \* what a tool leaves behind: "answered", or "silent" when it
               \* yields nothing or an empty text
  Faulty       \* steps may raise

VARIABLES
  pc,        \* where run_agent is
  steps,     \* step_idx
  state,     \* AgentState of the runner
  abort,     \* _abort_signal
  outcome,   \* how the run ended
  provider,  \* the provider in use; 0 is the primary one
  tried,     \* index of the candidate that is asked
  spoke,     \* candidates of this step whose output was shown
  parallel,  \* the batch is executed in parallel
  call,      \* call[i]: the i-th call of the batch
  missing    \* calls in the context without a result

modelVars == <<provider, tried, spoke>>
toolVars == <<parallel, call>>
vars == <<pc, steps, state, abort, outcome, modelVars, toolVars, missing>>

Slots == 1 .. MaxCalls
Finished == {"answered", "silent", "dropped"}

TypeOK ==
  /\ pc \in {"idle", "loop", "preparing", "asking", "model", "requery", "announcing",
             "announced", "calls", "completing", "aborting", "ended"}
  /\ steps \in 0 .. MaxSteps + 1
  /\ state \in {"idle", "running", "done", "error"}
  /\ abort \in BOOLEAN
  /\ outcome \in {"none", "answered", "limit", "aborted", "failed"}
  /\ provider \in 0 .. Fallbacks
  /\ tried \in 0 .. Fallbacks
  /\ spoke \subseteq 0 .. Fallbacks
  /\ parallel \in BOOLEAN
  /\ call \in [Slots -> {"none", "todo", "starting", "running"} \cup Finished]
  /\ missing \in 0 .. MaxCalls * (MaxSteps + 1)

NoCalls == [i \in Slots |-> "none"]

Init ==
  /\ pc = "idle"
  /\ steps = 0
  /\ state = "idle"
  /\ abort = FALSE
  /\ outcome = "none"
  /\ provider = 0
  /\ tried = 0
  /\ spoke = {}
  /\ parallel = FALSE
  /\ call = NoCalls
  /\ missing = 0

Done == state \in {"done", "error"}

(* The step beyond the limit has no tools.                                 *)
Forced == steps = MaxSteps + 1

(* _finalize_aborted_step: what the step has so far is dropped.            *)
Abort ==
  /\ pc' = "aborting"
  /\ state' = "done"
  /\ call' = NoCalls

-----------------------------------------------------------------------------
(* The loop of run_agent *)

RunBegins ==
  /\ pc = "idle"
  /\ pc' = "loop"
  /\ UNCHANGED <<steps, state, abort, outcome, modelVars, toolVars, missing>>

(* A step begins, with the on_agent_begin hook in the first one.           *)
StepBegins ==
  /\ pc = "loop"
  /\ ~Done
  /\ steps <= MaxSteps
  /\ steps' = steps + 1
  /\ IF abort
       THEN Abort
       ELSE pc' = "preparing" /\ state' = "running" /\ UNCHANGED call
  /\ spoke' = {}
  /\ UNCHANGED <<abort, outcome, provider, tried, parallel, missing>>

LoopEnds ==
  /\ pc = "loop"
  /\ Done \/ steps = MaxSteps + 1
  /\ pc' = "ended"
  /\ outcome' = IF Done THEN "answered" ELSE "limit"
  /\ UNCHANGED <<steps, state, abort, modelVars, toolVars, missing>>

(* Compaction; a truncation repairs the pairs of calls and results.        *)
Prepared ==
  /\ pc = "preparing"
  /\ ~abort
  /\ pc' = "asking"
  /\ tried' = 0
  /\ missing' \in {missing, 0}
  /\ UNCHANGED <<steps, state, abort, outcome, provider, spoke, toolVars>>

(* Mutant: a request in flight is not given up.                            *)
InterruptedBefore ==
  /\ pc \in {"preparing", "asking"}
  /\ abort
  /\ Abort
  /\ UNCHANGED <<steps, abort, outcome, modelVars, parallel, missing>>

(* _await_stop_interruptibly raises, before or during what it awaits.      *)
Interrupted ==
  /\ pc \in {"preparing", "asking", "model", "requery"}
  /\ abort
  /\ Abort
  /\ UNCHANGED <<steps, abort, outcome, modelVars, parallel, missing>>

(* The hook of an aborted or of a completed run ends.                      *)
Aborted ==
  /\ pc = "aborting"
  /\ pc' = "ended"
  /\ outcome' = "aborted"
  /\ UNCHANGED <<steps, state, abort, modelVars, toolVars, missing>>

Completed ==
  /\ pc = "completing"
  /\ pc' = "loop"
  /\ UNCHANGED <<steps, state, abort, outcome, modelVars, toolVars, missing>>

Fails ==
  /\ pc' = "ended"
  /\ outcome' = "failed"
  /\ UNCHANGED <<steps, state, abort, modelVars, toolVars, missing>>

(* Compaction, a hook, the second request of skills-like tools or the      *)
(* delivery of an output raises.                                           *)
Breaks ==
  /\ Faulty
  /\ pc \notin {"loop", "ended"}
  /\ Fails

RequestStop ==
  /\ ~abort
  /\ pc # "ended"
  /\ abort' = TRUE
  /\ UNCHANGED <<pc, steps, state, outcome, modelVars, toolVars, missing>>

-----------------------------------------------------------------------------
(* The model *)

(* The provider of the last answer is asked first, then the fallbacks.     *)
Ask ==
  /\ pc = "asking"
  /\ ~abort
  /\ pc' = "model"
  /\ provider' = IF tried = 0 THEN provider ELSE tried
  /\ UNCHANGED <<steps, state, abort, outcome, tried, spoke, toolVars, missing>>

Answering == pc = "model" /\ ~abort

Chunk ==
  /\ Answering
  /\ spoke' = spoke \cup {tried}
  /\ UNCHANGED <<pc, steps, state, abort, outcome, provider, tried, toolVars, missing>>

(* An error, an exception or an empty answer.                              *)
FallsBack ==
  /\ Answering
  /\ tried \notin spoke
  /\ tried < Fallbacks
  /\ tried' = tried + 1
  /\ pc' = "asking"
  /\ UNCHANGED <<steps, state, abort, outcome, provider, spoke, toolVars, missing>>

(* The last candidate fails, one fails after a visible chunk, or one       *)
(* refuses for good (ProviderResponseError).                               *)
ErrorAnswer ==
  /\ Answering
  /\ pc' = "loop"
  /\ state' = "error"
  /\ UNCHANGED <<steps, abort, outcome, modelVars, toolVars, missing>>

(* An empty answer after a visible chunk is no answer: the loop goes on.   *)
NoAnswer ==
  /\ Answering
  /\ tried \in spoke
  /\ pc' = "loop"
  /\ UNCHANGED <<steps, state, abort, outcome, modelVars, toolVars, missing>>

Complete == pc' = "completing" /\ state' = "done" /\ UNCHANGED toolVars

Batch(n) ==
  /\ call' = [i \in Slots |-> IF i <= n THEN "todo" ELSE "none"]
  /\ parallel' \in {n >= 2 /\ ~Forced, FALSE}
  /\ pc' = IF parallel' THEN "announcing" ELSE "calls"
  /\ UNCHANGED state

Answer ==
  /\ Answering
  /\ \/ Complete
     \/ \E n \in Slots : Batch(n)
     \/ ~Forced /\ pc' = "requery" /\ UNCHANGED <<state, toolVars>>
  /\ UNCHANGED <<steps, abort, outcome, modelVars, missing>>

(* skills-like tools: the same model is asked for the arguments.           *)
Requeried ==
  /\ pc = "requery"
  /\ ~abort
  /\ Complete \/ \E n \in Slots : Batch(n)
  /\ UNCHANGED <<steps, abort, outcome, modelVars, missing>>

-----------------------------------------------------------------------------
(* The tools *)

(* The calls of a parallel batch are shown first.                          *)
Announce ==
  /\ pc = "announcing"
  /\ IF abort
       THEN Abort
       ELSE pc' = "announced" /\ UNCHANGED <<state, call>>
  /\ UNCHANGED <<steps, abort, outcome, modelVars, parallel, missing>>

(* A stop seen inside the task group leaves it as an ExceptionGroup, which *)
(* the step does not take for a stop.                                      *)
SpawnStopped ==
  /\ pc = "announced"
  /\ abort
  /\ Fails

Spawn ==
  /\ pc = "announced"
  /\ ~abort
  /\ pc' = "calls"
  /\ UNCHANGED <<steps, state, abort, outcome, modelVars, toolVars, missing>>

Turn(i) == parallel \/ \A j \in 1 .. i - 1 : call[j] \in Finished
At(i, s) == pc = "calls" /\ call[i] = s /\ Turn(i)

(* Without tools the whole batch is left; a tool that is not found or not  *)
(* allowed is answered at once.                                            *)
StartCall(i) ==
  /\ At(i, "todo")
  /\ ~abort
  /\ IF Forced
       THEN call' = [j \in Slots |-> IF call[j] = "none" THEN "none" ELSE "silent"]
       ELSE \E s \in {"answered", "starting"} : call' = [call EXCEPT ![i] = s]
  /\ UNCHANGED <<pc, steps, state, abort, outcome, modelVars, parallel, missing>>

(* Mutant: the stop is not looked at after the on_tool_start hook.         *)
HookDoneUnchecked(i) ==
  /\ At(i, "starting")
  /\ call' = [call EXCEPT ![i] = "running"]
  /\ UNCHANGED <<pc, steps, state, abort, outcome, modelVars, parallel, missing>>

HookDone(i) ==
  /\ At(i, "starting")
  /\ ~abort
  /\ call' = [call EXCEPT ![i] = "running"]
  /\ UNCHANGED <<pc, steps, state, abort, outcome, modelVars, parallel, missing>>

(* The tool ends, fails or times out.  One that has sent its result to the *)
(* user by itself (it yields None) makes this the last step.               *)
ToolEnds(i) ==
  /\ At(i, "running")
  /\ ~abort
  /\ \/ /\ \E r \in IF parallel THEN {"answered"} ELSE Results :
             call' = [call EXCEPT ![i] = r]
        /\ UNCHANGED state
     \/ ~parallel /\ call' = [call EXCEPT ![i] = "answered"] /\ state' = "done"
  /\ UNCHANGED <<pc, steps, abort, outcome, modelVars, parallel, missing>>

StopCall(i) ==
  /\ \E s \in {"todo", "starting", "running"} : At(i, s)
  /\ abort
  /\ IF parallel
       THEN call' = [call EXCEPT ![i] = "dropped"] /\ UNCHANGED <<pc, state>>
       ELSE Abort
  /\ UNCHANGED <<steps, abort, outcome, modelVars, parallel, missing>>

(* The calls and their results become part of the context.                 *)
BatchEnds ==
  /\ pc = "calls"
  /\ \A i \in Slots : call[i] \in Finished \cup {"none"}
  /\ IF \E i \in Slots : call[i] = "dropped"
       THEN Abort /\ UNCHANGED missing
       ELSE /\ missing' = missing + Cardinality({i \in Slots : call[i] = "silent"})
            /\ call' = NoCalls
            /\ pc' = "loop"
            /\ UNCHANGED state
  /\ UNCHANGED <<steps, abort, outcome, modelVars, parallel>>

-----------------------------------------------------------------------------

Loop == StepBegins \/ LoopEnds \/ Interrupted \/ Aborted \/ Completed
Model == Prepared \/ Chunk \/ FallsBack \/ ErrorAnswer \/ NoAnswer \/ Answer \/ Requeried
OfCall(i) == StartCall(i) \/ HookDone(i) \/ StopCall(i)
OfBatch == Announce \/ SpawnStopped \/ Spawn \/ BatchEnds

Next ==
  \/ RunBegins \/ Loop \/ Ask \/ Model \/ OfBatch \/ Breaks \/ RequestStop
  \/ \E i \in Slots : OfCall(i) \/ ToolEnds(i)

Spec == Init /\ [][Next]_vars

(* The loop goes on and hooks return; models and tools need never answer.  *)
Fairness ==
  /\ WF_vars(Loop \/ Ask \/ OfBatch)
  /\ \A i \in Slots : WF_vars(OfCall(i))

FairSpec == Spec /\ Fairness

-----------------------------------------------------------------------------
(* Properties *)

(* Whenever the model is asked, every tool call in the context has its     *)
(* result (truncator.py: "a requirement of the OpenAI Chat Completions API *)
(* specification").                                                        *)
CallsAnswered == pc \in {"model", "requery"} => missing = 0

(* After a stop no request to a model and no tool is started.              *)
QuietAfterStop ==
  [][abort => /\ pc' \in {"model", "requery"} => pc' = pc
              /\ \A i \in Slots : call'[i] = "running" => call[i] = "running"]_vars

(* A run in which nothing raises is not reported as failed, however it is  *)
(* stopped.                                                                *)
NotFailed == ~Faulty => outcome # "failed"

(* A stopped run ends, even if models and tools never answer.              *)
StoppedRunEnds == abort /\ pc # "idle" ~> pc = "ended"
=============================================================================
