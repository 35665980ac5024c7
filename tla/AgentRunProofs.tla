--------------------------- MODULE AgentRunProofs ---------------------------
(***************************************************************************)
(* Proofs about one run of the tool loop, for any number of steps, calls   *)
(* and fallback providers: nothing is started after a stop, the calls of   *)
(* the context are answered unless a tool leaves nothing behind, and no    *)
(* more of them can stay unanswered than the steps have room for.          *)
(***************************************************************************)
EXTENDS AgentRun, FiniteSetTheorems, TLAPS

(* The batch exists from the answer of the model to the end of its step.   *)
BatchShape ==
  /\ DOMAIN call = Slots
  /\ call = [i \in Slots |-> call[i]]
  /\ pc \notin {"announcing", "announced", "calls", "ended"} => call = NoCalls

LEMMA BatchInit == Init => BatchShape
BY DEF Init, BatchShape, NoCalls

(* Where a step goes and what it does to the batch, action by action.      *)
LEMMA BatchOfLoop ==
  ASSUME BatchShape, Loop \/ RunBegins \/ Ask \/ Breaks \/ RequestStop
  PROVE  BatchShape'
<1> USE DEF BatchShape
<1>1. CASE StepBegins
  BY <1>1 DEF StepBegins, Abort, NoCalls
<1>2. CASE LoopEnds \/ Aborted \/ Completed \/ RunBegins \/ Ask
  BY <1>2 DEF LoopEnds, Aborted, Completed, RunBegins, Ask, toolVars
<1>3. CASE Interrupted
  BY <1>3 DEF Interrupted, Abort, NoCalls
<1>4. CASE Breaks \/ RequestStop
  BY <1>4 DEF Breaks, Fails, RequestStop, toolVars
<1> QED
  BY <1>1, <1>2, <1>3, <1>4 DEF Loop

LEMMA BatchOfModel ==
  ASSUME BatchShape, Model
  PROVE  BatchShape'
<1> USE DEF BatchShape
<1>1. CASE Prepared \/ Chunk \/ FallsBack \/ ErrorAnswer \/ NoAnswer
  BY <1>1 DEF Prepared, Chunk, FallsBack, ErrorAnswer, NoAnswer, Answering, toolVars
<1>2. ASSUME NEW n \in Slots, Batch(n)
      PROVE  BatchShape'
  BY <1>2 DEF Batch
<1>3. CASE Answer
  BY <1>2, <1>3 DEF Answer, Answering, Complete, toolVars
<1>4. CASE Requeried
  BY <1>2, <1>4 DEF Requeried, Complete, toolVars
<1> QED
  BY <1>1, <1>3, <1>4 DEF Model

LEMMA BatchOfTools ==
  ASSUME BatchShape, OfBatch \/ \E i \in Slots : OfCall(i) \/ ToolEnds(i)
  PROVE  BatchShape'
<1> USE DEF BatchShape
<1>1. CASE Announce \/ SpawnStopped \/ Spawn
  BY <1>1 DEF Announce, SpawnStopped, Spawn, Abort, Fails, NoCalls, toolVars
<1>2. CASE BatchEnds
  BY <1>2 DEF BatchEnds, Abort, NoCalls
<1>3. ASSUME NEW i \in Slots, OfCall(i) \/ ToolEnds(i)
      PROVE  BatchShape'
  <2>1. CASE StartCall(i)
    BY <2>1 DEF StartCall, At
  <2>2. CASE HookDone(i) \/ ToolEnds(i)
    BY <2>2 DEF HookDone, ToolEnds, At
  <2>3. CASE StopCall(i)
    BY <2>3 DEF StopCall, At, Abort, NoCalls
  <2> QED
    BY <1>3, <2>1, <2>2, <2>3 DEF OfCall
<1> QED
  BY <1>1, <1>2, <1>3 DEF OfBatch

LEMMA BatchHolds == Spec => []BatchShape
<1>1. BatchShape /\ UNCHANGED vars => BatchShape'
  BY DEF BatchShape, vars, toolVars
<1>2. BatchShape /\ [Next]_vars => BatchShape'
  BY <1>1, BatchOfLoop, BatchOfModel, BatchOfTools DEF Next
<1> QED
  BY BatchInit, <1>2, PTL DEF Spec

-----------------------------------------------------------------------------
(* After a stop *)

Quiet ==
  /\ pc' \in {"model", "requery"} => pc' = pc
  /\ \A i \in Slots : call'[i] = "running" => call[i] = "running"

LEMMA QuietLoop ==
  ASSUME BatchShape, abort, Loop \/ RunBegins \/ Ask \/ Model \/ Breaks \/ RequestStop
  PROVE  Quiet
<1> USE DEF Quiet
<1>1. ~Ask /\ ~Model
  BY DEF Ask, Model, Prepared, Chunk, FallsBack, ErrorAnswer, NoAnswer, Answer,
         Requeried, Answering
<1>2. CASE StepBegins
  BY <1>2 DEF StepBegins, Abort, NoCalls
<1>3. CASE LoopEnds \/ Aborted \/ Completed \/ RunBegins
  BY <1>3 DEF LoopEnds, Aborted, Completed, RunBegins, toolVars
<1>4. CASE Interrupted
  BY <1>4 DEF Interrupted, Abort, NoCalls
<1>5. CASE Breaks \/ RequestStop
  BY <1>5 DEF Breaks, Fails, RequestStop, toolVars
<1> QED
  BY <1>1, <1>2, <1>3, <1>4, <1>5 DEF Loop

LEMMA QuietTools ==
  ASSUME BatchShape, abort, OfBatch \/ \E i \in Slots : OfCall(i) \/ ToolEnds(i)
  PROVE  Quiet
<1> USE DEF Quiet
<1>1. CASE Announce \/ SpawnStopped \/ Spawn
  BY <1>1 DEF Announce, SpawnStopped, Spawn, Abort, Fails, NoCalls, toolVars
<1>2. CASE BatchEnds
  BY <1>2 DEF BatchEnds, Abort, NoCalls
<1>3. ASSUME NEW i \in Slots, OfCall(i) \/ ToolEnds(i)
      PROVE  Quiet
  <2>1. StopCall(i)
    BY <1>3 DEF OfCall, StartCall, HookDone, ToolEnds
  <2>2. CASE parallel
    BY <2>1, <2>2 DEF StopCall, At, BatchShape
  <2>3. CASE ~parallel
    BY <2>1, <2>3 DEF StopCall, At, Abort, NoCalls
  <2> QED
    BY <2>2, <2>3
<1> QED
  BY <1>1, <1>2, <1>3 DEF OfBatch

(* tool_loop_agent_runner.py, request_stop: after it no request to a model *)
(* and no tool is started, in a sequential or a parallel batch of any size *)
(* and whatever raises.                                                    *)
THEOREM StoppedRunsAreQuiet == Spec => QuietAfterStop
<1>1. BatchShape /\ [Next]_vars => [abort => Quiet]_vars
  BY QuietLoop, QuietTools DEF Next
<1>2. [abort => Quiet]_vars =>
        [abort => /\ pc' \in {"model", "requery"} => pc' = pc
                  /\ \A i \in Slots : call'[i] = "running" => call[i] = "running"]_vars
  BY DEF Quiet
<1> QED
  BY <1>1, <1>2, BatchHolds, PTL DEF Spec, QuietAfterStop

-----------------------------------------------------------------------------
(* When every tool leaves something behind: a call stays without a result  *)
(* in the step beyond the limit only, and no request follows that step     *)

Speaking == MaxSteps \in Nat /\ Results = {"answered"}

AnsweredInv ==
  /\ steps \in Nat
  /\ \A i \in Slots : call[i] = "silent" => Forced
  /\ missing # 0 => Forced /\ pc \in {"loop", "ended"}

LEMMA AnsweredLoop ==
  ASSUME Speaking, BatchShape, AnsweredInv,
         Loop \/ RunBegins \/ Ask \/ Breaks \/ RequestStop
  PROVE  AnsweredInv'
<1> USE DEF AnsweredInv, Forced
<1>1. CASE StepBegins
  <2>1. /\ steps <= MaxSteps /\ steps' = steps + 1 /\ missing' = missing
        /\ call' = NoCalls
    BY <1>1 DEF StepBegins, Abort, BatchShape
  <2>2. missing = 0
    BY <2>1 DEF Speaking
  <2> QED
    BY <2>1, <2>2 DEF NoCalls
<1>2. CASE LoopEnds \/ Aborted \/ Completed \/ RunBegins \/ Ask
  BY <1>2 DEF LoopEnds, Aborted, Completed, RunBegins, Ask, toolVars
<1>3. CASE Interrupted
  BY <1>3 DEF Interrupted, Abort, NoCalls
<1>4. CASE Breaks \/ RequestStop
  BY <1>4 DEF Breaks, Fails, RequestStop, toolVars
<1> QED
  BY <1>1, <1>2, <1>3, <1>4 DEF Loop

LEMMA AnsweredModel ==
  ASSUME Speaking, BatchShape, AnsweredInv, Model
  PROVE  AnsweredInv'
<1> USE DEF AnsweredInv, Forced
<1>1. CASE Prepared \/ Chunk \/ FallsBack \/ ErrorAnswer \/ NoAnswer
  BY <1>1 DEF Prepared, Chunk, FallsBack, ErrorAnswer, NoAnswer, Answering, toolVars
<1>2. CASE Answer \/ Requeried
  <2>1. pc \in {"model", "requery"} /\ steps' = steps /\ missing' = missing
    BY <1>2 DEF Answer, Answering, Requeried
  <2>2. call' = call \/ \E n \in Slots : Batch(n)
    BY <1>2 DEF Answer, Requeried, Complete, toolVars
  <2>3. \A i \in Slots : call'[i] # "silent" \/ call'[i] = call[i]
    BY <2>2 DEF Batch
  <2> QED
    BY <2>1, <2>3
<1> QED
  BY <1>1, <1>2 DEF Model

LEMMA AnsweredTools ==
  ASSUME Speaking, BatchShape, AnsweredInv,
         OfBatch \/ \E i \in Slots : OfCall(i) \/ ToolEnds(i)
  PROVE  AnsweredInv'
<1> USE DEF AnsweredInv, Forced
<1>1. CASE Announce \/ SpawnStopped \/ Spawn
  BY <1>1 DEF Announce, SpawnStopped, Spawn, Abort, Fails, NoCalls, toolVars
<1>2. CASE BatchEnds
  <2>1. pc = "calls" /\ missing = 0 /\ steps' = steps /\ call' = NoCalls
    BY <1>2 DEF BatchEnds, Abort
  <2>2. CASE \E i \in Slots : call[i] = "dropped"
    BY <1>2, <2>1, <2>2 DEF BatchEnds, NoCalls
  <2>3. CASE ~\E i \in Slots : call[i] = "dropped"
    <3>1. /\ missing' = Cardinality({i \in Slots : call[i] = "silent"}) \/ Forced
          /\ pc' = "loop"
      BY <1>2, <2>1, <2>3, ~Forced => {i \in Slots : call[i] = "silent"} = {},
         FS_EmptySet DEF BatchEnds
    <3>2. ~Forced => missing' = 0
      BY <3>1, FS_EmptySet, ~Forced => {i \in Slots : call[i] = "silent"} = {}
    <3> QED
      BY <2>1, <3>1, <3>2 DEF NoCalls
  <2> QED
    BY <2>2, <2>3
<1>3. ASSUME NEW i \in Slots, OfCall(i) \/ ToolEnds(i)
      PROVE  AnsweredInv'
  <2>1. pc = "calls" /\ missing = 0 /\ steps' = steps /\ missing' = missing
    BY <1>3 DEF OfCall, StartCall, HookDone, StopCall, ToolEnds, At
  <2>2. \A j \in Slots : call'[j] = "silent" => Forced
    <3>1. CASE StartCall(i)
      BY <3>1 DEF StartCall, BatchShape
    <3>2. CASE HookDone(i) \/ ToolEnds(i)
      BY <3>2 DEF HookDone, ToolEnds, BatchShape, Speaking
    <3>3. CASE StopCall(i)
      BY <3>3 DEF StopCall, Abort, NoCalls, BatchShape
    <3> QED
      BY <1>3, <3>1, <3>2, <3>3 DEF OfCall
  <2> QED
    BY <2>1, <2>2
<1> QED
  BY <1>1, <1>2, <1>3 DEF OfBatch

(* truncator.py ("a requirement of the OpenAI Chat Completions API"): when *)
(* every tool leaves an answer behind, every call in the context has its   *)
(* result whenever the model is asked, the step beyond the limit included. *)
THEOREM CallsAreAnswered ==
  ASSUME Speaking
  PROVE  Spec => []CallsAnswered
<1>1. Init => AnsweredInv
  BY DEF Init, AnsweredInv, NoCalls
<1>2. AnsweredInv /\ UNCHANGED vars => AnsweredInv'
  BY DEF AnsweredInv, Forced, vars, toolVars
<1>3. BatchShape /\ AnsweredInv /\ [Next]_vars => AnsweredInv'
  BY <1>2, AnsweredLoop, AnsweredModel, AnsweredTools DEF Next
<1>4. AnsweredInv => CallsAnswered
  BY DEF AnsweredInv, CallsAnswered
<1> QED
  BY <1>1, <1>3, <1>4, BatchHolds, PTL DEF Spec

-----------------------------------------------------------------------------
(* Types, and how many calls can be left without a result                  *)

Limits ==
  /\ MaxSteps \in Nat /\ MaxCalls \in Nat /\ Fallbacks \in Nat
  /\ Results \subseteq {"answered", "silent"}

InStep == {"preparing", "asking", "model", "requery", "announcing", "announced", "calls"}

(* Everything but the number of unanswered calls.                          *)
Shapes ==
  /\ pc \in {"idle", "loop", "completing", "aborting", "ended"} \cup InStep
  /\ steps \in 0 .. MaxSteps + 1
  /\ state \in {"idle", "running", "done", "error"}
  /\ abort \in BOOLEAN
  /\ outcome \in {"none", "answered", "limit", "aborted", "failed"}
  /\ provider \in 0 .. Fallbacks
  /\ tried \in 0 .. Fallbacks
  /\ spoke \subseteq 0 .. Fallbacks
  /\ parallel \in BOOLEAN
  /\ call \in [Slots -> {"none", "todo", "starting", "running"} \cup Finished]

(* What the steps until now may have left, the one on its way excepted.    *)
Room(n) == MaxCalls * n

RoomLeft ==
  /\ missing \in Nat
  /\ missing <= Room(steps)
  /\ pc \in InStep => steps > 0 /\ missing <= Room(steps - 1)

LEMMA RoomGrows ==
  ASSUME Limits, NEW n \in Nat
  PROVE  /\ Room(n) \in Nat
         /\ Room(n + 1) = Room(n) + MaxCalls
         /\ Room(0) = 0
         /\ \A m \in 0 .. n : Room(m) <= Room(n)
<1> USE DEF Limits, Room
<1>1. Room(n) \in Nat /\ Room(n + 1) = Room(n) + MaxCalls /\ Room(0) = 0
  OBVIOUS
<1>2. ASSUME NEW m \in 0 .. n PROVE Room(m) <= Room(n)
  <2>1. n - m \in Nat /\ MaxCalls * (n - m) \in Nat
    OBVIOUS
  <2>2. MaxCalls * n = MaxCalls * m + MaxCalls * (n - m)
    OBVIOUS
  <2>3. MaxCalls * m \in Nat
    OBVIOUS
  <2> QED
    BY <2>1, <2>2, <2>3
<1> QED
  BY <1>1, <1>2

(* A step that leaves the count and the number of steps alone.             *)
LEMMA RoomKept ==
  ASSUME RoomLeft, steps' = steps, missing' = missing \/ missing' = 0,
         pc' \in InStep => pc \in InStep, Limits, steps \in Nat
  PROVE  RoomLeft'
<1>1. Room(steps) \in Nat
  BY RoomGrows
<1>2. steps > 0 => steps - 1 \in Nat /\ Room(steps - 1) \in Nat
  BY RoomGrows
<1> QED
  BY <1>1, <1>2 DEF RoomLeft, Room

LEMMA TypesOfLoop ==
  ASSUME Limits, Shapes, RoomLeft, Loop \/ RunBegins \/ Ask \/ Breaks \/ RequestStop
  PROVE  Shapes' /\ RoomLeft'
<1>1. steps \in Nat
  BY DEF Shapes, Limits
<1>2. CASE StepBegins
  <2>1. steps' = steps + 1 /\ missing' = missing /\ steps <= MaxSteps
    BY <1>2 DEF StepBegins
  <2>2. Shapes'
    BY <1>2, <2>1 DEF StepBegins, Abort, NoCalls, Shapes, InStep, Limits
  <2>3. RoomLeft'
    <3>1. Room(steps + 1) = Room(steps) + MaxCalls /\ Room(steps) \in Nat
      BY <1>1, RoomGrows
    <3>2. steps + 1 - 1 = steps
      BY <1>1
    <3>3. missing <= Room(steps + 1) /\ missing <= Room(steps + 1 - 1)
      BY <3>1, <3>2 DEF RoomLeft, Limits
    <3> QED
      BY <1>1, <2>1, <3>3 DEF RoomLeft, Room
  <2> QED
    BY <2>2, <2>3
<1>3. CASE LoopEnds \/ Aborted \/ Completed \/ RunBegins \/ Ask
  <2>1. Shapes' /\ steps' = steps /\ missing' = missing /\ (pc' \in InStep => pc \in InStep)
    BY <1>3 DEF LoopEnds, Aborted, Completed, RunBegins, Ask, Shapes, modelVars,
                toolVars, InStep
  <2> QED
    BY <1>1, <2>1, RoomKept
<1>4. CASE Interrupted \/ Breaks \/ RequestStop
  <2>1. Shapes' /\ steps' = steps /\ missing' = missing /\ (pc' \in InStep => pc \in InStep)
    BY <1>4 DEF Interrupted, Abort, NoCalls, Breaks, Fails, RequestStop, Shapes,
                modelVars, toolVars, InStep
  <2> QED
    BY <1>1, <2>1, RoomKept
<1> QED
  BY <1>2, <1>3, <1>4 DEF Loop

LEMMA TypesOfModel ==
  ASSUME Limits, Shapes, RoomLeft, Model
  PROVE  Shapes' /\ RoomLeft'
<1>1. steps \in Nat
  BY DEF Shapes, Limits
<1>2. /\ steps' = steps /\ (missing' = missing \/ missing' = 0)
      /\ pc \in InStep
  BY DEF Model, Prepared, Chunk, FallsBack, ErrorAnswer, NoAnswer, Answering, Answer,
         Requeried, InStep
<1>3. RoomLeft'
  BY <1>1, <1>2, RoomKept
<1>4. CASE Prepared \/ Chunk \/ FallsBack \/ ErrorAnswer \/ NoAnswer
  <2>1. ASSUME FallsBack PROVE Shapes'
    BY <2>1 DEF FallsBack, Answering, Shapes, InStep, toolVars, Limits
  <2>2. ASSUME Chunk PROVE Shapes'
    BY <2>2 DEF Chunk, Answering, Shapes, InStep, toolVars
  <2>3. ASSUME Prepared PROVE Shapes'
    BY <2>3 DEF Prepared, Shapes, InStep, toolVars, Limits
  <2>4. ASSUME ErrorAnswer \/ NoAnswer PROVE Shapes'
    BY <2>4 DEF ErrorAnswer, NoAnswer, Answering, Shapes, InStep, modelVars, toolVars
  <2> QED
    BY <1>3, <1>4, <2>1, <2>2, <2>3, <2>4
<1>5. ASSUME NEW n \in Slots, Batch(n),
             UNCHANGED <<steps, abort, outcome, modelVars, missing>>
      PROVE  Shapes'
  BY <1>5 DEF Batch, Shapes, InStep, modelVars
<1>6. CASE Answer \/ Requeried
  <2>1. UNCHANGED <<steps, abort, outcome, modelVars, missing>>
    BY <1>6 DEF Answer, Requeried
  <2>2. CASE \E n \in Slots : Batch(n)
    BY <1>3, <1>5, <2>1, <2>2
  <2>3. CASE Complete \/ (pc' = "requery" /\ UNCHANGED <<state, toolVars>>)
    BY <1>3, <2>1, <2>3 DEF Complete, Shapes, InStep, modelVars, toolVars
  <2> QED
    BY <1>6, <2>2, <2>3 DEF Answer, Requeried
<1> QED
  BY <1>3, <1>4, <1>6 DEF Model

LEMMA TypesOfTools ==
  ASSUME Limits, Shapes, RoomLeft,
         OfBatch \/ \E i \in Slots : OfCall(i) \/ ToolEnds(i)
  PROVE  Shapes' /\ RoomLeft'
<1>1. steps \in Nat
  BY DEF Shapes, Limits
<1>2. CASE Announce \/ SpawnStopped \/ Spawn
  <2>1. Shapes' /\ steps' = steps /\ missing' = missing /\ pc \in InStep
    BY <1>2 DEF Announce, SpawnStopped, Spawn, Abort, Fails, NoCalls, Shapes, InStep,
                modelVars, toolVars
  <2> QED
    BY <1>1, <2>1, RoomKept
<1>3. CASE BatchEnds
  <2>1. Shapes' /\ steps' = steps /\ pc \in InStep
    BY <1>3 DEF BatchEnds, Abort, NoCalls, Shapes, InStep, modelVars
  <2>2. CASE missing' = missing
    BY <1>1, <2>1, <2>2, RoomKept
  <2>3. CASE missing' # missing
    <3>1. pc' = "loop" /\ missing' = missing + Cardinality({i \in Slots : call[i] = "silent"})
      BY <1>3, <2>3 DEF BatchEnds
    <3>2. /\ Cardinality({i \in Slots : call[i] = "silent"}) \in Nat
          /\ Cardinality({i \in Slots : call[i] = "silent"}) <= MaxCalls
      <4>1. IsFiniteSet(Slots) /\ Cardinality(Slots) = MaxCalls
        BY FS_Interval DEF Slots, Limits
      <4>2. {i \in Slots : call[i] = "silent"} \subseteq Slots
        OBVIOUS
      <4>3. IsFiniteSet({i \in Slots : call[i] = "silent"})
        BY <4>1, <4>2, FS_Subset
      <4> QED
        BY <4>1, <4>2, <4>3, FS_Subset, FS_CardinalityType
    <3>3. steps > 0 /\ missing \in Nat /\ missing <= Room(steps - 1) /\ pc' \notin InStep
      BY <2>1, <3>1 DEF RoomLeft, InStep
    <3>4. steps - 1 \in Nat /\ steps - 1 + 1 = steps
      BY <1>1, <3>3
    <3>5. Room(steps) = Room(steps - 1) + MaxCalls /\ Room(steps - 1) \in Nat
      BY <3>4, RoomGrows
    <3>6. missing' \in Nat /\ missing' <= Room(steps)
      BY <3>1, <3>2, <3>3, <3>5 DEF Limits
    <3> QED
      BY <2>1, <3>3, <3>6 DEF RoomLeft, Room
  <2> QED
    BY <2>2, <2>3
<1>4. ASSUME NEW i \in Slots, OfCall(i) \/ ToolEnds(i)
      PROVE  Shapes' /\ RoomLeft'
  <2>1. steps' = steps /\ missing' = missing /\ pc \in InStep
    BY <1>4 DEF OfCall, StartCall, HookDone, StopCall, ToolEnds, At, InStep
  <2>2. Shapes'
    <3>1. CASE StartCall(i) \/ HookDone(i) \/ StopCall(i)
      BY <3>1 DEF StartCall, HookDone, StopCall, Abort, NoCalls, Shapes, Finished, modelVars
    <3>2. CASE ToolEnds(i)
      BY <3>2 DEF ToolEnds, Shapes, Finished, modelVars, Limits
    <3> QED
      BY <1>4, <3>1, <3>2 DEF OfCall
  <2> QED
    BY <1>1, <2>1, <2>2, RoomKept
<1> QED
  BY <1>2, <1>3, <1>4 DEF OfBatch

(* Every variable keeps its type.  The bound of the unanswered calls is    *)
(* that every step but the one on its way may leave a whole batch of them. *)
THEOREM TypeCorrectness ==
  ASSUME Limits
  PROVE  Spec => []TypeOK
<1>1. Init => Shapes /\ RoomLeft
  <2>1. Room(0) = 0
    BY RoomGrows
  <2>2. Init => Shapes
    <3> SUFFICES ASSUME Init PROVE Shapes
      OBVIOUS
    <3>1. steps \in 0 .. MaxSteps + 1 /\ provider \in 0 .. Fallbacks /\ tried \in 0 .. Fallbacks
      BY DEF Init, Limits
    <3>2. call \in [Slots -> {"none", "todo", "starting", "running"} \cup Finished]
      BY DEF Init, NoCalls
    <3>3. spoke \subseteq 0 .. Fallbacks
      BY DEF Init
    <3> QED
      BY <3>1, <3>2, <3>3 DEF Init, Shapes
  <2>3. Init => RoomLeft
    BY <2>1 DEF Init, RoomLeft, InStep
  <2> QED
    BY <2>2, <2>3
<1>2. Shapes /\ RoomLeft /\ [Next]_vars => Shapes' /\ RoomLeft'
  <2>1. Shapes /\ RoomLeft /\ UNCHANGED vars => Shapes' /\ RoomLeft'
    BY DEF Shapes, RoomLeft, Room, vars, modelVars, toolVars
  <2> QED
    BY <2>1, TypesOfLoop, TypesOfModel, TypesOfTools DEF Next
<1>3. Shapes /\ RoomLeft => TypeOK
  <2> SUFFICES ASSUME Shapes, RoomLeft PROVE TypeOK
    OBVIOUS
  <2>1. MaxSteps + 1 \in Nat /\ steps \in 0 .. MaxSteps + 1
    BY DEF Shapes, Limits
  <2>2. Room(steps) <= Room(MaxSteps + 1) /\ Room(steps) \in Nat /\ Room(MaxSteps + 1) \in Nat
    BY <2>1, RoomGrows
  <2>3. missing \in 0 .. MaxCalls * (MaxSteps + 1)
    BY <2>2 DEF RoomLeft, Room
  <2> QED
    BY <2>3 DEF Shapes, TypeOK, InStep
<1> QED
  BY <1>1, <1>2, <1>3, PTL DEF Spec
=============================================================================
