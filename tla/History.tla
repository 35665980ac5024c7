------------------------------ MODULE History -------------------------------
(***************************************************************************)
(* assistant_history.py for one conversation: a turn takes a snapshot of   *)
(* the stored history when its agent is built, and commits it, with its    *)
(* own messages at the end, after the answer was delivered.  Turns of      *)
(* several senders of a group run at once and their commits are merged;    *)
(* elsewhere the session lock lets one turn run at a time.                 *)
(*                                                                         *)
(* A turn leaves up to three pieces of history: a summary of what was      *)
(* before, its question, and its answer with all that led to it.  What is  *)
(* merged is the unit, which begins with the last user message of the turn *)
(* and so need not hold the question: tool images and the forced last step *)
(* are user messages, too.  Histories are compared by what their messages  *)
(* look like (roles and lengths), never by their text.                     *)
(***************************************************************************)
EXTENDS FiniteSets, WaitQueue

CONSTANTS
  Turns,
  Crons,       \* woken agents, which write the history themselves
  Look,        \* Look[p]: what the comparison of histories sees of a piece
  Merging,     \* group sender concurrency is on
  Disturbers   \* who else may interfere: a set of the strings used below

Old == <<"old", "history">>   \* what is stored in the beginning
Summary(t) == <<t, "summary">>
Question(t) == <<t, "question">>
Answer(t) == <<t, "answer">>
Parts(t) == {Summary(t), Question(t), Answer(t)}
Woken(c) == <<c, "woken">>    \* what a woken agent adds
Pieces == {Old} \cup (UNION {Parts(t) : t \in Turns}) \cup {Woken(c) : c \in Crons}

VARIABLES
  stored,     \* the history in the database
  issued,     \* _sequence
  latest,     \* _latest_sequence_by_conversation
  receipt,    \* _structure_receipts: the one of this conversation, if any
  turn,       \* turn[t]: how far a turn is
  number,     \* number[t]: its sequence
  base,       \* base[t]: the snapshot it began with
  lead,       \* lead[t]: its own snapshot up to the unit
  unit,       \* unit[t]: its own snapshot from the last user message on
  text,       \* text[t]: what it is about to write
  queue,      \* the turns at the lock of the conversation; the first has it
  cron,       \* cron[c]: how far a woken agent is
  seen,       \* seen[c]: the snapshot it began with
  committed,  \* pieces of turns whose commit returned True
  gone,       \* pieces that a turn has compacted or an edit has removed
  disturbed   \* somebody has interfered with the committer, or the looks
              \* of two histories have misled it

turnVars == <<turn, number, base, lead, unit, text, queue>>
cronVars == <<cron, seen>>
vars == <<stored, issued, latest, receipt, turnVars, cronVars, committed, gone, disturbed>>

(* _history_struct_summary                                                 *)
Shape(h) == [i \in DOMAIN h |-> Look[h[i]]]

TypeOK ==
  /\ stored \in Seq(Pieces)
  /\ issued \in 0 .. Cardinality(Turns)
  /\ latest \in 0 .. issued
  /\ turn \in [Turns -> {"idle", "built", "running", "waiting", "loading", "writing", "over"}]
  /\ \A t \in Turns : number[t] \in 0 .. issued
  /\ Members(queue) \subseteq {t \in Turns : turn[t] \in {"waiting", "loading", "writing"}}
  /\ cron \in [Crons -> {"idle", "running", "over"}]
  /\ committed \cup gone \subseteq Pieces

Init ==
  /\ stored = <<Old>>
  /\ issued = 0
  /\ latest = 0
  /\ receipt = {}
  /\ turn = [t \in Turns |-> "idle"]
  /\ number = [t \in Turns |-> 0]
  /\ base = [t \in Turns |-> <<>>]
  /\ lead = [t \in Turns |-> <<>>]
  /\ unit = [t \in Turns |-> <<>>]
  /\ text = [t \in Turns |-> <<>>]
  /\ queue = <<>>
  /\ cron = [c \in Crons |-> "idle"]
  /\ seen = [c \in Crons |-> <<>>]
  /\ committed = {}
  /\ gone = {}
  /\ disturbed = FALSE

Goes(t, pc) == turn' = [turn EXCEPT ![t] = pc]

-----------------------------------------------------------------------------
(* A turn until it commits *)

(* The agent is built with the stored history, under the session lock.     *)
Builds(t) ==
  /\ turn[t] = "idle"
  /\ Merging \/ \A u \in Turns : turn[u] \in {"idle", "over"}
  /\ Goes(t, "built")
  /\ base' = [base EXCEPT ![t] = stored]
  /\ UNCHANGED <<stored, issued, latest, receipt, number, lead, unit, text, queue,
                 cronVars, committed, gone, disturbed>>

(* next_sequence, and the agent runs.                                      *)
Numbers(t) ==
  /\ turn[t] = "built"
  /\ Goes(t, "running")
  /\ issued' = issued + 1
  /\ number' = [number EXCEPT ![t] = issued + 1]
  /\ UNCHANGED <<stored, latest, receipt, base, lead, unit, text, queue,
                 cronVars, committed, gone, disturbed>>

(* What the run leaves of the snapshot it began with: all of it, or what   *)
(* follows one of the later user messages, behind a summary or not.        *)
Cuts(t) == {i \in 2 .. Len(base[t]) + 1 : i <= Len(base[t]) => base[t][i][2] # "answer"}
Ends(t) == {SubSeq(base[t], i, Len(base[t])) : i \in Cuts(t)}
Lefts(t) == {base[t]} \cup Ends(t) \cup {<<Summary(t)>> \o r : r \in Ends(t)}

(* The lead and the unit of its own snapshot (_history_merge_fields).  The *)
(* last user message is the question; or a later one, which is part of the *)
(* answer here, with the question before it or compacted as well; or the   *)
(* summary.  A plugin may have removed every user message: no unit then.   *)
Snapshots(t) ==
  {<<l, <<Question(t), Answer(t)>>>> : l \in Lefts(t)}
  \cup {<<Append(l, Question(t)), <<Answer(t)>>>> : l \in Lefts(t)}
  \cup {<<<<>>, <<Answer(t)>>>>, <<<<>>, <<Summary(t), Answer(t)>>>>}
  \cup {<<Append(l, Answer(t)), <<>>>> : l \in IF "unmarked" \in Disturbers THEN Lefts(t) ELSE {}}

(* The answer was delivered and commit() is called; the context may have   *)
(* been compacted meanwhile.                                               *)
Delivered(t) ==
  /\ turn[t] = "running"
  /\ Goes(t, "waiting")
  /\ \E s \in Snapshots(t) :
       lead' = [lead EXCEPT ![t] = s[1]] /\ unit' = [unit EXCEPT ![t] = s[2]]
  /\ queue' = Append(queue, t)
  /\ UNCHANGED <<stored, issued, latest, receipt, number, base, text,
                 cronVars, committed, gone, disturbed>>

(* Nothing was delivered: there is nothing to commit.                      *)
Undelivered(t) ==
  /\ turn[t] \in {"built", "running"}
  /\ Goes(t, "over")
  /\ UNCHANGED <<stored, issued, latest, receipt, number, base, lead, unit, text, queue,
                 cronVars, committed, gone, disturbed>>

-----------------------------------------------------------------------------
(* commit() *)

Holds(t, pc) == turn[t] = pc /\ queue # <<>> /\ Head(queue) = t

Leaves(t) ==
  /\ Goes(t, "over")
  /\ queue' = Kept(queue, Turns \ {t})

(* What the turn would write if it were alone.                             *)
Own(t) == lead[t] \o unit[t]

(* Older than what was committed last, the turn is not written at all.     *)
Stale(t) == number[t] < latest

(* Without a user message there is nothing to merge (unit_start is None):  *)
(* the turn is written as it is, over what others have committed.          *)
Unmerged(t) == Merging /\ unit[t] = <<>>

EntersCommit(t) ==
  /\ Holds(t, "waiting")
  /\ IF Stale(t)
       THEN Leaves(t) /\ UNCHANGED <<text, disturbed>>
       ELSE /\ Goes(t, IF Merging /\ ~Unmerged(t) THEN "loading" ELSE "writing")
            /\ text' = [text EXCEPT ![t] = Own(t)]
            /\ disturbed' = (disturbed \/ Unmerged(t))
            /\ UNCHANGED queue
  /\ UNCHANGED <<stored, issued, latest, receipt, number, base, lead, unit,
                 cronVars, committed, gone>>

StartsWith(h, b) == Len(b) <= Len(h) /\ Shape(SubSeq(h, 1, Len(b))) = Shape(b)

(* What others have added behind the snapshot of the turn.                 *)
Rest(t) == SubSeq(stored, Len(base[t]) + 1, Len(stored))

(* Mutant: what others have committed meanwhile is left out.               *)
MergedOwnOnly(t) == Own(t)

(* Mutant: the snapshot of the turn wins over a history that was shortened. *)
MergedWithBase(t) ==
  IF Shape(stored) = Shape(base[t]) \/ receipt # {Shape(stored)}
    THEN Own(t)
    ELSE lead[t] \o Rest(t) \o unit[t]

(* _merge_concurrent_history, for a turn with a unit                       *)
Merged(t) ==
  IF Shape(stored) = Shape(base[t]) \/ receipt # {Shape(stored)}
    THEN Own(t)
    ELSE IF StartsWith(stored, base[t])
           THEN lead[t] \o Rest(t) \o unit[t]
           ELSE stored \o unit[t]

(* The history looks as if it began with the snapshot, and does not.       *)
Misled(t) ==
  StartsWith(stored, base[t]) /\ SubSeq(stored, 1, Len(base[t])) # base[t]

Loads(t) ==
  /\ Holds(t, "loading")
  /\ Goes(t, "writing")
  /\ text' = [text EXCEPT ![t] = Merged(t)]
  /\ disturbed' = (disturbed \/ Misled(t))
  /\ UNCHANGED <<stored, issued, latest, receipt, number, base, lead, unit, queue,
                 cronVars, committed, gone>>

(* The history cannot be loaded: the turn writes what it has.              *)
LoadFails(t) ==
  /\ "unread" \in Disturbers
  /\ Holds(t, "loading")
  /\ Goes(t, "writing")
  /\ disturbed' = TRUE
  /\ UNCHANGED <<stored, issued, latest, receipt, number, base, lead, unit, text, queue,
                 cronVars, committed, gone>>

Writes(t) ==
  /\ Holds(t, "writing")
  /\ stored' = text[t]
  /\ latest' = number[t]
  /\ receipt' = {Shape(text[t])}
  /\ committed' = committed \cup (Parts(t) \cap (Members(unit[t]) \cup Members(text[t])))
  /\ gone' = gone \cup (Members(base[t]) \ (Members(Own(t)) \cup Members(text[t])))
  /\ Leaves(t)
  /\ UNCHANGED <<issued, number, base, lead, unit, text, cronVars, disturbed>>

(* The update fails or the task is cancelled; a cancellation may come when *)
(* the database has already taken the update.                              *)
Fails(t) ==
  /\ turn[t] \in {"waiting", "loading", "writing"}
  /\ Leaves(t)
  /\ \/ UNCHANGED <<stored, disturbed>>
     \/ /\ "late" \in Disturbers
        /\ Holds(t, "writing")
        /\ stored' = text[t]
        /\ disturbed' = TRUE
  /\ UNCHANGED <<issued, latest, receipt, number, base, lead, unit, text,
                 cronVars, committed, gone>>

-----------------------------------------------------------------------------
(* Others *)

(* _wake_main_agent and the woken agent of a cron job, without a lock.     *)
CronBegins(c) ==
  /\ "cron" \in Disturbers
  /\ cron[c] = "idle"
  /\ cron' = [cron EXCEPT ![c] = "running"]
  /\ seen' = [seen EXCEPT ![c] = stored]
  /\ UNCHANGED <<stored, issued, latest, receipt, turnVars, committed, gone, disturbed>>

(* persist_agent_history                                                   *)
CronWrites(c) ==
  /\ cron[c] = "running"
  /\ cron' = [cron EXCEPT ![c] = "over"]
  /\ stored' = Append(seen[c], Woken(c))
  /\ disturbed' = TRUE
  /\ UNCHANGED <<issued, latest, receipt, turnVars, seen, committed, gone>>

(* The user empties the history in the dashboard.                          *)
Edited ==
  /\ "edit" \in Disturbers
  /\ ~disturbed
  /\ stored' = <<>>
  /\ gone' = gone \cup Members(stored)
  /\ disturbed' = TRUE
  /\ UNCHANGED <<issued, latest, receipt, turnVars, cronVars, committed>>

(* Other conversations push this one out of the tables.                    *)
Forgotten ==
  /\ "busy" \in Disturbers
  /\ receipt # {}
  /\ receipt' = {}
  /\ \/ latest' = latest
     \/ queue = <<>> /\ latest' = 0
  /\ disturbed' = TRUE
  /\ UNCHANGED <<stored, issued, turnVars, cronVars, committed, gone>>

-----------------------------------------------------------------------------

Next ==
  \/ \E t \in Turns :
       \/ Builds(t) \/ Numbers(t) \/ Delivered(t) \/ Undelivered(t)
       \/ EntersCommit(t) \/ Loads(t) \/ LoadFails(t) \/ Writes(t) \/ Fails(t)
  \/ \E c \in Crons : CronBegins(c) \/ CronWrites(c)
  \/ Edited \/ Forgotten

Spec == Init /\ [][Next]_vars

-----------------------------------------------------------------------------
(* Properties *)

(* An older snapshot cannot overwrite newer data: what a commit has stored *)
(* of its turn stays in the history until a later turn compacts it or the  *)
(* user removes it.                                                        *)
CommittedStays == committed \subseteq Members(stored) \cup gone

(* The same, as long as only the committer writes and remembers the shape  *)
(* of what it wrote last, every turn that it merges has a user message, and *)
(* no history that it compares looks like another one.                     *)
CommittedStaysAlone == ~disturbed => CommittedStays

(* What a turn has compacted is not brought back by a turn that began      *)
(* before: "never resurrects truncated history".  Under the conditions of  *)
(* CommittedStaysAlone.                                                    *)
NoResurrection == ~disturbed => Members(stored) \cap gone = {}

(* A turn is merged as a whole: with its answer, the question that it would *)
(* have stored if it were alone is in the history, or compacted later      *)
(* (architecture.md: the committer "merges other senders' complete turns").*)
CompleteTurns ==
  ~disturbed => \A t \in Turns :
    Answer(t) \in committed /\ Question(t) \in Members(Own(t)) =>
      Question(t) \in Members(stored) \cup gone
=============================================================================
