-------------------------------- MODULE Cron --------------------------------
(***************************************************************************)
(* cron/manager.py for one job: its row in the database, its entry in the  *)
(* scheduler and its runs.  Runs are fired by the scheduler or asked for   *)
(* by hand; the job may be updated and deleted meanwhile, and a one-shot   *)
(* job deletes itself at the end of its run.                               *)
(*                                                                         *)
(* Jobs share nothing but the scheduler.  Cron expressions, time zones and *)
(* the next run time are left out, and so is shutdown, which leaves the    *)
(* runs to the scheduler.                                                  *)
(***************************************************************************)
EXTENDS Naturals, FiniteSets

CONSTANTS
  Runs,       \* calls of _run_job
  Deleters,   \* calls of delete_job from outside
  Updaters    \* calls of update_job

VARIABLES
  row,        \* the job is in the database
  enabled, once,   \* columns of the row
  scheduled,  \* the scheduler has the job
  deleting,   \* _deleting_jobs[job_id]
  busy,       \* _running_job_ids has the job
  run,        \* run[r]: how far a run is
  manual,     \* runs asked for by hand (run_job_now)
  cancelled,  \* runs that were cancelled and have not resumed yet
  deleter,    \* deleter[d]: how far a deletion is
  waits,      \* waits[d]: the runs it drains
  updater     \* updater[u]: how far an update is

jobVars == <<row, enabled, once, scheduled>>
runVars == <<busy, run, manual, cancelled>>
vars == <<jobVars, deleting, runVars, deleter, waits, updater>>

(* _running_tasks                                                          *)
Tracked == {r \in Runs : run[r] \notin {"idle", "over"}}

TypeOK ==
  /\ {row, enabled, once, scheduled, busy} \subseteq BOOLEAN
  /\ deleting \in 0 .. Cardinality(Deleters) + 1
  /\ run \in [Runs -> {"idle", "reading", "marking", "executing", "recording",
                       "unwinding", "erasing", "over"}]
  /\ {manual, cancelled} \subseteq SUBSET Runs
  /\ deleter \in [Deleters -> {"idle", "draining", "erasing", "done"}]
  /\ waits \in [Deleters -> SUBSET Runs]
  /\ updater \in [Updaters -> {"idle", "writing", "enabled", "disabled", "done"}]

(* The job has just been added.                                            *)
Init ==
  /\ row = TRUE
  /\ enabled \in BOOLEAN
  /\ once \in BOOLEAN
  /\ scheduled = enabled
  /\ deleting = 0
  /\ busy = FALSE
  /\ run = [r \in Runs |-> "idle"]
  /\ manual = {}
  /\ cancelled = {}
  /\ deleter = [d \in Deleters |-> "idle"]
  /\ waits = [d \in Deleters |-> {}]
  /\ updater = [u \in Updaters |-> "idle"]

-----------------------------------------------------------------------------
(* A run *)

(* A second run of the job is skipped; one that begins during a deletion   *)
(* returns at once.                                                        *)
Begins(r, byHand) ==
  /\ run[r] = "idle"
  /\ manual' = IF byHand THEN manual \cup {r} ELSE manual
  /\ IF busy \/ deleting > 0
       THEN run' = [run EXCEPT ![r] = "over"] /\ UNCHANGED busy
       ELSE run' = [run EXCEPT ![r] = "reading"] /\ busy' = TRUE
  /\ UNCHANGED <<row, enabled, once, deleting, cancelled, deleter, waits, updater>>

(* The date of a one-shot job comes only once.                             *)
Fires(r) ==
  /\ scheduled
  /\ scheduled' = ~once
  /\ Begins(r, FALSE)

RunNow(r) == Begins(r, TRUE) /\ UNCHANGED scheduled

At(r, pc) == run[r] = pc /\ r \notin cancelled
Goes(r, pc) == run' = [run EXCEPT ![r] = pc]

Leaves(r) ==
  /\ Goes(r, "over")
  /\ busy' = FALSE
  /\ cancelled' = cancelled \ {r}

ReadsRow(r) ==
  /\ At(r, "reading")
  /\ IF row /\ (enabled \/ r \in manual)
       THEN Goes(r, "marking") /\ UNCHANGED <<busy, cancelled>>
       ELSE Leaves(r)
  /\ UNCHANGED <<jobVars, deleting, manual, deleter, waits, updater>>

Marked(r) ==
  /\ At(r, "marking")
  /\ Goes(r, "executing")
  /\ UNCHANGED <<jobVars, deleting, busy, manual, cancelled, deleter, waits, updater>>

(* The handler or the agent ends or fails; the outcome is written.         *)
Executed(r) ==
  /\ At(r, "executing")
  /\ Goes(r, "recording")
  /\ UNCHANGED <<jobVars, deleting, busy, manual, cancelled, deleter, waits, updater>>

(* A one-shot run goes on with delete_job, which has nothing to drain but  *)
(* the run itself.                                                         *)
Recorded(r) ==
  /\ At(r, "recording")
  /\ IF once /\ r \notin manual
       THEN /\ Goes(r, "erasing")
            /\ deleting' = deleting + 1
            /\ scheduled' = FALSE
            /\ UNCHANGED <<busy, cancelled>>
       ELSE Leaves(r) /\ UNCHANGED <<deleting, scheduled>>
  /\ UNCHANGED <<row, enabled, once, manual, deleter, waits, updater>>

(* Mutant: the marker is removed by the deletion that ends first.          *)
UnmarkedAll == deleting' = 0

Unmarked == deleting' = deleting - 1

SelfDeleted(r) ==
  /\ At(r, "erasing")
  /\ row' = FALSE
  /\ Unmarked
  /\ Leaves(r)
  /\ UNCHANGED <<enabled, once, scheduled, manual, deleter, waits, updater>>

(* A cancelled run resumes: a job that was executing still writes that it  *)
(* was cancelled, a deletion that was on its way may have come through.    *)
Resumes(r) ==
  /\ r \in cancelled
  /\ IF run[r] = "executing"
       THEN /\ Goes(r, "unwinding")
            /\ cancelled' = cancelled \ {r}
            /\ UNCHANGED <<row, deleting, busy>>
       ELSE /\ Leaves(r)
            /\ IF run[r] = "erasing"
                 THEN row' \in {row, FALSE} /\ Unmarked
                 ELSE UNCHANGED <<row, deleting>>
  /\ UNCHANGED <<enabled, once, scheduled, manual, deleter, waits, updater>>

Unwound(r) ==
  /\ At(r, "unwinding")
  /\ Leaves(r)
  /\ UNCHANGED <<jobVars, deleting, manual, deleter, waits, updater>>

-----------------------------------------------------------------------------
(* delete_job *)

DeleteBegins(d) ==
  /\ deleter[d] = "idle"
  /\ deleter' = [deleter EXCEPT ![d] = "draining"]
  /\ deleting' = deleting + 1
  /\ scheduled' = FALSE
  /\ waits' = [waits EXCEPT ![d] = Tracked]
  /\ cancelled' = cancelled \cup Tracked
  /\ UNCHANGED <<row, enabled, once, busy, run, manual, updater>>

Drained(d) ==
  /\ deleter[d] = "draining"
  /\ \A r \in waits[d] : run[r] = "over"
  /\ deleter' = [deleter EXCEPT ![d] = "erasing"]
  /\ UNCHANGED <<jobVars, deleting, runVars, waits, updater>>

Erased(d) ==
  /\ deleter[d] = "erasing"
  /\ deleter' = [deleter EXCEPT ![d] = "done"]
  /\ waits' = [waits EXCEPT ![d] = {}]
  /\ row' = FALSE
  /\ Unmarked
  /\ UNCHANGED <<enabled, once, scheduled, runVars, updater>>

-----------------------------------------------------------------------------
(* update_job reads, writes, and schedules what it has written *)

UpdateBegins(u) ==
  /\ updater[u] = "idle"
  /\ updater' = [updater EXCEPT ![u] = IF row THEN "writing" ELSE "done"]
  /\ UNCHANGED <<jobVars, deleting, runVars, deleter, waits>>

UpdateWrites(u) ==
  /\ updater[u] = "writing"
  /\ IF row
       THEN \E e \in BOOLEAN :
              /\ enabled' = e
              /\ updater' = [updater EXCEPT ![u] = IF e THEN "enabled" ELSE "disabled"]
       ELSE updater' = [updater EXCEPT ![u] = "done"] /\ UNCHANGED enabled
  /\ UNCHANGED <<row, once, scheduled, deleting, runVars, deleter, waits>>

UpdateSchedules(u) ==
  /\ updater[u] \in {"enabled", "disabled"}
  /\ updater' = [updater EXCEPT ![u] = "done"]
  /\ scheduled' = (updater[u] = "enabled")
  /\ UNCHANGED <<row, enabled, once, deleting, runVars, deleter, waits>>

-----------------------------------------------------------------------------

OfRun(r) ==
  \/ ReadsRow(r) \/ Marked(r) \/ Executed(r) \/ Recorded(r) \/ SelfDeleted(r)
  \/ Resumes(r) \/ Unwound(r)

Next ==
  \/ \E r \in Runs : Fires(r) \/ RunNow(r) \/ OfRun(r)
  \/ \E d \in Deleters : DeleteBegins(d) \/ Drained(d) \/ Erased(d)
  \/ \E u \in Updaters : UpdateBegins(u) \/ UpdateWrites(u) \/ UpdateSchedules(u)

Spec == Init /\ [][Next]_vars

-----------------------------------------------------------------------------
(* Properties *)

(* A job executes only as long as its row is there: delete_job drains the  *)
(* runs before it deletes the row, and none begins in between, whichever   *)
(* deletions overlap.                                                      *)
RunHasRow == \A r \in Runs : run[r] = "executing" => row
=============================================================================
