----------------------------- MODULE MCServices -----------------------------
(***************************************************************************)
(* The services for the safety run.                                        *)
(***************************************************************************)
EXTENDS Services, TLC

CONSTANTS t1, t2, t3

(* Two events of one platform, one of which has two background jobs, and   *)
(* one of another platform.                                                *)
MCBusPlatformOf == [e \in BusEvents |-> IF e = "e3" THEN "p2" ELSE "p1"]
MCBusJobOf == [j \in BusJobs |-> "e1"]

(* What the comparison of histories tells apart: every piece, or, in the   *)
(* conversation that others interfere with, the kinds of pieces only.      *)
MCLogLook ==
  [p \in (LogTurns \X {"summary", "question", "answer"}) \cup {<<"old", "history">>} |-> p]
MCUpsetLook ==
  [p \in (UpsetTurns \X {"summary", "question", "answer"})
          \cup (UpsetCrons \X {"woken"}) \cup {<<"old", "history">>} |-> p[2]]

(* The turns of the conversation that is left alone are interchangeable.   *)
Symmetry == Permutations({t1, t2, t3})

(* What follows the first disturbance of the other conversation is not     *)
(* looked at: nothing is promised there any more.                          *)
Undisturbed == ~upset_disturbed
=============================================================================
