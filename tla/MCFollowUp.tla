----------------------------- MODULE MCFollowUp -----------------------------
(* FollowUp for TLC: up to four messages of one sender; m4 may run under   *)
(* the sender's own key.                                                   *)
EXTENDS FollowUp, TLC

CONSTANTS m1, m2, m3, m4, alice

MCSenderOf == [m \in Msgs |-> alice]

(* Interchangeable messages, for the safety run.                           *)
Symmetry == Permutations({m1, m2, m3, m4})
=============================================================================
