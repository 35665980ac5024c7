---------------------------- MODULE MCTurnWindow ----------------------------
(* TurnWindow for TLC: three messages in one chat and, in the larger       *)
(* instance, one in each of two more; m3 is without prefix.                *)
EXTENDS TurnWindow, TLC

CONSTANTS k1, k2, k3, m1, m2, m3, m4, m5

MCChatOf == [m \in Msgs |-> CASE m = m4 -> k2
                              [] m = m5 -> k3
                              [] OTHER  -> k1]

(* For the safety run: two messages with prefix in the same chat.          *)
Symmetry == Permutations({m1, m2})
=============================================================================
