----------------------------- MODULE MCHistory ------------------------------
(***************************************************************************)
(* History for the run in which a part of a committed turn is lost:        *)
(* concurrent turns of a conversation that is left alone.                  *)
(***************************************************************************)
EXTENDS History

(* Every piece has a look of its own.                                      *)
OwnLooks == [p \in Pieces |-> p]
=============================================================================
