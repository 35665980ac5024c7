--------------------------- MODULE MCSessionLock ----------------------------
(* SessionLock for TLC: three tasks of one loop and one of another, two    *)
(* session keys, and as many lock objects as can be in use at once.        *)
EXTENDS SessionLock

CONSTANTS t1, t2, t3, t4, loopA, loopB

MCLoopOf == [t \in Tasks |-> IF t = t4 THEN loopB ELSE loopA]
=============================================================================
