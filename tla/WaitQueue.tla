----------------------------- MODULE WaitQueue ------------------------------
(***************************************************************************)
(* The deque in which asyncio.Lock keeps its waiters, and other queues     *)
(* from whose middle something is taken.  A task waits at most once, so    *)
(* that deque.remove takes out its only entry.                             *)
(***************************************************************************)
EXTENDS Naturals, Sequences

(* Who stands in q, and that nobody stands there twice.                    *)
Members(q) == {q[i] : i \in 1 .. Len(q)}
Distinct(q) == \A i, j \in 1 .. Len(q) : q[i] = q[j] => i = j

(* Where t waits in q.                                                     *)
Place(q, t) == CHOOSE i \in DOMAIN q : q[i] = t

Without(q, t) ==
  SubSeq(q, 1, Place(q, t) - 1) \o SubSeq(q, Place(q, t) + 1, Len(q))

(* The entries of q that are in S, in their order: what is left of a queue *)
(* when the others are removed.  KeptUpTo(q, S)[n] is what is kept of the  *)
(* first n entries.                                                        *)
KeptUpTo(q, S) ==
  LET kept[n \in 0 .. Len(q)] ==
        IF n = 0 THEN <<>>
          ELSE IF q[n] \in S THEN Append(kept[n - 1], q[n]) ELSE kept[n - 1]
  IN kept

Kept(q, S) == KeptUpTo(q, S)[Len(q)]
=============================================================================
