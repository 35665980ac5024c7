--------------------------- MODULE HistoryProofs ----------------------------
(***************************************************************************)
(* Proofs about the committer of one conversation, for any turns and any   *)
(* looks of what they write: as long as nobody interferes and the looks of *)
(* two histories do not mislead the merge, what a commit has stored stays  *)
(* in the history and what a turn has compacted does not come back, with   *)
(* and without merging.                                                    *)
(***************************************************************************)
EXTENDS History, WaitQueueProofs

TurnsAssumed == IsFiniteSet(Turns)

InCommit == {"waiting", "loading", "writing"}

(* What the turns and the woken agents write are pieces of history.        *)
Texts ==
  /\ stored \in Seq(Pieces)
  /\ base \in [Turns -> Seq(Pieces)]
  /\ lead \in [Turns -> Seq(Pieces)]
  /\ unit \in [Turns -> Seq(Pieces)]
  /\ text \in [Turns -> Seq(Pieces)]
  /\ seen \in [Crons -> Seq(Pieces)]
  /\ committed \subseteq Pieces
  /\ gone \subseteq Pieces

States ==
  /\ turn \in [Turns -> {"idle", "built", "running", "waiting", "loading", "writing", "over"}]
  /\ cron \in [Crons -> {"idle", "running", "over"}]
  /\ disturbed \in BOOLEAN

(* Every turn takes one number, and the numbers come in order.             *)
Numbered == {t \in Turns : number[t] # 0}

Counted ==
  /\ number \in [Turns -> Nat]
  /\ issued = Cardinality(Numbered)
  /\ latest \in 0 .. issued
  /\ \A t \in Turns : number[t] <= issued
  /\ \A t \in Turns : turn[t] \in {"idle", "built"} => number[t] = 0

(* The turn that loads and writes is the first at the lock.                *)
Locked ==
  /\ queue \in Seq(Turns)
  /\ Members(queue) \subseteq {t \in Turns : turn[t] \in InCommit}
  /\ \A t \in Turns : turn[t] \in {"loading", "writing"} => queue # <<>> /\ Head(queue) = t

(* A commit that has begun writes pieces of the snapshot and its own, the  *)
(* answer among them, which is in the unit when there is one; what others  *)
(* have committed is loaded for a unit only.                               *)
Commits ==
  \A t \in Turns : turn[t] \in InCommit =>
    /\ turn[t] = "loading" => Merging /\ unit[t] # <<>>
    /\ Members(lead[t]) \subseteq Members(base[t]) \cup Parts(t)
    /\ Members(unit[t]) \subseteq Parts(t)
    /\ Answer(t) \in Members(IF unit[t] = <<>> THEN lead[t] ELSE unit[t])

(* Without merging one turn at a time is on its way.                       *)
OneTurn ==
  ~Merging =>
    \A t, u \in Turns : turn[t] \notin {"idle", "over"} /\ turn[u] \notin {"idle", "over"} => t = u

(* What there can be in the history: what was there before, and pieces of  *)
(* turns that are over.                                                    *)
Settled == {Old} \cup (UNION {Parts(t) : t \in {u \in Turns : turn[u] = "over"}})

(* What a turn writes that is alone or merges with what is stored now.     *)
WrittenAlone(t) ==
  IF Merging THEN text[t] = Merged(t) /\ ~Misled(t) /\ unit[t] # <<>>
             ELSE text[t] = Own(t)

(* What the committer knows of the history if nobody has interfered.       *)
Alone ==
  /\ Members(stored) \subseteq Settled
  /\ \A t \in Turns : Members(base[t]) \subseteq Settled
  /\ gone \subseteq Settled
  /\ committed \subseteq Members(stored) \cup gone
  /\ Members(stored) \cap gone = {}
  /\ committed = {} => stored = <<Old>> /\ \A t \in Turns : turn[t] # "idle" => base[t] = <<Old>>
  /\ committed # {} => receipt = {Shape(stored)}
  /\ \A t \in Turns : turn[t] = "writing" => WrittenAlone(t)
  /\ ~Merging => \A t \in Turns : turn[t] \notin {"idle", "over"} => base[t] = stored

IInv == Texts /\ States /\ Counted /\ Locked /\ Commits /\ OneTurn /\ (~disturbed => Alone)

-----------------------------------------------------------------------------
(* Texts *)

LEMMA MembersConcat ==
  ASSUME NEW X, NEW p \in Seq(X), NEW q \in Seq(X)
  PROVE  p \o q \in Seq(X) /\ Members(p \o q) = Members(p) \cup Members(q)
<1> DEFINE r == p \o q
<1>1. /\ r \in Seq(X)
      /\ Len(r) = Len(p) + Len(q)
      /\ \A i \in 1 .. Len(p) + Len(q) : r[i] = IF i <= Len(p) THEN p[i] ELSE q[i - Len(p)]
      /\ Len(p) \in Nat /\ Len(q) \in Nat
  BY ConcatProperties, LenProperties
<1> HIDE DEF r
<1>2. \A i \in 1 .. Len(p) : i \in 1 .. Len(r) /\ r[i] = p[i]
  BY <1>1
<1>3. \A i \in 1 .. Len(q) :
        Len(p) + i \in 1 .. Len(r) /\ r[Len(p) + i] = q[i]
  <2> TAKE i \in 1 .. Len(q)
  <2>1. Len(p) + i \in 1 .. Len(p) + Len(q) /\ ~(Len(p) + i <= Len(p))
        /\ Len(p) + i - Len(p) = i
    BY <1>1
  <2> QED
    BY <1>1, <2>1
<1>4. \A i \in 1 .. Len(r) :
        \/ i \in 1 .. Len(p) /\ r[i] = p[i]
        \/ i - Len(p) \in 1 .. Len(q) /\ r[i] = q[i - Len(p)]
  BY <1>1
<1>5. Members(r) \subseteq Members(p) \cup Members(q)
  BY <1>4 DEF Members
<1>6. Members(p) \subseteq Members(r)
  BY <1>2 DEF Members
<1>7. Members(q) \subseteq Members(r)
  BY <1>3 DEF Members
<1> QED
  BY <1>1, <1>5, <1>6, <1>7 DEF r

LEMMA MembersParts ==
  ASSUME NEW t \in Turns
  PROVE  /\ Parts(t) \subseteq Pieces
         /\ <<>> \in Seq(Pieces) /\ Members(<<>>) = {}
         /\ <<Summary(t)>> \in Seq(Pieces) /\ Members(<<Summary(t)>>) = {Summary(t)}
         /\ <<Answer(t)>> \in Seq(Pieces) /\ Members(<<Answer(t)>>) = {Answer(t)}
         /\ \A p \in {Question(t), Summary(t)} :
              <<p, Answer(t)>> \in Seq(Pieces) /\ Members(<<p, Answer(t)>>) = {p, Answer(t)}
<1>1. Parts(t) \subseteq Pieces
  BY DEF Pieces
<1>2. /\ Summary(t) \in Pieces /\ Question(t) \in Pieces /\ Answer(t) \in Pieces
  BY <1>1 DEF Parts
<1> HIDE DEF Summary, Question, Answer
<1>3. /\ Members(<<>>) = {}
      /\ Members(<<Summary(t)>>) = {Summary(t)}
      /\ Members(<<Answer(t)>>) = {Answer(t)}
  BY DEF Members
<1>4. ASSUME NEW p
      PROVE  Members(<<p, Answer(t)>>) = {p, Answer(t)}
  <2> DEFINE q == <<p, Answer(t)>>
  <2>1. Len(q) = 2 /\ q[1] = p /\ q[2] = Answer(t) /\ 1 .. 2 = {1, 2}
    OBVIOUS
  <2> HIDE DEF q
  <2> QED
    BY <2>1 DEF Members, q
<1> QED
  BY <1>1, <1>2, <1>3, <1>4

(* What follows a place in a text.                                         *)
LEMMA MembersTail ==
  ASSUME NEW X, NEW h \in Seq(X), NEW n \in Nat
  PROVE  SubSeq(h, n + 1, Len(h)) \in Seq(X) /\ Members(SubSeq(h, n + 1, Len(h))) \subseteq Members(h)
<1> DEFINE r == SubSeq(h, n + 1, Len(h))
<1>1. /\ Len(h) \in Nat /\ n + 1 \in Int /\ Len(h) \in Int
      /\ \A i \in n + 1 .. Len(h) : h[i] \in X
  BY LenProperties, ElementOfSeq
<1>2. /\ r \in Seq(X)
      /\ Len(r) = IF n + 1 <= Len(h) THEN Len(h) - (n + 1) + 1 ELSE 0
      /\ \A i \in 1 .. Len(h) - (n + 1) + 1 : r[i] = h[n + 1 + i - 1]
  BY <1>1, SubSeqProperties
<1> HIDE DEF r
<1>3. ASSUME NEW i \in 1 .. Len(r)
      PROVE  r[i] \in Members(h)
  <2>1. r[i] = h[n + i] /\ n + i \in 1 .. Len(h)
    BY <1>1, <1>2
  <2> QED
    BY <2>1 DEF Members
<1> QED
  BY <1>2, <1>3 DEF Members, r

(* What a run leaves of its snapshot.                                      *)
LEMMA LeftPieces ==
  ASSUME Texts, NEW t \in Turns, NEW l \in Lefts(t)
  PROVE  l \in Seq(Pieces) /\ Members(l) \subseteq Members(base[t]) \cup Parts(t)
<1>1. base[t] \in Seq(Pieces) /\ Len(base[t]) \in Nat
  BY LenProperties DEF Texts
<1>2. CASE l = base[t]
  BY <1>1, <1>2
<1>3. ASSUME NEW r \in Ends(t)
      PROVE  r \in Seq(Pieces) /\ Members(r) \subseteq Members(base[t])
  <2>1. PICK i \in Cuts(t) : r = SubSeq(base[t], i, Len(base[t]))
    BY <1>3 DEF Ends
  <2> DEFINE n == i - 1
  <2>2. n \in Nat /\ i = n + 1
    BY <1>1 DEF Cuts
  <2> QED
    BY <1>1, <2>1, <2>2, MembersTail
<1>4. CASE \E r \in Ends(t) : l = <<Summary(t)>> \o r
  <2>1. PICK r \in Ends(t) : l = <<Summary(t)>> \o r
    BY <1>4
  <2>2. <<Summary(t)>> \in Seq(Pieces) /\ Members(<<Summary(t)>>) \subseteq Parts(t)
    BY MembersParts DEF Parts
  <2> DEFINE s == <<Summary(t)>>
  <2>3. s \in Seq(Pieces) /\ Members(s) \subseteq Parts(t) /\ l = s \o r
    BY <2>1, <2>2
  <2> HIDE DEF s
  <2>4. r \in Seq(Pieces) /\ Members(r) \subseteq Members(base[t])
    BY <1>3
  <2>5. l \in Seq(Pieces) /\ Members(l) = Members(s) \cup Members(r)
    BY <2>3, <2>4, MembersConcat
  <2> QED
    BY <2>3, <2>4, <2>5
<1> QED
  BY <1>2, <1>3, <1>4 DEF Lefts

(* The snapshot of a turn, in two parts.                                   *)
LEMMA SnapshotPieces ==
  ASSUME Texts, NEW t \in Turns, NEW s \in Snapshots(t)
  PROVE  /\ s[1] \in Seq(Pieces) /\ s[2] \in Seq(Pieces)
         /\ Members(s[1]) \subseteq Members(base[t]) \cup Parts(t)
         /\ Members(s[2]) \subseteq Parts(t)
         /\ Answer(t) \in Members(IF s[2] = <<>> THEN s[1] ELSE s[2])
<1>1. {Summary(t), Question(t), Answer(t)} \subseteq Parts(t) \cap Pieces
  BY MembersParts DEF Parts
<1>2. CASE \E l \in Lefts(t) : s = <<l, <<Question(t), Answer(t)>>>>
  <2>1. PICK l \in Lefts(t) : s = <<l, <<Question(t), Answer(t)>>>>
    BY <1>2
  <2>2. s[1] = l /\ s[2] = <<Question(t), Answer(t)>> /\ s[2] # <<>>
    BY <2>1
  <2> QED
    BY <1>1, <2>2, LeftPieces, MembersParts
<1>3. CASE \E l \in Lefts(t) : s = <<Append(l, Question(t)), <<Answer(t)>>>>
  <2>1. PICK l \in Lefts(t) : s = <<Append(l, Question(t)), <<Answer(t)>>>>
    BY <1>3
  <2>2. s[1] = Append(l, Question(t)) /\ s[2] = <<Answer(t)>> /\ s[2] # <<>>
    BY <2>1
  <2>3. s[1] \in Seq(Pieces) /\ Members(s[1]) = Members(l) \cup {Question(t)}
    BY <1>1, <2>2, LeftPieces, MembersAppend, AppendProperties
  <2> QED
    BY <1>1, <2>2, <2>3, LeftPieces, MembersParts
<1>4. CASE s \in {<<<<>>, <<Answer(t)>>>>, <<<<>>, <<Summary(t), Answer(t)>>>>}
  <2>1. s[1] = <<>> /\ s[2] \in {<<Answer(t)>>, <<Summary(t), Answer(t)>>} /\ s[2] # <<>>
    BY <1>4
  <2> QED
    BY <1>1, <2>1, MembersParts
<1>5. CASE \E l \in Lefts(t) : s = <<Append(l, Answer(t)), <<>>>>
  <2>1. PICK l \in Lefts(t) : s = <<Append(l, Answer(t)), <<>>>>
    BY <1>5
  <2>2. s[1] = Append(l, Answer(t)) /\ s[2] = <<>>
    BY <2>1
  <2>3. s[1] \in Seq(Pieces) /\ Members(s[1]) = Members(l) \cup {Answer(t)}
    BY <1>1, <2>2, LeftPieces, MembersAppend, AppendProperties
  <2> QED
    BY <1>1, <2>2, <2>3, LeftPieces, MembersParts
<1>6. Snapshots(t) \subseteq
        {<<l, <<Question(t), Answer(t)>>>> : l \in Lefts(t)}
        \cup {<<Append(l, Question(t)), <<Answer(t)>>>> : l \in Lefts(t)}
        \cup {<<<<>>, <<Answer(t)>>>>, <<<<>>, <<Summary(t), Answer(t)>>>>}
        \cup {<<Append(l, Answer(t)), <<>>>> : l \in Lefts(t)}
  BY DEF Snapshots
<1> QED
  BY <1>2, <1>3, <1>4, <1>5, <1>6

(* The pieces of a turn that is not over are not in the history.           *)
LEMMA PartsApart ==
  ASSUME NEW t \in Turns, turn[t] # "over"
  PROVE  Parts(t) \cap Settled = {}
<1>1. Old \notin Parts(t)
  BY DEF Old, Parts, Summary, Question, Answer
<1>2. ASSUME NEW u \in Turns, u # t PROVE Parts(u) \cap Parts(t) = {}
  BY <1>2 DEF Parts, Summary, Question, Answer
<1> QED
  BY <1>1, <1>2 DEF Settled

LEMMA SameInterval ==
  ASSUME NEW n \in Nat, NEW m \in Nat, 1 .. n = 1 .. m
  PROVE  n = m
<1>1. n # 0 => n \in 1 .. m
  OBVIOUS
<1>2. m # 0 => m \in 1 .. n
  OBVIOUS
<1> QED
  BY <1>1, <1>2

LEMMA SameDomain ==
  ASSUME NEW h, NEW b, Shape(h) = Shape(b)
  PROVE  DOMAIN h = DOMAIN b
<1>1. DOMAIN Shape(h) = DOMAIN h
  BY DEF Shape
<1>2. DOMAIN Shape(b) = DOMAIN b
  BY DEF Shape
<1> QED
  BY <1>1, <1>2

(* Texts of the same look are equally long.                                *)
LEMMA SameLength ==
  ASSUME NEW X, NEW h \in Seq(X), NEW b \in Seq(X), Shape(h) = Shape(b)
  PROVE  Len(h) = Len(b)
<1> DEFINE n == Len(h)
           m == Len(b)
           indices == DOMAIN h
<1>1. DOMAIN h = 1 .. Len(h) /\ DOMAIN b = 1 .. Len(b) /\ Len(h) \in Nat /\ Len(b) \in Nat
  BY LenProperties
<1>2. DOMAIN h = DOMAIN b
  BY SameDomain
<1>3. indices = 1 .. n /\ indices = 1 .. m /\ n \in Nat /\ m \in Nat
  BY <1>1, <1>2
<1> HIDE DEF n, m, indices
<1>4. n = m
  BY <1>3, SameInterval
<1> QED
  BY <1>4 DEF n, m

(* A history that begins with b and in which something may follow.         *)
LEMMA BeginsWith ==
  ASSUME NEW X, NEW h \in Seq(X), NEW b \in Seq(X),
         Len(b) <= Len(h), SubSeq(h, 1, Len(b)) = b
  PROVE  /\ SubSeq(h, Len(b) + 1, Len(h)) \in Seq(X)
         /\ Members(h) = Members(b) \cup Members(SubSeq(h, Len(b) + 1, Len(h)))
         /\ Len(h) = Len(b) => h = b
<1> DEFINE rest == SubSeq(h, Len(b) + 1, Len(h))
<1>1. /\ Len(b) \in Nat /\ Len(h) \in Nat
  BY LenProperties
<1>2. rest \in Seq(X)
  BY <1>1, MembersTail
<1>3. h = b \o rest
  <2>1. 1 \in 1 .. Len(h) + 1 /\ Len(b) \in 1 - 1 .. Len(h) /\ Len(h) \in Len(b) .. Len(h)
    BY <1>1
  <2>2. SubSeq(h, 1, Len(b)) \o rest = SubSeq(h, 1, Len(h))
    BY <2>1, ConcatAdjacentSubSeq
  <2> QED
    BY <2>2, SubSeqFull
<1>4. Len(h) = Len(b) => h = b
  BY SubSeqFull
<1> HIDE DEF rest
<1>5. Members(h) = Members(b) \cup Members(rest)
  BY <1>2, <1>3, MembersConcat
<1> QED
  BY <1>2, <1>4, <1>5 DEF rest

(* What a turn that merges or is alone writes: its unit is in it, nothing  *)
(* is lost but what it has compacted, and nothing comes in but its own.    *)
LEMMA WrittenText ==
  ASSUME Texts, Commits, Alone, NEW t \in Turns, turn[t] = "writing"
  PROVE  /\ Answer(t) \in Members(text[t])
         /\ Members(unit[t]) \subseteq Members(text[t])
         /\ Members(text[t]) \subseteq Members(stored) \cup Parts(t)
         /\ Members(stored) \subseteq
              Members(text[t]) \cup (Members(base[t]) \ Members(Own(t)))
<1>1. /\ stored \in Seq(Pieces) /\ base[t] \in Seq(Pieces)
      /\ lead[t] \in Seq(Pieces) /\ unit[t] \in Seq(Pieces)
  BY DEF Texts
<1>2. /\ Members(lead[t]) \subseteq Members(base[t]) \cup Parts(t)
      /\ Members(unit[t]) \subseteq Parts(t)
      /\ Answer(t) \in Members(IF unit[t] = <<>> THEN lead[t] ELSE unit[t])
  BY DEF Commits, InCommit
<1>3. Members(Own(t)) = Members(lead[t]) \cup Members(unit[t])
  BY <1>1, MembersConcat DEF Own
<1>4. CASE stored = base[t] /\ text[t] = Own(t)
  BY <1>2, <1>3, <1>4
<1>5. CASE text[t] = stored \o unit[t] /\ unit[t] # <<>>
  <2>1. Members(text[t]) = Members(stored) \cup Members(unit[t])
    BY <1>1, <1>5, MembersConcat
  <2> QED
    BY <1>2, <1>5, <2>1
<1>6. CASE /\ StartsWith(stored, base[t]) /\ ~Misled(t)
           /\ text[t] = lead[t] \o Rest(t) \o unit[t]
  <2>1. Len(base[t]) <= Len(stored) /\ SubSeq(stored, 1, Len(base[t])) = base[t]
    BY <1>6 DEF StartsWith, Misled
  <2>2. Rest(t) \in Seq(Pieces) /\ Members(stored) = Members(base[t]) \cup Members(Rest(t))
    BY <1>1, <2>1, BeginsWith DEF Rest
  <2> DEFINE kept == lead[t] \o Rest(t)
  <2>3. kept \in Seq(Pieces) /\ Members(kept) = Members(lead[t]) \cup Members(Rest(t))
    BY <1>1, <2>2, MembersConcat
  <2>4. text[t] = kept \o unit[t]
    BY <1>6
  <2> HIDE DEF kept
  <2>5. Members(text[t]) = Members(lead[t]) \cup Members(Rest(t)) \cup Members(unit[t])
    BY <1>1, <2>3, <2>4, MembersConcat
  <2> QED
    BY <1>2, <1>3, <2>2, <2>5
<1>7. CASE ~Merging
  <2>1. stored = base[t] /\ text[t] = Own(t)
    BY <1>7 DEF Alone, WrittenAlone
  <2> QED
    BY <1>4, <2>1
<1>8. CASE Merging
  <2>1. text[t] = Merged(t) /\ ~Misled(t) /\ unit[t] # <<>>
    BY <1>8 DEF Alone, WrittenAlone
  <2>2. CASE Shape(stored) = Shape(base[t]) \/ receipt # {Shape(stored)}
    <3>1. stored = base[t]
      <4>1. CASE committed = {}
        BY <4>1 DEF Alone
      <4>2. CASE committed # {}
        <5>1. Shape(stored) = Shape(base[t])
          BY <2>2, <4>2 DEF Alone
        <5>2. Len(stored) = Len(base[t]) /\ Len(stored) \in Nat
          BY <1>1, <5>1, SameLength, LenProperties
        <5>3. SubSeq(stored, 1, Len(base[t])) = stored
          BY <1>1, <5>2, SubSeqFull
        <5>4. StartsWith(stored, base[t])
          <6>1. Shape(SubSeq(stored, 1, Len(base[t]))) = Shape(base[t])
            BY <5>1, <5>3, Zenon
          <6>2. Len(base[t]) <= Len(stored)
            BY <5>2
          <6> QED
            BY <6>1, <6>2 DEF StartsWith
        <5> QED
          BY <2>1, <5>3, <5>4 DEF Misled
      <4> QED
        BY <4>1, <4>2
    <3> QED
      BY <1>4, <2>1, <2>2, <3>1 DEF Merged
  <2>3. CASE ~(Shape(stored) = Shape(base[t]) \/ receipt # {Shape(stored)})
    <3>1. \/ StartsWith(stored, base[t]) /\ text[t] = lead[t] \o Rest(t) \o unit[t]
          \/ text[t] = stored \o unit[t]
      BY <2>1, <2>3 DEF Merged
    <3> QED
      BY <1>5, <1>6, <2>1, <3>1
  <2> QED
    BY <2>2, <2>3
<1> QED
  BY <1>7, <1>8

-----------------------------------------------------------------------------
(* What holds whoever interferes *)

Core == Texts /\ States /\ Counted /\ Locked /\ Commits /\ OneTurn

LEMMA CoreInit ==
  ASSUME TurnsAssumed, Init
  PROVE  Core
<1>1. <<Old>> \in Seq(Pieces) /\ <<>> \in Seq(Pieces)
  BY DEF Pieces
<1>2. Texts
  BY <1>1 DEF Init, Texts
<1>3. States
  BY DEF Init, States
<1>4. Counted
  <2>1. Numbered = {}
    BY DEF Init, Numbered
  <2> QED
    BY <2>1, FS_EmptySet DEF Init, Counted
<1>5. Locked
  <2>1. queue = <<>> /\ queue \in Seq(Turns) /\ Members(queue) = {}
    BY DEF Init, Members
  <2> QED
    BY <2>1 DEF Init, Locked
<1>6. Commits /\ OneTurn
  BY DEF Init, Commits, OneTurn, InCommit
<1> QED
  BY <1>2, <1>3, <1>4, <1>5, <1>6 DEF Core

LEMMA MergedType ==
  ASSUME Texts, NEW t \in Turns
  PROVE  Own(t) \in Seq(Pieces) /\ Merged(t) \in Seq(Pieces)
<1>1. /\ stored \in Seq(Pieces) /\ base[t] \in Seq(Pieces)
      /\ lead[t] \in Seq(Pieces) /\ unit[t] \in Seq(Pieces)
  BY DEF Texts
<1>2. Own(t) \in Seq(Pieces) /\ stored \o unit[t] \in Seq(Pieces)
  BY <1>1, ConcatProperties DEF Own
<1>3. Rest(t) \in Seq(Pieces)
  BY <1>1, LenProperties, MembersTail DEF Rest
<1>4. lead[t] \o Rest(t) \in Seq(Pieces)
  BY <1>1, <1>3, ConcatProperties
<1>5. lead[t] \o Rest(t) \o unit[t] \in Seq(Pieces)
  BY <1>1, <1>4, ConcatProperties
<1> QED
  BY <1>2, <1>5 DEF Merged

(* A turn that was in commit() leaves the lock.                            *)
LEMMA LeavesLock ==
  ASSUME States, Locked, NEW t \in Turns, turn[t] \in InCommit, Leaves(t)
  PROVE  Locked'
<1>1. queue \in Seq(Turns)
  BY DEF Locked
<1>2. queue' \in Seq(Turns) /\ Members(queue') = Members(queue) \cap (Turns \ {t})
  BY <1>1, KeptMembers DEF Leaves
<1>3. turn' = [turn EXCEPT ![t] = "over"]
  BY DEF Leaves, Goes
<1>4. \A u \in Members(queue') : u \in Turns /\ turn'[u] \in InCommit
  BY <1>2, <1>3 DEF Locked, States
<1>5. ASSUME NEW u \in Turns, turn'[u] \in {"loading", "writing"}
      PROVE  queue' # <<>> /\ Head(queue') = u
  <2>1. u # t /\ turn[u] \in {"loading", "writing"}
    BY <1>3, <1>5 DEF States
  <2>2. queue # <<>> /\ Head(queue) = u /\ u \in Turns \ {t}
    BY <2>1 DEF Locked
  <2> QED
    BY <1>1, <2>2, KeptHead DEF Leaves
<1> QED
  BY <1>2, <1>4, <1>5 DEF Locked

(* There are no more numbers than turns.                                   *)
LEMMA IssuedCounts ==
  ASSUME TurnsAssumed, Counted
  PROVE  issued \in 0 .. Cardinality(Turns) /\ issued \in Nat /\ IsFiniteSet(Numbered)
<1>1. IsFiniteSet(Numbered) /\ Cardinality(Numbered) <= Cardinality(Turns)
  <2>1. Numbered \subseteq Turns
    BY DEF Numbered
  <2> QED
    BY <2>1, FS_Subset DEF TurnsAssumed
<1>2. Cardinality(Numbered) \in Nat /\ Cardinality(Turns) \in Nat
  BY <1>1, FS_CardinalityType DEF TurnsAssumed
<1> QED
  BY <1>1, <1>2 DEF Counted

LEMMA CoreStep ==
  ASSUME TurnsAssumed, Core, [Next]_vars
  PROVE  Core'
<1> USE DEF Core
<1>1. CASE UNCHANGED vars
  <2> USE <1>1 DEF vars, turnVars, cronVars
  <2>1. Texts' /\ States' /\ Commits' /\ OneTurn'
    BY DEF Texts, States, Commits, OneTurn
  <2>2. Counted'
    BY DEF Counted, Numbered
  <2>3. Locked'
    BY DEF Locked, Members
  <2> QED
    BY <2>1, <2>2, <2>3
<1>2. ASSUME NEW t \in Turns, Builds(t)
      PROVE  Core'
  <2> USE <1>2 DEF Builds, Goes, cronVars
  <2>1. Texts'
    BY DEF Texts
  <2>2. States'
    BY DEF States
  <2>3. Counted'
    BY DEF Counted, Numbered, States
  <2>4. Locked'
    BY DEF Locked, States, Members, InCommit
  <2>5. Commits'
    BY DEF Commits, States, Texts, InCommit
  <2>6. OneTurn'
    BY DEF OneTurn, States
  <2> QED
    BY <2>1, <2>2, <2>3, <2>4, <2>5, <2>6
<1>3. ASSUME NEW t \in Turns, Numbers(t)
      PROVE  Core'
  <2> USE <1>3 DEF Numbers, Goes, cronVars
  <2>1. Texts'
    BY DEF Texts
  <2>2. States'
    BY DEF States
  <2>3. Counted'
    <3>1. t \notin Numbered /\ issued + 1 # 0 /\ issued + 1 \in Nat
      BY IssuedCounts DEF Counted, Numbered
    <3>2. Numbered' = Numbered \cup {t}
      BY <3>1 DEF Numbered, Counted
    <3>3. IsFiniteSet(Numbered) /\ issued = Cardinality(Numbered)
      BY IssuedCounts DEF Counted
    <3>4. issued' = Cardinality(Numbered')
      BY <3>1, <3>2, <3>3, FS_AddElement
    <3>5. number' \in [Turns -> Nat]
      BY <3>1 DEF Counted
    <3>6. latest' \in 0 .. issued' /\ \A u \in Turns : number'[u] <= issued'
      <4>1. issued \in Nat /\ issued' = issued + 1
        BY IssuedCounts
      <4>2. latest' \in 0 .. issued'
        BY <4>1 DEF Counted
      <4>3. ASSUME NEW u \in Turns
            PROVE  number'[u] <= issued'
        <5>1. number'[u] \in {number[u], issued + 1} /\ number[u] \in Nat /\ number[u] <= issued
          BY DEF Counted
        <5> QED
          BY <4>1, <5>1
      <4> QED
        BY <4>2, <4>3
    <3>7. \A u \in Turns : turn'[u] \in {"idle", "built"} => number'[u] = 0
      BY DEF Counted, States
    <3> QED
      BY <3>4, <3>5, <3>6, <3>7 DEF Counted
  <2>4. Locked'
    BY DEF Locked, States, Members, InCommit
  <2>5. Commits'
    BY DEF Commits, States, InCommit
  <2>6. OneTurn'
    BY DEF OneTurn, States
  <2> QED
    BY <2>1, <2>2, <2>3, <2>4, <2>5, <2>6
<1>4. ASSUME NEW t \in Turns, Delivered(t)
      PROVE  Core'
  <2> USE <1>4 DEF Delivered, Goes, cronVars
  <2>1. PICK s \in Snapshots(t) :
          lead' = [lead EXCEPT ![t] = s[1]] /\ unit' = [unit EXCEPT ![t] = s[2]]
    OBVIOUS
  <2>2. Texts'
    BY <2>1, SnapshotPieces DEF Texts
  <2>3. States'
    BY DEF States
  <2>4. Counted'
    BY DEF Counted, Numbered, States
  <2>5. Locked'
    <3>1. /\ queue' \in Seq(Turns)
          /\ Members(queue') = Members(queue) \cup {t}
          /\ Head(queue') = IF queue = <<>> THEN t ELSE Head(queue)
          /\ queue' # <<>>
      BY AppendProperties, MembersAppend, HeadTailAppend DEF Locked
    <3>2. turn' = [turn EXCEPT ![t] = "waiting"]
      OBVIOUS
    <3>3. Members(queue') \subseteq {u \in Turns : turn'[u] \in InCommit}
      BY <3>1, <3>2 DEF Locked, States, InCommit
    <3>4. ASSUME NEW u \in Turns, turn'[u] \in {"loading", "writing"}
          PROVE  Head(queue') = u
      <4>1. turn[u] \in {"loading", "writing"}
        BY <3>2, <3>4 DEF States
      <4> QED
        BY <3>1, <4>1 DEF Locked
    <3> QED
      BY <3>1, <3>3, <3>4 DEF Locked
  <2>6. Commits'
    BY <2>1, SnapshotPieces DEF Commits, States, Texts, InCommit
  <2>7. OneTurn'
    BY DEF OneTurn, States
  <2> QED
    BY <2>2, <2>3, <2>4, <2>5, <2>6, <2>7
<1>5. ASSUME NEW t \in Turns, Undelivered(t)
      PROVE  Core'
  <2> USE <1>5 DEF Undelivered, Goes, cronVars
  <2>1. Texts'
    BY DEF Texts
  <2>2. States'
    BY DEF States
  <2>3. Counted'
    BY DEF Counted, Numbered, States
  <2>4. Locked'
    BY DEF Locked, States, Members, InCommit
  <2>5. Commits' /\ OneTurn'
    BY DEF Commits, OneTurn, States, InCommit
  <2> QED
    BY <2>1, <2>2, <2>3, <2>4, <2>5
<1>6. ASSUME NEW t \in Turns, EntersCommit(t)
      PROVE  Core'
  <2> USE <1>6 DEF EntersCommit, Holds, cronVars
  <2>1. CASE Stale(t)
    <3>1. Leaves(t) /\ UNCHANGED text
      BY <2>1
    <3>2. Texts' /\ States'
      BY <3>1 DEF Texts, States, Leaves, Goes
    <3>3. Counted'
      BY <3>1 DEF Counted, Numbered, States, Leaves, Goes
    <3>4. Locked'
      BY <3>1, LeavesLock DEF InCommit
    <3>5. Commits' /\ OneTurn'
      BY <3>1 DEF Commits, OneTurn, States, InCommit, Leaves, Goes
    <3> QED
      BY <3>2, <3>3, <3>4, <3>5
  <2>2. CASE ~Stale(t)
    <3>1. PICK pc \in {"loading", "writing"} :
             /\ turn' = [turn EXCEPT ![t] = pc]
             /\ pc = "loading" => Merging /\ unit[t] # <<>>
      BY <2>2 DEF Goes, Unmerged
    <3>2. text' = [text EXCEPT ![t] = Own(t)] /\ queue' = queue
      BY <2>2
    <3>3. Texts'
      BY <3>2, MergedType DEF Texts
    <3>4. States'
      BY <3>1 DEF States
    <3>5. Counted'
      BY <3>1 DEF Counted, Numbered, States
    <3>6. Locked'
      BY <3>1, <3>2 DEF Locked, States, Members, InCommit
    <3>7. Commits' /\ OneTurn'
      BY <3>1 DEF Commits, OneTurn, States, InCommit
    <3> QED
      BY <3>3, <3>4, <3>5, <3>6, <3>7
  <2> QED
    BY <2>1, <2>2
<1>7. ASSUME NEW t \in Turns, Loads(t) \/ LoadFails(t)
      PROVE  Core'
  <2>1. /\ turn[t] = "loading" /\ queue # <<>> /\ Head(queue) = t
        /\ turn' = [turn EXCEPT ![t] = "writing"]
        /\ UNCHANGED <<stored, issued, latest, number, base, lead, unit, queue, cron, seen, committed, gone>>
        /\ text' = text \/ text' = [text EXCEPT ![t] = Merged(t)]
    BY <1>7 DEF Loads, LoadFails, Holds, Goes, cronVars
  <2>0. disturbed' \in BOOLEAN
    BY <1>7 DEF Loads, LoadFails, States
  <2> USE <2>1
  <2>2. Texts'
    BY MergedType DEF Texts
  <2>3. States'
    BY <2>0 DEF States
  <2>4. Counted'
    BY DEF Counted, Numbered, States
  <2>5. Locked'
    BY DEF Locked, States, Members, InCommit
  <2>6. Commits' /\ OneTurn'
    BY DEF Commits, OneTurn, States, InCommit
  <2> QED
    BY <2>2, <2>3, <2>4, <2>5, <2>6
<1>8. ASSUME NEW t \in Turns, Writes(t) \/ Fails(t)
      PROVE  Core'
  <2>1. /\ turn[t] \in InCommit /\ Leaves(t)
        /\ turn' = [turn EXCEPT ![t] = "over"]
        /\ UNCHANGED <<issued, number, base, lead, unit, text, cron, seen>>
        /\ stored' \in {stored, text[t]}
        /\ latest' \in {latest, number[t]}
        /\ disturbed' \in {disturbed, TRUE}
        /\ committed' \subseteq committed \cup Parts(t)
        /\ gone' \subseteq gone \cup Members(base[t])
    BY <1>8 DEF Writes, Fails, Holds, Leaves, Goes, InCommit, cronVars
  <2> USE <2>1
  <2>2. Texts'
    <3>1. Members(base[t]) \subseteq Pieces /\ Parts(t) \subseteq Pieces
      BY MembersParts, MembersType DEF Texts
    <3> QED
      BY <3>1 DEF Texts
  <2>3. States'
    BY DEF States
  <2>4. Counted'
    BY DEF Counted, Numbered, States
  <2>5. Locked'
    BY LeavesLock
  <2>6. Commits' /\ OneTurn'
    BY DEF Commits, OneTurn, States, InCommit
  <2> QED
    BY <2>2, <2>3, <2>4, <2>5, <2>6
<1>9. ASSUME NEW c \in Crons, CronBegins(c) \/ CronWrites(c)
      PROVE  Core'
  <2>1. /\ UNCHANGED <<issued, latest, turn, number, base, lead, unit, text, queue, committed, gone>>
        /\ cron' \in {[cron EXCEPT ![c] = "running"], [cron EXCEPT ![c] = "over"]}
        /\ seen' \in {seen, [seen EXCEPT ![c] = stored]}
        /\ stored' \in {stored, Append(seen[c], Woken(c))}
        /\ disturbed' \in {disturbed, TRUE}
    BY <1>9 DEF CronBegins, CronWrites, turnVars
  <2> USE <2>1
  <2>2. Append(seen[c], Woken(c)) \in Seq(Pieces)
    <3>1. Woken(c) \in Pieces
      BY DEF Pieces
    <3>2. seen[c] \in Seq(Pieces)
      BY DEF Texts
    <3> QED
      BY <3>1, <3>2, AppendProperties
  <2>3. Texts'
    BY <2>2 DEF Texts
  <2>4. States'
    BY DEF States
  <2>5. Counted'
    BY DEF Counted, Numbered
  <2>6. Locked'
    BY DEF Locked, Members
  <2>7. Commits' /\ OneTurn'
    BY DEF Commits, OneTurn
  <2> QED
    BY <2>3, <2>4, <2>5, <2>6, <2>7
<1>10. ASSUME Edited \/ Forgotten
       PROVE  Core'
  <2>1. /\ UNCHANGED <<issued, turn, number, base, lead, unit, text, queue, cron, seen, committed>>
        /\ gone' \subseteq gone \cup Members(stored)
        /\ stored' \in {stored, <<>>}
        /\ latest' \in {latest, 0}
        /\ disturbed' = TRUE
    BY <1>10 DEF Edited, Forgotten, turnVars, cronVars
  <2> USE <2>1
  <2>2. Texts'
    <3>1. <<>> \in Seq(Pieces)
      OBVIOUS
    <3> QED
      BY <3>1, MembersType DEF Texts
  <2>3. States'
    BY DEF States
  <2>4. Counted'
    <3>1. Numbered' = Numbered
      BY DEF Numbered
    <3>2. 0 \in 0 .. issued
      BY IssuedCounts
    <3> QED
      BY <3>1, <3>2 DEF Counted
  <2>5. Locked'
    BY DEF Locked, Members
  <2>6. Commits' /\ OneTurn'
    BY DEF Commits, OneTurn
  <2> QED
    BY <2>2, <2>3, <2>4, <2>5, <2>6
<1> QED
  BY <1>1, <1>2, <1>3, <1>4, <1>5, <1>6, <1>7, <1>8, <1>9, <1>10 DEF Next

LEMMA CoreTypes == ASSUME TurnsAssumed, Core PROVE TypeOK
<1>1. issued \in 0 .. Cardinality(Turns) /\ issued \in Nat
  BY IssuedCounts DEF Core
<1>2. \A t \in Turns : number[t] \in 0 .. issued
  BY <1>1 DEF Core, Counted
<1> QED
  BY <1>1, <1>2 DEF Core, TypeOK, Texts, States, Counted, Locked, InCommit

(* The variables keep their types, whoever interferes: no more sequence    *)
(* numbers are given out than turns began, the latest commit has one of    *)
(* them, and only turns that commit stand at the lock.                     *)
THEOREM TypeCorrectness == ASSUME TurnsAssumed PROVE Spec => []TypeOK
<1>1. Init => Core
  BY CoreInit
<1>2. Core /\ [Next]_vars => Core'
  BY CoreStep
<1>3. Core => TypeOK
  BY CoreTypes
<1> QED
  BY <1>1, <1>2, <1>3, PTL DEF Spec

-----------------------------------------------------------------------------
(* What holds as long as nobody interferes *)

LEMMA AloneInit ==
  ASSUME Init
  PROVE  Alone
<1>1. Members(<<Old>>) = {Old} /\ Members(<<>>) = {}
  BY DEF Members
<1>2. Members(stored) = {Old} /\ \A t \in Turns : Members(base[t]) = {}
  BY <1>1 DEF Init
<1>3. Old \in Settled
  BY DEF Settled
<1> QED
  BY <1>2, <1>3 DEF Init, Alone

(* A step that leaves the history, the receipt and the commits as they are *)
(* and after which the turns that write are the same.                      *)
LEMMA AloneStays ==
  ASSUME Alone, UNCHANGED <<stored, receipt, base, committed, gone>>,
         \A t \in Turns : turn'[t] = "writing" =>
           /\ lead'[t] = lead[t] /\ unit'[t] = unit[t]
           /\ \/ turn[t] = "writing" /\ text'[t] = text[t]
              \/ IF Merging THEN text'[t] = Merged(t) /\ ~Misled(t) /\ unit[t] # <<>>
                            ELSE text'[t] = Own(t),
         \A t \in Turns : turn'[t] # "idle" => turn[t] # "idle",
         \A t \in Turns : turn[t] = "over" => turn'[t] = "over",
         \A t \in Turns : turn'[t] \notin {"idle", "over"} => turn[t] \notin {"idle", "over"}
  PROVE  Alone'
<1>1. /\ Members(stored') = Members(stored)
      /\ \A t \in Turns : Members(base'[t]) = Members(base[t])
      /\ Shape(stored') = Shape(stored)
      /\ gone' = gone /\ committed' = committed
  OBVIOUS
<1>2. ASSUME NEW t \in Turns, turn'[t] = "writing"
      PROVE  WrittenAlone(t)'
  <2>1. lead'[t] = lead[t] /\ unit'[t] = unit[t] /\ base'[t] = base[t]
    BY <1>2
  <2>2. Own(t)' = Own(t) /\ Rest(t)' = Rest(t)
    BY <2>1 DEF Own, Rest
  <2>3. Merged(t)' = Merged(t) /\ Misled(t)' = Misled(t)
    BY <2>1, <2>2 DEF Merged, Misled, StartsWith, Shape
  <2>4. IF Merging THEN text'[t] = Merged(t) /\ ~Misled(t) /\ unit[t] # <<>>
                   ELSE text'[t] = Own(t)
    BY <1>2 DEF Alone, WrittenAlone
  <2> QED
    BY <2>1, <2>2, <2>3, <2>4 DEF WrittenAlone
<1>3. Settled \subseteq Settled'
  BY DEF Settled
<1>4. /\ Members(stored') \subseteq Settled'
      /\ \A t \in Turns : Members(base'[t]) \subseteq Settled'
      /\ gone' \subseteq Settled'
      /\ committed' \subseteq Members(stored') \cup gone'
      /\ Members(stored') \cap gone' = {}
  <2>1. /\ Members(stored) \subseteq Settled
        /\ \A t \in Turns : Members(base[t]) \subseteq Settled
        /\ gone \subseteq Settled
        /\ committed \subseteq Members(stored) \cup gone
        /\ Members(stored) \cap gone = {}
    BY DEF Alone
  <2> QED
    BY <1>1, <1>3, <2>1
<1>5. /\ committed' = {} => stored' = <<Old>> /\ \A t \in Turns : turn'[t] # "idle" => base'[t] = <<Old>>
      /\ committed' # {} => receipt' = {Shape(stored')}
      /\ ~Merging => \A t \in Turns : turn'[t] \notin {"idle", "over"} => base'[t] = stored'
  BY <1>1 DEF Alone
<1> QED
  BY <1>2, <1>4, <1>5 DEF Alone

LEMMA AloneBuilds ==
  ASSUME Core, Alone, NEW t \in Turns, Builds(t)
  PROVE  Alone'
<1>1. /\ UNCHANGED <<stored, receipt, lead, unit, text, committed, gone>>
      /\ turn[t] = "idle" /\ turn' = [turn EXCEPT ![t] = "built"]
      /\ base' = [base EXCEPT ![t] = stored]
  BY DEF Builds, Goes
<1>2. turn \in [Turns -> {"idle", "built", "running", "waiting", "loading", "writing", "over"}]
      /\ base \in [Turns -> Seq(Pieces)]
  BY DEF Core, States, Texts
<1>3. \A u \in Turns : base'[u] = IF u = t THEN stored ELSE base[u]
  BY <1>1, <1>2
<1>4. \A u \in Turns : turn'[u] = IF u = t THEN "built" ELSE turn[u]
  BY <1>1, <1>2
<1>5. Members(stored') = Members(stored) /\ Shape(stored') = Shape(stored)
  BY <1>1
<1>6. \A u \in Turns : Members(base'[u]) = IF u = t THEN Members(stored) ELSE Members(base[u])
  BY <1>3
<1>7. ASSUME NEW u \in Turns, turn'[u] = "writing"
      PROVE  WrittenAlone(u)'
  <2>1. u # t /\ turn[u] = "writing"
    BY <1>4, <1>7
  <2>2. base'[u] = base[u] /\ lead'[u] = lead[u] /\ unit'[u] = unit[u] /\ text'[u] = text[u]
    BY <1>1, <1>3, <2>1
  <2>3. Own(u)' = Own(u) /\ Rest(u)' = Rest(u)
    BY <1>1, <2>2 DEF Own, Rest
  <2>4. stored' = stored /\ receipt' = receipt
    BY <1>1
  <2>5. StartsWith(stored, base[u])' = StartsWith(stored, base[u]) /\ Shape(base[u])' = Shape(base[u])
    BY <2>2, <2>4 DEF StartsWith, Shape
  <2>6. Misled(u)' = Misled(u)
    BY <2>2, <2>4, <2>5 DEF Misled
  <2>7. Merged(u)' = Merged(u)
    BY <1>5, <2>2, <2>3, <2>4, <2>5 DEF Merged
  <2> QED
    BY <2>1, <2>2, <2>3, <2>6, <2>7 DEF Alone, WrittenAlone
<1>8. Settled \subseteq Settled'
  BY <1>1, <1>4 DEF Settled
<1>9. /\ Members(stored') \subseteq Settled'
      /\ \A u \in Turns : Members(base'[u]) \subseteq Settled'
      /\ gone' \subseteq Settled'
      /\ committed' \subseteq Members(stored') \cup gone'
      /\ Members(stored') \cap gone' = {}
  <2>1. /\ Members(stored) \subseteq Settled
        /\ \A u \in Turns : Members(base[u]) \subseteq Settled
        /\ gone \subseteq Settled
        /\ committed \subseteq Members(stored) \cup gone
        /\ Members(stored) \cap gone = {}
    BY DEF Alone
  <2> QED
    BY <1>1, <1>5, <1>6, <1>8, <2>1
<1>10. /\ committed' = {} => stored' = <<Old>> /\ \A u \in Turns : turn'[u] # "idle" => base'[u] = <<Old>>
       /\ committed' # {} => receipt' = {Shape(stored')}
       /\ ~Merging => \A u \in Turns : turn'[u] \notin {"idle", "over"} => base'[u] = stored'
  BY <1>1, <1>3, <1>4, <1>5 DEF Alone, Builds
<1> QED
  BY <1>7, <1>9, <1>10 DEF Alone

LEMMA AloneWrites ==
  ASSUME Core, Alone, NEW t \in Turns, Writes(t)
  PROVE  Alone'
<1> DEFINE new == Members(text[t])
           old == Members(stored)
           snap == Members(base[t])
           mine == Members(unit[t])
           left == Members(Own(t))
<1>1. /\ turn[t] = "writing" /\ queue # <<>> /\ Head(queue) = t
      /\ turn' = [turn EXCEPT ![t] = "over"]
      /\ stored' = text[t]
      /\ receipt' = {Shape(text[t])}
      /\ committed' = committed \cup (Parts(t) \cap (mine \cup new))
      /\ gone' = gone \cup (snap \ (left \cup new))
      /\ UNCHANGED base
  BY DEF Writes, Holds, Leaves, Goes
<1>2. /\ Answer(t) \in new
      /\ mine \subseteq new
      /\ new \subseteq old \cup Parts(t)
      /\ old \subseteq new \cup (snap \ left)
  BY <1>1, WrittenText DEF Core
<1>3. /\ Members(stored') = new /\ Shape(stored') = Shape(text[t])
      /\ \A u \in Turns : Members(base'[u]) = Members(base[u])
  BY <1>1
<1>4. /\ old \subseteq Settled
      /\ \A u \in Turns : Members(base[u]) \subseteq Settled
      /\ gone \subseteq Settled
      /\ committed \subseteq old \cup gone
      /\ old \cap gone = {}
  BY DEF Alone
<1>5. Parts(t) \cap Settled = {} /\ Answer(t) \in Parts(t)
  BY <1>1, PartsApart DEF Parts
<1>6. Settled \subseteq Settled' /\ Parts(t) \subseteq Settled'
  <2>1. turn'[t] = "over" /\ \A u \in Turns : turn[u] = "over" => turn'[u] = "over"
    BY <1>1 DEF Core, States
  <2> QED
    BY <2>1 DEF Settled
<1>7. snap \subseteq Settled
  BY <1>4
<1> HIDE DEF new, old, snap, mine, left
<1>8. new \subseteq Settled' /\ gone' \subseteq Settled'
  BY <1>1, <1>2, <1>4, <1>6, <1>7
<1>9. \A u \in Turns : Members(base[u]) \subseteq Settled'
  BY <1>4, <1>6
<1>10. committed' \subseteq new \cup gone'
  BY <1>1, <1>2, <1>4
<1>11. new \cap gone' = {}
  BY <1>1, <1>2, <1>4, <1>5
<1>12. ASSUME NEW u \in Turns PROVE turn'[u] # "writing"
  <2>1. turn[u] = "writing" => u = t
    BY <1>1 DEF Core, Locked
  <2> QED
    BY <1>1, <2>1 DEF Core, States
<1>13. ~Merging => \A u \in Turns : turn'[u] \in {"idle", "over"}
  BY <1>1 DEF Core, OneTurn, States
<1>14. committed' # {} /\ receipt' = {Shape(stored')}
  BY <1>1, <1>2, <1>3, <1>5
<1>15. /\ Members(stored') \subseteq Settled'
       /\ \A u \in Turns : Members(base'[u]) \subseteq Settled'
       /\ committed' \subseteq Members(stored') \cup gone'
       /\ Members(stored') \cap gone' = {}
  BY <1>3, <1>8, <1>9, <1>10, <1>11
<1> QED
  BY <1>8, <1>12, <1>13, <1>14, <1>15 DEF Alone

LEMMA AloneStep ==
  ASSUME TurnsAssumed, Core, ~disturbed => Alone, [Next]_vars, ~disturbed'
  PROVE  Alone'
<1>1. CASE UNCHANGED vars
  <2> USE <1>1 DEF vars, turnVars, cronVars
  <2>1. ~disturbed /\ Alone
    OBVIOUS
  <2> QED
    BY <2>1, AloneStays
<1>2. CASE Next
  <2>1. ~disturbed /\ Alone
    <3>1. ASSUME NEW t \in Turns, EntersCommit(t)
          PROVE  ~disturbed
      BY <3>1 DEF EntersCommit
    <3>2. ASSUME NEW t \in Turns, Loads(t)
          PROVE  ~disturbed
      BY <3>2 DEF Loads
    <3> QED
      BY <1>2, <3>1, <3>2 DEF Next, Builds, Numbers, Delivered, Undelivered, LoadFails,
         Writes, Fails, CronBegins, CronWrites, Edited, Forgotten
  <2>2. turn \in [Turns -> {"idle", "built", "running", "waiting", "loading", "writing", "over"}]
    BY DEF Core, States
  <2>3. ASSUME NEW t \in Turns, Builds(t)
        PROVE  Alone'
    BY <2>1, <2>3, AloneBuilds
  <2>4. ASSUME NEW t \in Turns, Numbers(t) \/ Delivered(t) \/ Undelivered(t)
        PROVE  Alone'
    <3>1. /\ UNCHANGED <<stored, receipt, base, text, committed, gone>>
          /\ turn[t] \in {"built", "running"}
          /\ \E pc \in {"running", "waiting", "over"} : turn' = [turn EXCEPT ![t] = pc]
          /\ \A u \in Turns : u # t => lead'[u] = lead[u] /\ unit'[u] = unit[u]
      BY <2>4 DEF Numbers, Delivered, Undelivered, Goes, Core, Texts
    <3>2. ASSUME NEW u \in Turns, turn'[u] = "writing"
          PROVE  lead'[u] = lead[u] /\ unit'[u] = unit[u] /\ turn[u] = "writing" /\ text'[u] = text[u]
      <4>1. u # t /\ turn[u] = "writing"
        BY <2>2, <3>1, <3>2
      <4> QED
        BY <3>1, <4>1 DEF Core, Texts
    <3>3. \A u \in Turns : /\ turn'[u] # "idle" => turn[u] # "idle"
                           /\ turn[u] = "over" => turn'[u] = "over"
                           /\ turn'[u] \notin {"idle", "over"} => turn[u] \notin {"idle", "over"}
      BY <2>2, <3>1
    <3> QED
      BY <2>1, <3>1, <3>2, <3>3, AloneStays
  <2>5. ASSUME NEW t \in Turns, EntersCommit(t)
        PROVE  Alone'
    <3>1. /\ UNCHANGED <<stored, receipt, base, lead, unit, committed, gone>>
          /\ turn[t] = "waiting"
          /\ \/ turn' = [turn EXCEPT ![t] = "over"] /\ text' = text
             \/ /\ turn' = [turn EXCEPT ![t] = IF Merging THEN "loading" ELSE "writing"]
                /\ text' = [text EXCEPT ![t] = Own(t)]
      BY <2>5 DEF EntersCommit, Leaves, Goes, Holds, Unmerged
    <3>2. ASSUME NEW u \in Turns, turn'[u] = "writing"
          PROVE  \/ turn[u] = "writing" /\ text'[u] = text[u]
                 \/ ~Merging /\ text'[u] = Own(u)
      <4>1. CASE u # t
        BY <2>2, <3>1, <3>2, <4>1 DEF Core, Texts
      <4>2. CASE u = t
        <5>1. ~Merging /\ text' = [text EXCEPT ![t] = Own(t)]
          BY <2>2, <3>1, <3>2, <4>2
        <5> QED
          BY <4>2, <5>1 DEF Core, Texts
      <4> QED
        BY <4>1, <4>2
    <3>3. \A u \in Turns : /\ turn'[u] # "idle" => turn[u] # "idle"
                           /\ turn[u] = "over" => turn'[u] = "over"
                           /\ turn'[u] \notin {"idle", "over"} => turn[u] \notin {"idle", "over"}
      BY <2>2, <3>1
    <3> QED
      BY <2>1, <3>1, <3>2, <3>3, AloneStays
  <2>6. ASSUME NEW t \in Turns, Loads(t)
        PROVE  Alone'
    <3>1. /\ UNCHANGED <<stored, receipt, base, lead, unit, committed, gone>>
          /\ turn[t] = "loading"
          /\ turn' = [turn EXCEPT ![t] = "writing"]
          /\ text' = [text EXCEPT ![t] = Merged(t)]
          /\ ~Misled(t)
      BY <2>6 DEF Loads, Goes, Holds
    <3>2. Merging /\ unit[t] # <<>>
      BY <3>1 DEF Core, Commits, InCommit
    <3>3. ASSUME NEW u \in Turns, turn'[u] = "writing"
          PROVE  \/ turn[u] = "writing" /\ text'[u] = text[u]
                 \/ Merging /\ text'[u] = Merged(u) /\ ~Misled(u) /\ unit[u] # <<>>
      <4>1. CASE u # t
        BY <2>2, <3>1, <3>3, <4>1 DEF Core, Texts
      <4>2. CASE u = t
        <5>1. text'[t] = Merged(t)
          BY <3>1 DEF Core, Texts
        <5> QED
          BY <3>1, <3>2, <4>2, <5>1
      <4> QED
        BY <4>1, <4>2
    <3>4. \A u \in Turns : /\ turn'[u] # "idle" => turn[u] # "idle"
                           /\ turn[u] = "over" => turn'[u] = "over"
                           /\ turn'[u] \notin {"idle", "over"} => turn[u] \notin {"idle", "over"}
      BY <2>2, <3>1
    <3> QED
      BY <2>1, <3>1, <3>2, <3>3, <3>4, AloneStays
  <2>7. ASSUME NEW t \in Turns, Writes(t)
        PROVE  Alone'
    BY <2>1, <2>7, AloneWrites
  <2>8. ASSUME NEW t \in Turns, Fails(t)
        PROVE  Alone'
    <3>1. /\ UNCHANGED <<stored, receipt, base, lead, unit, text, committed, gone>>
          /\ turn[t] \in InCommit
          /\ turn' = [turn EXCEPT ![t] = "over"]
      BY <2>8 DEF Fails, Leaves, Goes, InCommit
    <3>2. \A u \in Turns : /\ turn'[u] # "idle" => turn[u] # "idle"
                           /\ turn[u] = "over" => turn'[u] = "over"
                           /\ turn'[u] \notin {"idle", "over"} => turn[u] \notin {"idle", "over"}
                           /\ turn'[u] = "writing" => turn[u] = "writing"
      BY <2>2, <3>1 DEF InCommit
    <3> QED
      BY <2>1, <3>1, <3>2, AloneStays
  <2>9. ASSUME NEW c \in Crons, CronBegins(c)
        PROVE  Alone'
    <3>1. UNCHANGED <<stored, receipt, base, lead, unit, text, turn, committed, gone>>
      BY <2>9 DEF CronBegins, turnVars
    <3> QED
      BY <2>1, <3>1, AloneStays
  <2>10. ~(\E t \in Turns : LoadFails(t)) /\ ~(\E c \in Crons : CronWrites(c)) /\ ~Edited /\ ~Forgotten
    BY DEF LoadFails, CronWrites, Edited, Forgotten
  <2> QED
    BY <1>2, <2>3, <2>4, <2>5, <2>6, <2>7, <2>8, <2>9, <2>10 DEF Next
<1> QED
  BY <1>1, <1>2

LEMMA IInvHolds == ASSUME TurnsAssumed PROVE Spec => []IInv
<1>1. IInv <=> Core /\ (~disturbed => Alone)
  BY DEF IInv, Core
<1>2. Init => IInv
  BY <1>1, CoreInit, AloneInit
<1>3. IInv /\ [Next]_vars => IInv'
  <2> SUFFICES ASSUME IInv, [Next]_vars
               PROVE  IInv'
    OBVIOUS
  <2>1. Core /\ (~disturbed => Alone)
    BY <1>1
  <2>2. Core'
    BY <2>1, CoreStep
  <2>3. ~disturbed' => Alone'
    BY <2>1, AloneStep
  <2> QED
    BY <2>2, <2>3 DEF IInv, Core
<1> QED
  BY <1>2, <1>3, PTL DEF Spec

(* An older snapshot does not overwrite newer data: with the merge and     *)
(* without it, and whatever the messages look like, what a commit has      *)
(* stored stays until a later turn compacts it, as long as only the        *)
(* committer writes, every turn it merges has a user message and no        *)
(* history that it compares looks like another one.                        *)
THEOREM CommitsAreKept == ASSUME TurnsAssumed PROVE Spec => []CommittedStaysAlone
<1>1. IInv => CommittedStaysAlone
  BY DEF IInv, Alone, CommittedStaysAlone, CommittedStays
<1> QED
  BY <1>1, IInvHolds, PTL

(* What a turn has compacted is not brought back, even by a turn that      *)
(* began before it, under the same conditions.                             *)
THEOREM SummariesReplace == ASSUME TurnsAssumed PROVE Spec => []NoResurrection
<1>1. IInv => NoResurrection
  BY DEF IInv, Alone, NoResurrection
<1> QED
  BY <1>1, IInvHolds, PTL
=============================================================================
