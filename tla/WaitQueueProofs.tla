-------------------------- MODULE WaitQueueProofs ---------------------------
(* What taking something out of a queue does to the queue: Without takes   *)
(* out one entry, Kept all that are not in a set.                          *)
EXTENDS WaitQueue, SequenceTheorems, FiniteSetTheorems, WellFoundedInduction,
        TLAPS

(* Where a task that waits is found: at its own place.                     *)
LEMMA PlaceOfWaiting ==
  ASSUME NEW S, NEW q \in Seq(S), NEW t, \E i \in 1 .. Len(q) : q[i] = t
  PROVE  Place(q, t) \in 1 .. Len(q) /\ q[Place(q, t)] = t
BY DEF Place

(* deque.remove shortens the queue by one: the tasks before t keep their   *)
(* place and the ones after it move up.                                    *)
LEMMA WithoutElements ==
  ASSUME NEW S, NEW q \in Seq(S), NEW t, \E i \in 1 .. Len(q) : q[i] = t
  PROVE  /\ Without(q, t) \in Seq(S)
         /\ Len(Without(q, t)) = Len(q) - 1
         /\ \A i \in 1 .. Len(q) - 1 :
              Without(q, t)[i] = IF i < Place(q, t) THEN q[i] ELSE q[i + 1]
<1> DEFINE p == Place(q, t)
           before == SubSeq(q, 1, p - 1)
           after == SubSeq(q, p + 1, Len(q))
<1>1. p \in 1 .. Len(q) /\ Len(q) \in Nat
  BY PlaceOfWaiting, LenProperties
<1>2. /\ before \in Seq(S)
      /\ Len(before) = p - 1
      /\ \A i \in 1 .. p - 1 : before[i] = q[i]
  BY <1>1, SubSeqProperties
<1>3. /\ after \in Seq(S)
      /\ Len(after) = Len(q) - p
      /\ \A i \in 1 .. Len(q) - p : after[i] = q[p + i]
  BY <1>1, SubSeqProperties
<1>4. /\ before \o after \in Seq(S)
      /\ Len(before \o after) = Len(before) + Len(after)
      /\ \A i \in 1 .. Len(before) + Len(after) :
           (before \o after)[i] = IF i <= Len(before)
                                    THEN before[i]
                                    ELSE after[i - Len(before)]
  BY <1>2, <1>3, ConcatProperties
<1>5. Without(q, t) = before \o after
  BY DEF Without
<1> HIDE DEF p, before, after
<1>6. Len(before) + Len(after) = Len(q) - 1
  BY <1>1, <1>2, <1>3
<1>7. ASSUME NEW i \in 1 .. Len(q) - 1
      PROVE  (before \o after)[i] = IF i < p THEN q[i] ELSE q[i + 1]
  <2>1. CASE i < p
    BY <1>1, <1>2, <1>4, <1>6, <2>1
  <2>2. CASE ~(i < p)
    <3>1. i - (p - 1) \in 1 .. Len(q) - p /\ p + (i - (p - 1)) = i + 1
      BY <1>1, <2>2
    <3>2. (before \o after)[i] = after[i - (p - 1)]
      BY <1>1, <1>2, <1>4, <1>6, <2>2
    <3> QED
      BY <1>3, <2>2, <3>1, <3>2
  <2> QED
    BY <2>1, <2>2
<1> QED
  BY <1>4, <1>5, <1>6, <1>7 DEF p

(* Exactly the others stay, each still at most once, and the head stays    *)
(* the head unless it was t that left.                                     *)
LEMMA WithoutKeeps ==
  ASSUME NEW S, NEW q \in Seq(S), NEW t, \E i \in 1 .. Len(q) : q[i] = t,
         Distinct(q)
  PROVE  /\ Without(q, t) \in Seq(S)
         /\ Distinct(Without(q, t))
         /\ \A u \in S :
              (\E i \in 1 .. Len(Without(q, t)) : Without(q, t)[i] = u)
                <=> u # t /\ \E i \in 1 .. Len(q) : q[i] = u
         /\ Head(q) # t
              => Without(q, t) # <<>> /\ Head(Without(q, t)) = Head(q)
<1> DEFINE r == Without(q, t)
           p == Place(q, t)
<1>1. p \in 1 .. Len(q) /\ q[p] = t /\ Len(q) \in Nat
  BY PlaceOfWaiting, LenProperties
<1>2. /\ r \in Seq(S)
      /\ Len(r) = Len(q) - 1
      /\ \A i \in 1 .. Len(q) - 1 : r[i] = IF i < p THEN q[i] ELSE q[i + 1]
  BY WithoutElements
<1> HIDE DEF r, p
<1>3. Distinct(r)
  BY <1>1, <1>2 DEF Distinct
<1>4. ASSUME NEW u \in S
      PROVE  (\E i \in 1 .. Len(r) : r[i] = u)
               <=> u # t /\ \E i \in 1 .. Len(q) : q[i] = u
  <2>1. ASSUME NEW i \in 1 .. Len(r), r[i] = u
        PROVE  u # t /\ \E j \in 1 .. Len(q) : q[j] = u
    BY <1>1, <1>2, <2>1 DEF Distinct
  <2>2. ASSUME u # t, NEW i \in 1 .. Len(q), q[i] = u
        PROVE  \E j \in 1 .. Len(r) : r[j] = u
    <3>1. i # p
      BY <1>1, <2>2
    <3>2. CASE i < p
      BY <1>1, <1>2, <2>2, <3>2
    <3>3. CASE i > p
      <4>1. i - 1 \in 1 .. Len(r) /\ r[i - 1] = q[i]
        BY <1>1, <1>2, <3>3
      <4> QED
        BY <4>1, <2>2
    <3> QED
      BY <1>1, <3>1, <3>2, <3>3
  <2> QED
    BY <2>1, <2>2
<1>5. ASSUME Head(q) # t
      PROVE  r # <<>> /\ Head(r) = Head(q)
  <2>1. q[1] = Head(q)
    BY <1>1, HeadTailProperties
  <2>2. 1 < p
    BY <1>1, <1>5, <2>1
  <2>3. Len(r) >= 1 /\ r[1] = q[1]
    BY <1>1, <1>2, <2>2
  <2> QED
    BY <1>2, <2>1, <2>3, HeadTailProperties, EmptySeq
<1> QED
  BY <1>2, <1>3, <1>4, <1>5 DEF r

(* A task that begins to wait stands behind all the others.                *)
LEMMA AppendKeeps ==
  ASSUME NEW S, NEW q \in Seq(S), NEW t \in S, Distinct(q),
         ~ \E i \in 1 .. Len(q) : q[i] = t
  PROVE  /\ Append(q, t) \in Seq(S)
         /\ Distinct(Append(q, t))
         /\ \A u \in S : (\E i \in 1 .. Len(Append(q, t)) : Append(q, t)[i] = u)
                           <=> u = t \/ \E i \in 1 .. Len(q) : q[i] = u
         /\ q # <<>> => Head(Append(q, t)) = Head(q)
<1> DEFINE r == Append(q, t)
<1>1. /\ r \in Seq(S)
      /\ Len(r) = Len(q) + 1
      /\ \A i \in 1 .. Len(q) : r[i] = q[i]
      /\ r[Len(q) + 1] = t
      /\ Len(q) \in Nat
  BY AppendProperties, LenProperties
<1>2. q # <<>> => Head(r) = Head(q)
  BY <1>1, HeadTailProperties, EmptySeq
<1> HIDE DEF r
<1>3. Distinct(r)
  BY <1>1 DEF Distinct
<1>4. ASSUME NEW u \in S
      PROVE  (\E i \in 1 .. Len(r) : r[i] = u)
               <=> u = t \/ \E i \in 1 .. Len(q) : q[i] = u
  BY <1>1
<1> QED
  BY <1>1, <1>2, <1>3, <1>4 DEF r

-----------------------------------------------------------------------------
(* Induction, for sets instead of predicates                               *)

LEMMA SetInduction ==
  ASSUME NEW T, 0 \in T, \A n \in Nat : n \in T => n + 1 \in T
  PROVE  Nat \subseteq T
<1> DEFINE R == OpToRel(<, Nat)
           rest == {n \in Nat : n \notin T}
<1>1. SUFFICES ASSUME rest # {} PROVE FALSE
  OBVIOUS
<1>2. IsWellFoundedOn(R, Nat)
  BY NatLessThanWellFounded
<1>3. rest \subseteq Nat
  OBVIOUS
<1> HIDE DEF R
<1>4. PICK n \in rest : \A m \in rest : <<m, n>> \notin R
  BY <1>1, <1>2, <1>3, WFMin
<1>5. \A m \in rest : ~(m < n)
  BY <1>4 DEF R, OpToRel
<1>6. n # 0 /\ n - 1 \in Nat /\ n - 1 < n
  BY <1>4
<1>7. n - 1 \in T
  BY <1>5, <1>6
<1>8. (n - 1) + 1 \in T
  BY <1>6, <1>7
<1> QED
  BY <1>4, <1>8

(* Every sequence is reached from the empty one by appending.              *)
LEMMA QueueInduction ==
  ASSUME NEW X, NEW T, <<>> \in T,
         \A q \in Seq(X), x \in X : q \in T => Append(q, x) \in T
  PROVE  Seq(X) \subseteq T
<1> DEFINE lengths == {n \in Nat : \A q \in Seq(X) : Len(q) = n => q \in T}
<1>1. 0 \in lengths
  BY EmptySeq
<1>2. ASSUME NEW n \in Nat, n \in lengths
      PROVE  n + 1 \in lengths
  <2>1. SUFFICES ASSUME NEW q \in Seq(X), Len(q) = n + 1 PROVE q \in T
    OBVIOUS
  <2>2. q # <<>>
    BY <2>1, EmptySeq
  <2>3. PICK p \in Seq(X), x \in X : q = Append(p, x)
    BY <2>2, SequenceEmptyOrAppend
  <2>4. Len(p) = n
    BY <2>1, <2>3, AppendProperties, LenProperties
  <2> QED
    BY <1>2, <2>3, <2>4
<1> HIDE DEF lengths
<1>3. Nat \subseteq lengths
  BY <1>1, <1>2, SetInduction
<1> QED
  BY <1>3, LenProperties DEF lengths

-----------------------------------------------------------------------------
(* What Kept computes                                                      *)

(* The recursion has a solution.                                           *)
LEMMA KeptRecursion ==
  ASSUME NEW q, Len(q) \in Nat, NEW S, NEW n \in 0 .. Len(q)
  PROVE  KeptUpTo(q, S)[n] =
           IF n = 0 THEN <<>>
             ELSE IF q[n] \in S THEN Append(KeptUpTo(q, S)[n - 1], q[n])
                                ELSE KeptUpTo(q, S)[n - 1]
<1> DEFINE Next(g, i) == IF q[i] \in S THEN Append(g[i - 1], q[i]) ELSE g[i - 1]
           Solves(g, m) == g = [i \in 0 .. m |-> IF i = 0 THEN <<>> ELSE Next(g, i)]
           solved == {m \in Nat : \E g : Solves(g, m)}
<1>1. 0 \in solved
  <2> DEFINE g == [i \in 0 .. 0 |-> <<>>]
  <2>1. Solves(g, 0)
    OBVIOUS
  <2> QED
    BY <2>1
<1>2. ASSUME NEW m \in Nat, m \in solved
      PROVE  m + 1 \in solved
  <2>1. PICK g : Solves(g, m)
    BY <1>2
  <2> DEFINE h == [i \in 0 .. m + 1 |-> IF i <= m THEN g[i] ELSE Next(g, i)]
  <2>2. \A i \in 0 .. m : g[i] = IF i = 0 THEN <<>> ELSE Next(g, i)
    BY <2>1
  <2>3. \A i \in 1 .. m + 1 : i - 1 \in 0 .. m /\ h[i - 1] = g[i - 1]
    OBVIOUS
  <2>4. \A i \in 1 .. m + 1 : Next(h, i) = Next(g, i)
    BY <2>3
  <2> HIDE DEF Next
  <2>5. \A i \in 0 .. m + 1 : h[i] = IF i = 0 THEN <<>> ELSE Next(h, i)
    BY <2>2, <2>4
  <2>6. h = [i \in 0 .. m + 1 |-> h[i]]
    OBVIOUS
  <2> HIDE DEF h
  <2>7. Solves(h, m + 1)
    BY <2>5, <2>6
  <2> QED
    BY <2>7
<1> HIDE DEF Next, solved
<1>3. Nat \subseteq solved
  BY <1>1, <1>2, SetInduction
<1>4. \E g : Solves(g, Len(q))
  BY <1>3 DEF solved
<1>5. KeptUpTo(q, S) = CHOOSE g : Solves(g, Len(q))
  BY DEF KeptUpTo, Next
<1>6. Solves(KeptUpTo(q, S), Len(q))
  BY <1>4, <1>5
<1> QED
  BY <1>6 DEF Next

LEMMA KeptStep ==
  ASSUME NEW q, Len(q) \in Nat, NEW S, NEW n \in Nat, n < Len(q)
  PROVE  KeptUpTo(q, S)[n + 1] =
           IF q[n + 1] \in S THEN Append(KeptUpTo(q, S)[n], q[n + 1])
                             ELSE KeptUpTo(q, S)[n]
<1>1. n + 1 \in 0 .. Len(q) /\ n + 1 # 0 /\ (n + 1) - 1 = n
  OBVIOUS
<1> QED
  BY <1>1, KeptRecursion

LEMMA KeptEmpty == ASSUME NEW S PROVE Kept(<<>>, S) = <<>>
<1> DEFINE q == <<>>
<1>1. Len(q) = 0 /\ Len(q) \in Nat /\ 0 \in 0 .. Len(q)
  OBVIOUS
<1> HIDE DEF q
<1>2. KeptUpTo(q, S)[0] = <<>>
  BY <1>1, KeptRecursion
<1> QED
  BY <1>1, <1>2 DEF Kept, q

LEMMA KeptAppend ==
  ASSUME NEW X, NEW q \in Seq(X), NEW x \in X, NEW S
  PROVE  Kept(Append(q, x), S) = IF x \in S THEN Append(Kept(q, S), x) ELSE Kept(q, S)
<1> DEFINE r == Append(q, x)
           same == {n \in Nat : n <= Len(q) => KeptUpTo(r, S)[n] = KeptUpTo(q, S)[n]}
<1>1. /\ Len(q) \in Nat
      /\ Len(r) = Len(q) + 1
      /\ \A i \in 1 .. Len(q) : r[i] = q[i]
      /\ r[Len(q) + 1] = x
  BY AppendProperties, LenProperties
<1> HIDE DEF r
<1>2. 0 \in same
  BY <1>1, KeptRecursion
<1>3. ASSUME NEW n \in Nat, n \in same
      PROVE  n + 1 \in same
  <2>1. SUFFICES ASSUME n + 1 <= Len(q)
                 PROVE  KeptUpTo(r, S)[n + 1] = KeptUpTo(q, S)[n + 1]
    OBVIOUS
  <2>2. /\ n < Len(q) /\ n < Len(r) /\ Len(r) \in Nat
        /\ r[n + 1] = q[n + 1]
    BY <1>1, <2>1
  <2>3. KeptUpTo(r, S)[n] = KeptUpTo(q, S)[n]
    BY <1>3, <2>2
  <2>4. KeptUpTo(q, S)[n + 1] = IF q[n + 1] \in S THEN Append(KeptUpTo(q, S)[n], q[n + 1])
                                                 ELSE KeptUpTo(q, S)[n]
    BY <1>1, <2>2, KeptStep
  <2>5. KeptUpTo(r, S)[n + 1] = IF r[n + 1] \in S THEN Append(KeptUpTo(r, S)[n], r[n + 1])
                                                 ELSE KeptUpTo(r, S)[n]
    BY <2>2, KeptStep
  <2> QED
    BY <2>2, <2>3, <2>4, <2>5
<1> HIDE DEF same
<1>4. Nat \subseteq same
  BY <1>2, <1>3, SetInduction
<1>5. KeptUpTo(r, S)[Len(q)] = Kept(q, S)
  BY <1>1, <1>4 DEF same, Kept
<1>6. Len(q) < Len(r) /\ Len(r) \in Nat
  BY <1>1
<1>7. KeptUpTo(r, S)[Len(q) + 1] =
        IF r[Len(q) + 1] \in S THEN Append(KeptUpTo(r, S)[Len(q)], r[Len(q) + 1])
                              ELSE KeptUpTo(r, S)[Len(q)]
  BY <1>1, <1>6, KeptStep
<1> QED
  BY <1>1, <1>5, <1>7 DEF Kept, r

-----------------------------------------------------------------------------
(* What Kept is good for                                                   *)

LEMMA MembersType ==
  ASSUME NEW X, NEW q \in Seq(X)
  PROVE  Members(q) \subseteq X
BY ElementOfSeq DEF Members

LEMMA MembersWithout ==
  ASSUME NEW X, NEW q \in Seq(X), Distinct(q), NEW t \in Members(q)
  PROVE  /\ Without(q, t) \in Seq(X)
         /\ Distinct(Without(q, t))
         /\ Members(Without(q, t)) = Members(q) \ {t}
<1>1. \E i \in 1 .. Len(q) : q[i] = t
  BY DEF Members
<1>2. /\ Without(q, t) \in Seq(X)
      /\ Distinct(Without(q, t))
      /\ \A u \in X : (\E i \in 1 .. Len(Without(q, t)) : Without(q, t)[i] = u)
                        <=> u # t /\ \E i \in 1 .. Len(q) : q[i] = u
  BY <1>1, WithoutKeeps
<1>3. Members(q) \subseteq X /\ Members(Without(q, t)) \subseteq X
  BY <1>2, MembersType
<1> QED
  BY <1>2, <1>3 DEF Members

LEMMA MembersAppend ==
  ASSUME NEW X, NEW q \in Seq(X), NEW x \in X
  PROVE  /\ Members(Append(q, x)) = Members(q) \cup {x}
         /\ Distinct(Append(q, x)) <=> Distinct(q) /\ x \notin Members(q)
<1> DEFINE r == Append(q, x)
<1>1. /\ r \in Seq(X)
      /\ Len(r) = Len(q) + 1
      /\ \A i \in 1 .. Len(q) : r[i] = q[i]
      /\ r[Len(q) + 1] = x
      /\ Len(q) \in Nat
  BY AppendProperties, LenProperties
<1> HIDE DEF r
<1>2. Members(r) = Members(q) \cup {x}
  BY <1>1 DEF Members
<1>3. ASSUME Distinct(r)
      PROVE  Distinct(q) /\ x \notin Members(q)
  BY <1>1, <1>3 DEF Distinct, Members
<1>4. ASSUME Distinct(q), x \notin Members(q)
      PROVE  Distinct(r)
  BY <1>1, <1>4 DEF Distinct, Members
<1> QED
  BY <1>2, <1>3, <1>4 DEF r

(* Exactly the entries in S stay, each as often as it stood there.         *)
LEMMA KeptMembers ==
  ASSUME NEW X, NEW q \in Seq(X), NEW S
  PROVE  /\ Kept(q, S) \in Seq(X)
         /\ Members(Kept(q, S)) = Members(q) \cap S
         /\ Distinct(q) => Distinct(Kept(q, S))
         /\ Len(Kept(q, S)) <= Len(q)
<1> DEFINE T == {r \in Seq(X) : /\ Kept(r, S) \in Seq(X)
                                /\ Members(Kept(r, S)) = Members(r) \cap S
                                /\ Distinct(r) => Distinct(Kept(r, S))
                                /\ Len(Kept(r, S)) <= Len(r)}
<1>1. <<>> \in T
  <2> DEFINE none == <<>>
  <2>1. Members(none) = {} /\ none \in Seq(X) /\ Len(none) = 0
    BY EmptySeq DEF Members
  <2>2. Kept(none, S) = none
    BY KeptEmpty
  <2> HIDE DEF none
  <2>3. /\ Kept(none, S) \in Seq(X)
        /\ Members(Kept(none, S)) = Members(none) \cap S
        /\ Distinct(none) => Distinct(Kept(none, S))
        /\ Len(Kept(none, S)) <= Len(none)
    BY <2>1, <2>2
  <2>4. none \in T
    BY <2>1, <2>3
  <2> QED
    BY <2>4 DEF none
<1>2. ASSUME NEW r \in Seq(X), NEW x \in X, r \in T
      PROVE  Append(r, x) \in T
  <2> DEFINE k == Kept(r, S)
             ra == Append(r, x)
  <2>1. /\ k \in Seq(X) /\ Members(k) = Members(r) \cap S
        /\ Distinct(r) => Distinct(k)
        /\ Len(k) <= Len(r) /\ Len(k) \in Nat /\ Len(r) \in Nat
    BY <1>2, LenProperties
  <2>2. Kept(ra, S) = IF x \in S THEN Append(k, x) ELSE k
    BY KeptAppend
  <2>3. /\ Members(ra) = Members(r) \cup {x}
        /\ Distinct(ra) <=> Distinct(r) /\ x \notin Members(r)
        /\ ra \in Seq(X) /\ Len(ra) = Len(r) + 1
    BY MembersAppend, AppendProperties
  <2> HIDE DEF k, ra
  <2>4. /\ Members(Append(k, x)) = Members(k) \cup {x}
        /\ Distinct(Append(k, x)) <=> Distinct(k) /\ x \notin Members(k)
        /\ Append(k, x) \in Seq(X) /\ Len(Append(k, x)) = Len(k) + 1
    BY <2>1, MembersAppend, AppendProperties
  <2>5. CASE x \in S
    <3>1. Kept(ra, S) = Append(k, x)
      BY <2>2, <2>5
    <3>2. Members(Append(k, x)) = Members(ra) \cap S
      BY <2>1, <2>3, <2>4, <2>5
    <3>3. Distinct(ra) => Distinct(Append(k, x))
      BY <2>1, <2>3, <2>4
    <3>4. Len(Append(k, x)) <= Len(ra)
      BY <2>1, <2>3, <2>4
    <3> QED
      BY <2>3, <2>4, <3>1, <3>2, <3>3, <3>4 DEF ra
  <2>6. CASE x \notin S
    <3>1. Kept(ra, S) = k
      BY <2>2, <2>6
    <3> QED
      BY <2>1, <2>3, <2>6, <3>1 DEF ra
  <2> QED
    BY <2>5, <2>6
<1> HIDE DEF T
<1>3. Seq(X) \subseteq T
  BY <1>1, <1>2, QueueInduction
<1> QED
  BY <1>3 DEF T

(* Two sets that agree on the entries keep the same of them.               *)
LEMMA KeptSame ==
  ASSUME NEW X, NEW q \in Seq(X), NEW S, NEW R,
         Members(q) \cap S = Members(q) \cap R
  PROVE  Kept(q, S) = Kept(q, R)
<1> DEFINE T == {r \in Seq(X) : Members(r) \cap S = Members(r) \cap R
                                  => Kept(r, S) = Kept(r, R)}
<1>1. <<>> \in T
  BY KeptEmpty
<1>2. ASSUME NEW r \in Seq(X), NEW x \in X, r \in T
      PROVE  Append(r, x) \in T
  <2>1. Members(Append(r, x)) = Members(r) \cup {x}
    BY MembersAppend
  <2>2. /\ Kept(Append(r, x), S) = IF x \in S THEN Append(Kept(r, S), x) ELSE Kept(r, S)
        /\ Kept(Append(r, x), R) = IF x \in R THEN Append(Kept(r, R), x) ELSE Kept(r, R)
    BY KeptAppend
  <2>3. SUFFICES ASSUME Members(Append(r, x)) \cap S = Members(Append(r, x)) \cap R
                 PROVE  Kept(Append(r, x), S) = Kept(Append(r, x), R)
    BY AppendProperties
  <2>4. Kept(r, S) = Kept(r, R) /\ (x \in S <=> x \in R)
    BY <1>2, <2>1, <2>3
  <2> QED
    BY <2>2, <2>4
<1> HIDE DEF T
<1>3. Seq(X) \subseteq T
  BY <1>1, <1>2, QueueInduction
<1> QED
  BY <1>3 DEF T

(* Nothing is lost when every entry is in S, everything when none is.      *)
LEMMA KeptAll ==
  ASSUME NEW X, NEW q \in Seq(X), NEW S, Members(q) \subseteq S
  PROVE  Kept(q, S) = q
<1> DEFINE T == {r \in Seq(X) : Members(r) \subseteq S => Kept(r, S) = r}
<1>1. <<>> \in T
  BY KeptEmpty
<1>2. ASSUME NEW r \in Seq(X), NEW x \in X, r \in T
      PROVE  Append(r, x) \in T
  <2>1. Members(Append(r, x)) = Members(r) \cup {x}
    BY MembersAppend
  <2>2. Kept(Append(r, x), S) = IF x \in S THEN Append(Kept(r, S), x) ELSE Kept(r, S)
    BY KeptAppend
  <2> QED
    BY <1>2, <2>1, <2>2, AppendProperties
<1> HIDE DEF T
<1>3. Seq(X) \subseteq T
  BY <1>1, <1>2, QueueInduction
<1> QED
  BY <1>3 DEF T

LEMMA MembersOfEmpty ==
  ASSUME NEW X, NEW q \in Seq(X)
  PROVE  q = <<>> <=> Members(q) = {}
<1>1. q # <<>> => Len(q) \in Nat \ {0}
  BY EmptySeq
<1>2. ASSUME q # <<>> PROVE q[1] \in Members(q)
  BY <1>1, <1>2 DEF Members
<1>3. Members(<<>>) = {}
  BY DEF Members
<1> QED
  BY <1>2, <1>3

LEMMA KeptNone ==
  ASSUME NEW X, NEW q \in Seq(X), NEW S, Members(q) \cap S = {}
  PROVE  Kept(q, S) = <<>>
BY KeptMembers, MembersOfEmpty

(* Keeping twice is keeping what both sets hold.                           *)
LEMMA KeptKept ==
  ASSUME NEW X, NEW q \in Seq(X), NEW S, NEW R
  PROVE  Kept(Kept(q, S), R) = Kept(q, S \cap R)
<1> DEFINE T == {r \in Seq(X) : Kept(Kept(r, S), R) = Kept(r, S \cap R)}
<1>1. <<>> \in T
  BY KeptEmpty
<1>2. ASSUME NEW r \in Seq(X), NEW x \in X, r \in T
      PROVE  Append(r, x) \in T
  <2>1. Kept(r, S) \in Seq(X)
    BY KeptMembers
  <2>2. Kept(Append(r, x), S) = IF x \in S THEN Append(Kept(r, S), x) ELSE Kept(r, S)
    BY KeptAppend
  <2>3. Kept(Append(Kept(r, S), x), R) =
          IF x \in R THEN Append(Kept(Kept(r, S), R), x) ELSE Kept(Kept(r, S), R)
    BY <2>1, KeptAppend
  <2>4. Kept(Append(r, x), S \cap R) =
          IF x \in S \cap R THEN Append(Kept(r, S \cap R), x) ELSE Kept(r, S \cap R)
    BY KeptAppend
  <2>5. Kept(Kept(r, S), R) = Kept(r, S \cap R)
    BY <1>2
  <2>6. CASE x \in S
    <3>1. Kept(Kept(Append(r, x), S), R) = Kept(Append(Kept(r, S), x), R)
      BY <2>2, <2>6
    <3>2. Kept(Append(Kept(r, S), x), R) = Kept(Append(r, x), S \cap R)
      BY <2>3, <2>4, <2>5, <2>6
    <3> QED
      BY <3>1, <3>2, AppendProperties
  <2>7. CASE x \notin S
    BY <2>2, <2>4, <2>5, <2>7, AppendProperties
  <2> QED
    BY <2>6, <2>7
<1> HIDE DEF T
<1>3. Seq(X) \subseteq T
  BY <1>1, <1>2, QueueInduction
<1> QED
  BY <1>3 DEF T

(* Keeping of two queues one after the other.                              *)
LEMMA KeptConcat ==
  ASSUME NEW X, NEW p \in Seq(X), NEW q \in Seq(X), NEW S
  PROVE  Kept(p \o q, S) = Kept(p, S) \o Kept(q, S)
<1> DEFINE T == {r \in Seq(X) : Kept(p \o r, S) = Kept(p, S) \o Kept(r, S)}
<1>0. Kept(p, S) \in Seq(X)
  BY KeptMembers
<1>1. <<>> \in T
  <2>1. p \o <<>> = p /\ Kept(p, S) \o <<>> = Kept(p, S)
    BY <1>0, ConcatEmptySeq
  <2> QED
    BY <2>1, KeptEmpty, EmptySeq
<1>2. ASSUME NEW r \in Seq(X), NEW x \in X, r \in T
      PROVE  Append(r, x) \in T
  <2> DEFINE kp == Kept(p, S)
             kr == Kept(r, S)
  <2>1. kr \in Seq(X) /\ kp \in Seq(X) /\ p \o r \in Seq(X) /\ kp \o kr \in Seq(X)
        /\ <<x>> \in Seq(X)
    BY <1>0, KeptMembers, ConcatProperties
  <2>2. /\ p \o Append(r, x) = Append(p \o r, x)
        /\ kp \o Append(kr, x) = Append(kp \o kr, x)
    <3>1. /\ Append(r, x) = r \o <<x>> /\ Append(p \o r, x) = (p \o r) \o <<x>>
          /\ Append(kr, x) = kr \o <<x>> /\ Append(kp \o kr, x) = (kp \o kr) \o <<x>>
      BY <2>1, AppendIsConcat
    <3>2. (p \o r) \o <<x>> = p \o (r \o <<x>>)
      BY <2>1, ConcatAssociative
    <3> HIDE DEF kp, kr
    <3>3. (kp \o kr) \o <<x>> = kp \o (kr \o <<x>>)
      BY <2>1, ConcatAssociative
    <3> QED
      BY <3>1, <3>2, <3>3
  <2>3. Kept(p \o r, S) = kp \o kr
    BY <1>2
  <2>4. Kept(Append(p \o r, x), S) =
          IF x \in S THEN Append(Kept(p \o r, S), x) ELSE Kept(p \o r, S)
    BY <2>1, KeptAppend
  <2>5. Kept(Append(r, x), S) = IF x \in S THEN Append(kr, x) ELSE kr
    BY KeptAppend
  <2> HIDE DEF kp, kr
  <2>6. Kept(p \o Append(r, x), S) = kp \o Kept(Append(r, x), S)
    BY <2>2, <2>3, <2>4, <2>5
  <2> QED
    BY <2>6, AppendProperties DEF kp
<1> HIDE DEF T
<1>3. Seq(X) \subseteq T
  BY <1>1, <1>2, QueueInduction
<1> QED
  BY <1>3 DEF T

(* To take an entry out is to keep all the others.                         *)
LEMMA WithoutIsKept ==
  ASSUME NEW X, NEW q \in Seq(X), Distinct(q), NEW t \in Members(q), NEW S
  PROVE  Kept(Without(q, t), S) = Kept(q, S \ {t})
<1> DEFINE p == Place(q, t)
           before == SubSeq(q, 1, p - 1)
           after == SubSeq(q, p + 1, Len(q))
<1>1. p \in 1 .. Len(q) /\ q[p] = t /\ Len(q) \in Nat /\ t \in X
  BY PlaceOfWaiting, LenProperties, ElementOfSeq DEF Members
<1>2. /\ before \in Seq(X)
      /\ Len(before) = p - 1
      /\ \A i \in 1 .. p - 1 : before[i] = q[i]
  BY <1>1, SubSeqProperties
<1>3. /\ after \in Seq(X)
      /\ Len(after) = Len(q) - p
      /\ \A i \in 1 .. Len(q) - p : after[i] = q[p + i]
  BY <1>1, SubSeqProperties
<1>4. Without(q, t) = before \o after
  BY DEF Without
<1> HIDE DEF p
<1>5. q = (before \o <<t>>) \o after
  <2>1. 1 \in 1 .. Len(q) /\ p \in 1 .. Len(q)
    BY <1>1
  <2>2. SubSeq(q, 1, p) = SubSeq(q, 1, p - 1) \o <<q[p]>>
    BY <2>1, SubSeqRecursiveSecond
  <2>3. 1 \in 1 .. Len(q) + 1 /\ p \in 1 - 1 .. Len(q) /\ Len(q) \in p .. Len(q)
    BY <1>1
  <2>4. SubSeq(q, 1, p) \o SubSeq(q, p + 1, Len(q)) = SubSeq(q, 1, Len(q))
    BY <2>3, ConcatAdjacentSubSeq
  <2> QED
    BY <1>1, <2>2, <2>4, SubSeqFull
<1> HIDE DEF before, after
<1>6. t \notin Members(before) /\ t \notin Members(after)
  <2>1. ASSUME NEW i \in 1 .. Len(before), before[i] = t PROVE FALSE
    BY <1>1, <1>2, <2>1 DEF Distinct
  <2>2. ASSUME NEW i \in 1 .. Len(after), after[i] = t PROVE FALSE
    BY <1>1, <1>3, <2>2 DEF Distinct
  <2> QED
    BY <2>1, <2>2 DEF Members
<1>7. /\ Kept(before, S) = Kept(before, S \ {t})
      /\ Kept(after, S) = Kept(after, S \ {t})
  BY <1>2, <1>3, <1>6, KeptSame
<1> DEFINE upTo == Append(before, t)
<1>8. Kept(upTo, S \ {t}) = Kept(before, S \ {t})
  BY <1>1, <1>2, KeptAppend
<1>9. upTo \in Seq(X) /\ upTo = before \o <<t>>
  BY <1>1, <1>2, AppendProperties, AppendIsConcat
<1> HIDE DEF upTo
<1>10. Kept(q, S \ {t}) = Kept(upTo, S \ {t}) \o Kept(after, S \ {t})
  <2>1. upTo \in Seq(X) /\ after \in Seq(X)
    BY <1>3, <1>9
  <2>2. Kept(upTo \o after, S \ {t}) = Kept(upTo, S \ {t}) \o Kept(after, S \ {t})
    BY <2>1, KeptConcat
  <2> QED
    BY <1>5, <1>9, <2>2
<1>11. Kept(Without(q, t), S) = Kept(before, S) \o Kept(after, S)
  BY <1>2, <1>3, <1>4, KeptConcat
<1> QED
  BY <1>7, <1>8, <1>10, <1>11

(* Taking out and keeping in either order.                                 *)
LEMMA WithoutKept ==
  ASSUME NEW X, NEW q \in Seq(X), Distinct(q), NEW S, NEW t \in Members(q) \cap S
  PROVE  Without(Kept(q, S), t) = Kept(q, S \ {t})
<1> DEFINE k == Kept(q, S)
<1>1. k \in Seq(X) /\ Distinct(k) /\ Members(k) = Members(q) \cap S
  BY KeptMembers
<1>2. Kept(k, S \ {t}) = Kept(q, S \cap (S \ {t}))
  BY KeptKept
<1>3. S \cap (S \ {t}) = S \ {t}
  OBVIOUS
<1> HIDE DEF k
<1>4. Kept(Without(k, t), S) = Kept(k, S \ {t})
  BY <1>1, WithoutIsKept
<1>5. Without(k, t) \in Seq(X) /\ Members(Without(k, t)) \subseteq S
  BY <1>1, MembersWithout
<1>6. Kept(Without(k, t), S) = Without(k, t)
  BY <1>5, KeptAll
<1> QED
  BY <1>2, <1>3, <1>4, <1>6 DEF k

(* The oldest entry leaves from the front.                                 *)
LEMMA WithoutHead ==
  ASSUME NEW X, NEW q \in Seq(X), Distinct(q), q # <<>>
  PROVE  Without(q, Head(q)) = Tail(q)
<1>1. Len(q) \in Nat \ {0} /\ Head(q) = q[1]
  BY EmptySeq
<1>2. Place(q, Head(q)) \in 1 .. Len(q) /\ q[Place(q, Head(q))] = q[1]
  BY <1>1, PlaceOfWaiting
<1>3. Place(q, Head(q)) = 1
  BY <1>1, <1>2 DEF Distinct
<1>4. SubSeq(q, 1, 0) = <<>> /\ SubSeq(q, 2, Len(q)) = Tail(q) /\ Tail(q) \in Seq(X)
  BY <1>1, SubSeqEmpty, TailIsSubSeq, HeadTailProperties
<1>5. Without(q, Head(q)) = SubSeq(q, 1, 0) \o SubSeq(q, 2, Len(q))
  BY <1>3 DEF Without
<1> QED
  BY <1>4, <1>5, ConcatEmptySeq

(* The oldest entry stays the oldest when it is kept.                      *)
LEMMA KeptHead ==
  ASSUME NEW X, NEW q \in Seq(X), q # <<>>, NEW S, Head(q) \in S
  PROVE  /\ Kept(q, S) # <<>>
         /\ Head(Kept(q, S)) = Head(q)
         /\ Tail(Kept(q, S)) = Kept(Tail(q), S)
<1> DEFINE h == Head(q)
           rest == Tail(q)
           k == Kept(rest, S)
           one == <<h>>
<1>1. rest \in Seq(X) /\ h \in X
  BY HeadTailProperties
<1>2. Len(q) \in Nat \ {0} /\ h = q[1]
  BY EmptySeq
<1>3. q = one \o rest
  <2>1. SubSeq(q, 1, Len(q)) = <<q[1]>> \o SubSeq(q, 1 + 1, Len(q))
    BY <1>2, SubSeqRecursiveFirst
  <2> QED
    BY <1>2, <2>1, SubSeqFull, TailIsSubSeq
<1> HIDE DEF h, rest
<1>4. one \in Seq(X) /\ Members(one) = {h}
  BY <1>1 DEF Members
<1> HIDE DEF one
<1>5. Kept(one, S) = one
  BY <1>4, KeptAll DEF h
<1>6. Kept(q, S) = one \o k
  <2>1. Kept(one \o rest, S) = Kept(one, S) \o Kept(rest, S)
    BY <1>1, <1>4, KeptConcat
  <2> QED
    BY <1>3, <1>5, <2>1
<1>7. k \in Seq(X)
  BY <1>1, KeptMembers
<1> HIDE DEF k
<1>8. one \o k # <<>> /\ Head(one \o k) = h /\ Tail(one \o k) = k
  BY <1>1, <1>7 DEF one
<1> QED
  BY <1>6, <1>8 DEF h, k, rest

-----------------------------------------------------------------------------
(* How many stand in a queue, and what its oldest entry leaves behind      *)

LEMMA MembersCount ==
  ASSUME NEW X, NEW q \in Seq(X)
  PROVE  /\ IsFiniteSet(Members(q))
         /\ Cardinality(Members(q)) \in Nat
         /\ Distinct(q) => Cardinality(Members(q)) = Len(q)
<1> DEFINE T == {r \in Seq(X) : /\ IsFiniteSet(Members(r))
                                /\ Distinct(r) => Cardinality(Members(r)) = Len(r)}
<1>1. <<>> \in T
  <2>1. Members(<<>>) = {}
    BY DEF Members
  <2>2. IsFiniteSet({}) /\ Cardinality({}) = 0
    BY FS_EmptySet
  <2> QED
    BY <2>1, <2>2, EmptySeq
<1>2. ASSUME NEW r \in Seq(X), NEW x \in X, r \in T
      PROVE  Append(r, x) \in T
  <2> DEFINE ra == Append(r, x)
  <2>1. /\ Members(ra) = Members(r) \cup {x}
        /\ Distinct(ra) <=> Distinct(r) /\ x \notin Members(r)
        /\ ra \in Seq(X) /\ Len(ra) = Len(r) + 1
    BY MembersAppend, AppendProperties
  <2>2. /\ IsFiniteSet(Members(r))
        /\ Distinct(r) => Cardinality(Members(r)) = Len(r)
    BY <1>2
  <2>3. /\ IsFiniteSet(Members(r) \cup {x})
        /\ x \notin Members(r)
             => Cardinality(Members(r) \cup {x}) = Cardinality(Members(r)) + 1
    BY <2>2, FS_AddElement
  <2> HIDE DEF ra
  <2>4. ra \in T
    BY <2>1, <2>2, <2>3
  <2> QED
    BY <2>4 DEF ra
<1> HIDE DEF T
<1>3. Seq(X) \subseteq T
  BY <1>1, <1>2, QueueInduction
<1>4. IsFiniteSet(Members(q))
  BY <1>3 DEF T
<1> QED
  BY <1>3, <1>4, FS_CardinalityType DEF T

LEMMA TailKeeps ==
  ASSUME NEW X, NEW q \in Seq(X), Distinct(q), q # <<>>
  PROVE  /\ Tail(q) \in Seq(X) /\ Distinct(Tail(q))
         /\ Len(Tail(q)) = Len(q) - 1
         /\ Head(q) \in Members(q) /\ Head(q) = q[1]
         /\ Members(Tail(q)) = Members(q) \ {Head(q)}
<1> DEFINE h == Head(q)
<1>1. Len(q) \in Nat \ {0} /\ h = q[1]
  BY EmptySeq
<1>2. h \in Members(q)
  BY <1>1 DEF Members
<1>3. Without(q, h) = Tail(q)
  BY WithoutHead
<1> HIDE DEF h
<1>4. /\ Without(q, h) \in Seq(X) /\ Distinct(Without(q, h))
      /\ Members(Without(q, h)) = Members(q) \ {h}
  BY <1>2, MembersWithout
<1>5. Len(Tail(q)) = Len(q) - 1
  BY HeadTailProperties
<1> QED
  BY <1>1, <1>2, <1>3, <1>4, <1>5 DEF h
-----------------------------------------------------------------------------
(* Queues with gaps: entries that are not in S                             *)

(* Two queues of one length that have the same entries at the same places, *)
(* apart from the gaps, keep the same.                                     *)
LEMMA KeptAgree ==
  ASSUME NEW q, NEW r, Len(q) \in Nat, Len(r) = Len(q), NEW S, NEW R,
         \A i \in 1 .. Len(q) : /\ q[i] \in S <=> r[i] \in R
                                /\ q[i] \in S => r[i] = q[i]
  PROVE  Kept(q, S) = Kept(r, R)
<1> DEFINE same == {n \in Nat : n <= Len(q) => KeptUpTo(q, S)[n] = KeptUpTo(r, R)[n]}
<1>1. 0 \in same
  BY KeptRecursion
<1>2. ASSUME NEW n \in Nat, n \in same
      PROVE  n + 1 \in same
  <2>1. SUFFICES ASSUME n + 1 <= Len(q)
                 PROVE  KeptUpTo(q, S)[n + 1] = KeptUpTo(r, R)[n + 1]
    OBVIOUS
  <2>2. n < Len(q) /\ n + 1 \in 1 .. Len(q)
    BY <2>1
  <2>3. KeptUpTo(q, S)[n] = KeptUpTo(r, R)[n]
    BY <1>2, <2>2
  <2>4. KeptUpTo(q, S)[n + 1] = IF q[n + 1] \in S THEN Append(KeptUpTo(q, S)[n], q[n + 1])
                                                 ELSE KeptUpTo(q, S)[n]
    BY <2>2, KeptStep
  <2>5. KeptUpTo(r, R)[n + 1] = IF r[n + 1] \in R THEN Append(KeptUpTo(r, R)[n], r[n + 1])
                                                 ELSE KeptUpTo(r, R)[n]
    BY <2>2, KeptStep
  <2> QED
    BY <2>2, <2>3, <2>4, <2>5
<1> HIDE DEF same
<1>3. Nat \subseteq same
  BY <1>1, <1>2, SetInduction
<1> QED
  BY <1>3 DEF same, Kept

(* What has one place each, apart from the gaps, is kept once.             *)
LEMMA KeptDistinct ==
  ASSUME NEW X, NEW q \in Seq(X), NEW S,
         \A i, j \in 1 .. Len(q) : q[i] \in S /\ q[i] = q[j] => i = j
  PROVE  Distinct(Kept(q, S))
<1> DEFINE Once(r) == \A i, j \in 1 .. Len(r) : r[i] \in S /\ r[i] = r[j] => i = j
           T == {r \in Seq(X) : Once(r) => Distinct(Kept(r, S))}
<1>1. <<>> \in T
  BY KeptEmpty, EmptySeq DEF Distinct
<1>2. ASSUME NEW r \in Seq(X), NEW x \in X, r \in T
      PROVE  Append(r, x) \in T
  <2> DEFINE ra == Append(r, x)
             k == Kept(r, S)
  <2>1. /\ ra \in Seq(X) /\ Len(ra) = Len(r) + 1 /\ Len(r) \in Nat
        /\ \A i \in 1 .. Len(r) : ra[i] = r[i]
        /\ ra[Len(r) + 1] = x
    BY AppendProperties, LenProperties
  <2>2. Kept(ra, S) = IF x \in S THEN Append(k, x) ELSE k
    BY KeptAppend
  <2>3. k \in Seq(X) /\ Members(k) = Members(r) \cap S
    BY KeptMembers
  <2> HIDE DEF ra, k
  <2>4. SUFFICES ASSUME Once(ra) PROVE Distinct(Kept(ra, S))
    BY <2>1 DEF ra
  <2>5. Once(r)
    BY <2>1, <2>4
  <2>6. x \in S => x \notin Members(r)
    BY <2>1, <2>4 DEF Members
  <2>7. Distinct(k)
    BY <1>2, <2>5 DEF k
  <2>8. Distinct(Append(k, x)) <=> Distinct(k) /\ x \notin Members(k)
    BY <2>3, MembersAppend
  <2> QED
    BY <2>2, <2>3, <2>6, <2>7, <2>8
<1> HIDE DEF T
<1>3. Seq(X) \subseteq T
  BY <1>1, <1>2, QueueInduction
<1> QED
  BY <1>3 DEF T

(* The first entry that is no gap becomes the head.                        *)
LEMMA KeptFirst ==
  ASSUME NEW X, NEW q \in Seq(X), NEW S, NEW p \in 1 .. Len(q), q[p] \in S,
         \A i \in 1 .. p - 1 : q[i] \notin S
  PROVE  Kept(q, S) # <<>> /\ Head(Kept(q, S)) = q[p]
<1> DEFINE First(r, n) == r[n] \in S /\ \A i \in 1 .. n - 1 : r[i] \notin S
           T == {r \in Seq(X) : \A n \in 1 .. Len(r) :
                   First(r, n) => Kept(r, S) # <<>> /\ Head(Kept(r, S)) = r[n]}
<1>1. <<>> \in T
  BY EmptySeq
<1>2. ASSUME NEW r \in Seq(X), NEW x \in X, r \in T
      PROVE  Append(r, x) \in T
  <2> DEFINE ra == Append(r, x)
             k == Kept(r, S)
  <2>1. /\ ra \in Seq(X) /\ Len(ra) = Len(r) + 1 /\ Len(r) \in Nat
        /\ \A i \in 1 .. Len(r) : ra[i] = r[i]
        /\ ra[Len(r) + 1] = x
    BY AppendProperties, LenProperties
  <2>2. Kept(ra, S) = IF x \in S THEN Append(k, x) ELSE k
    BY KeptAppend
  <2>3. k \in Seq(X) /\ Members(k) = Members(r) \cap S
    BY KeptMembers
  <2>4. /\ k # <<>> => Append(k, x) # <<>> /\ Head(Append(k, x)) = Head(k)
        /\ k = <<>> => Append(k, x) # <<>> /\ Head(Append(k, x)) = x
    <3>1. /\ Append(k, x) \in Seq(X) /\ Len(Append(k, x)) = Len(k) + 1
          /\ \A i \in 1 .. Len(k) : Append(k, x)[i] = k[i]
          /\ Append(k, x)[Len(k) + 1] = x
          /\ Len(k) \in Nat
      BY <2>3, AppendProperties, LenProperties
    <3> HIDE DEF k
    <3>2. Append(k, x) # <<>> /\ Head(Append(k, x)) = Append(k, x)[1]
      <4>1. Append(k, x) # <<>>
        BY <3>1, EmptySeq
      <4> QED
        BY <3>1, <4>1, HeadTailProperties
    <3>3. CASE k # <<>>
      <4>1. Len(k) # 0 /\ Head(k) = k[1]
        BY <2>3, <3>3, EmptySeq, HeadTailProperties
      <4> QED
        BY <3>1, <3>2, <3>3, <4>1
    <3>4. CASE k = <<>>
      <4>1. Len(k) = 0
        BY <3>4
      <4> QED
        BY <3>1, <3>2, <3>4, <4>1
    <3> QED
      BY <3>3, <3>4
  <2> HIDE DEF ra
  <2>5. ASSUME NEW n \in 1 .. Len(ra), First(ra, n)
        PROVE  Kept(ra, S) # <<>> /\ Head(Kept(ra, S)) = ra[n]
    <3>1. CASE n \in 1 .. Len(r)
      <4>1. First(r, n) /\ r[n] = ra[n]
        BY <2>1, <2>5, <3>1
      <4>2. k # <<>> /\ Head(k) = r[n]
        BY <1>2, <3>1, <4>1
      <4> HIDE DEF k
      <4> QED
        BY <2>2, <2>4, <4>1, <4>2
    <3>2. CASE n = Len(r) + 1
      <4>1. x \in S /\ ra[n] = x
        BY <2>1, <2>5, <3>2
      <4>2. \A i \in 1 .. Len(r) : r[i] \notin S
        BY <2>1, <2>5, <3>2
      <4>3. Members(r) \cap S = {}
        BY <4>2 DEF Members
      <4>4. k = <<>>
        BY <2>3, <4>3, MembersOfEmpty
      <4> HIDE DEF k
      <4> QED
        BY <2>2, <2>4, <4>1, <4>4
    <3> QED
      BY <2>1, <3>1, <3>2
  <2> QED
    BY <2>1, <2>5 DEF ra
<1> HIDE DEF T
<1>3. Seq(X) \subseteq T
  BY <1>1, <1>2, QueueInduction
<1> QED
  BY <1>3 DEF T
=============================================================================
