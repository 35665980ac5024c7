-------------------------- MODULE SessionLockProofs -------------------------
(***************************************************************************)
(* Proofs about SessionLock, for any finite set of tasks and any loops,    *)
(* session keys and lock objects.                                          *)
(*                                                                         *)
(* IInv is inductive.  Its heart is the chain CountExact -> OneLockPerSlot *)
(* -> MutualExclusion: because a waiter is counted before it waits, an     *)
(* entry in use is never dropped; so two tasks of one slot share one lock  *)
(* object; and that object is taken while a body runs and woken for one    *)
(* waiter at a time while it is free.                                      *)
(***************************************************************************)
EXTENDS SessionLock, WaitQueueProofs, FiniteSetTheorems

(* Init establishes the inductive invariant.                               *)
LEMMA InitIInv == Init => IInv
<1> SUFFICES ASSUME Init PROVE IInv
  OBVIOUS
<1> USE DEF Init
<1>1. TypeOK
  BY EmptySeq DEF TypeOK
<1>2. LocalsFit /\ OneLockPerSlot /\ NoSharedLock /\ MutualExclusion
  BY DEF LocalsFit, OneLockPerSlot, NoSharedLock, MutualExclusion
<1>3. CountExact
  <2>1. ASSUME NEW s \in Slots PROVE Users(s) = {}
    BY DEF Users
  <2> QED
    BY <2>1, FS_EmptySet DEF CountExact
<1>4. QueueExact /\ WokenFirst /\ NoLostWakeup
  BY EmptySeq DEF QueueExact, WokenFirst, NoLostWakeup
<1> QED
  BY <1>1, <1>2, <1>3, <1>4 DEF IInv

(* The part of the invariant that speaks of the table and its counts.      *)
TableInv == LocalsFit /\ OneLockPerSlot /\ NoSharedLock /\ CountExact
TableTypes ==
  /\ table \in [Slots -> Locks \cup {NoLock}]
  /\ count \in [Slots -> Nat]
  /\ slot \in [Tasks -> Slots \cup {NoSlot}]
  /\ mine \in [Tasks -> Locks \cup {NoLock}]

(* Entering keeps the table: the entry is there or new, and counted.       *)
LEMMA CountedKeepsTable ==
  ASSUME IInv, NEW t \in Tasks, NEW s \in Slots, NEW l \in Locks,
         pc[t] = "out", Counted(t, s, l),
         NEW p \in {"waiting", "in"}, pc' = [pc EXCEPT ![t] = p]
  PROVE  TableTypes' /\ TableInv'
<1> USE NoLockAssumption DEF Counted
<1>0. TableTypes /\ pc \in [Tasks -> {"out", "waiting", "in"}]
  BY DEF IInv, TypeOK, TableTypes
<1>1. TableTypes'
  BY <1>0 DEF TableTypes
<1>2. LocalsFit'
  BY <1>0 DEF TableTypes, IInv, LocalsFit
<1>3. table[s] \in {NoLock, l}
  OBVIOUS
<1>4. ASSUME NEW u \in Tasks, pc[u] # "out"
      PROVE  /\ slot[u] \in Slots
             /\ mine[u] # NoLock
             /\ mine[u] = table[slot[u]]
             /\ slot[u] = s => table[s] # NoLock
  BY <1>4 DEF IInv, LocalsFit, OneLockPerSlot
<1>5. OneLockPerSlot'
  BY <1>0, <1>3, <1>4 DEF TableTypes, OneLockPerSlot
<1>6. NoSharedLock'
  <2>1. ASSUME NEW r \in Slots, table[r] = l PROVE r = s
    <3>1. table[s] # NoLock
      BY <2>1 DEF Unreferenced
    <3> QED
      BY <2>1, <3>1 DEF IInv, NoSharedLock
  <2> QED
    BY <1>0, <2>1 DEF TableTypes, IInv, NoSharedLock
<1>7. CountExact'
  <2>1. Users(s)' = Users(s) \cup {t} /\ t \notin Users(s)
    BY <1>0 DEF TableTypes, Users
  <2>2. \A r \in Slots \ {s} : Users(r)' = Users(r)
    BY <1>0 DEF TableTypes, Users
  <2>3. IsFiniteSet(Users(s))
    BY TasksAssumption, FS_Subset DEF Users
  <2>4. Cardinality(Users(s)') = Cardinality(Users(s)) + 1
    BY <2>1, <2>3, FS_AddElement
  <2> QED
    BY <1>0, <2>2, <2>4 DEF TableTypes, IInv, CountExact
<1> QED
  BY <1>1, <1>2, <1>5, <1>6, <1>7 DEF TableInv

(* Leaving keeps the table: the entry goes only with its last user.        *)
LEMMA UncountedKeepsTable ==
  ASSUME IInv, NEW t \in Tasks, pc[t] # "out",
         Uncounted(t, slot[t]), pc' = [pc EXCEPT ![t] = "out"]
  PROVE  TableTypes' /\ TableInv'
<1> USE NoLockAssumption DEF Uncounted
<1>0. TableTypes /\ pc \in [Tasks -> {"out", "waiting", "in"}]
  BY DEF IInv, TypeOK, TableTypes
<1> PICK s \in Slots : s = slot[t]
  BY DEF IInv, LocalsFit
<1>1. IsFiniteSet(Users(s)) /\ t \in Users(s)
  BY TasksAssumption, FS_Subset DEF Users
<1>2. count[s] = Cardinality(Users(s)) /\ count[s] \in Nat
  BY <1>0 DEF IInv, CountExact, TableTypes
<1>3. Cardinality(Users(s) \ {t}) = count[s] - 1 /\ IsFiniteSet(Users(s) \ {t})
  BY <1>1, <1>2, FS_RemoveElement
<1>4. count[s] - 1 \in Nat
  BY <1>3, FS_CardinalityType
<1>5. count[s] = 1 => Users(s) \ {t} = {}
  BY <1>3, FS_EmptySet
<1>6. /\ count' = [count EXCEPT ![s] = @ - 1]
      /\ table' = [table EXCEPT ![s] = IF count[s] = 1 THEN NoLock ELSE @]
      /\ slot' = [slot EXCEPT ![t] = NoSlot]
      /\ mine' = [mine EXCEPT ![t] = NoLock]
  OBVIOUS
<1>7. TableTypes'
  BY <1>0, <1>4, <1>6 DEF TableTypes
<1>8. LocalsFit'
  BY <1>0, <1>6 DEF TableTypes, IInv, LocalsFit
<1>9. OneLockPerSlot'
  <2> SUFFICES ASSUME NEW u \in Tasks, u # t, pc[u] # "out"
               PROVE  mine[u] # NoLock /\ mine[u] = table'[slot[u]]
    BY <1>0, <1>6 DEF TableTypes, OneLockPerSlot
  <2>1. slot[u] \in Slots /\ mine[u] # NoLock /\ mine[u] = table[slot[u]]
    BY DEF IInv, LocalsFit, OneLockPerSlot
  <2>2. slot[u] = s => count[s] # 1
    BY <1>5 DEF Users
  <2> QED
    BY <1>0, <1>6, <2>1, <2>2 DEF TableTypes
<1>10. NoSharedLock'
  BY <1>0, <1>6 DEF TableTypes, IInv, NoSharedLock
<1>11. CountExact'
  <2>1. Users(s)' = Users(s) \ {t}
    BY <1>0, <1>6 DEF TableTypes, Users, NoSlot, Slots
  <2>2. \A r \in Slots \ {s} : Users(r)' = Users(r)
    BY <1>0, <1>6 DEF TableTypes, Users, NoSlot, Slots
  <2>3. ASSUME NEW r \in Slots, r # s
        PROVE  count'[r] = Cardinality(Users(r)') /\ (count'[r] = 0 <=> table'[r] = NoLock)
    BY <1>0, <1>6, <2>2, <2>3 DEF TableTypes, IInv, CountExact
  <2>4. table[s] # NoLock
    BY <1>2, <1>4 DEF IInv, CountExact
  <2>5. count'[s] = count[s] - 1 /\ table'[s] = IF count[s] = 1 THEN NoLock ELSE table[s]
    BY <1>0, <1>6 DEF TableTypes
  <2>6. count'[s] = Cardinality(Users(s)') /\ (count'[s] = 0 <=> table'[s] = NoLock)
    BY <1>2, <1>3, <1>4, <2>1, <2>4, <2>5
  <2> QED
    BY <2>3, <2>6 DEF CountExact
<1> QED
  BY <1>7, <1>8, <1>9, <1>10, <1>11 DEF TableInv

-----------------------------------------------------------------------------
(* The part of the invariant that speaks of the lock objects.              *)
LockTypes ==
  /\ locked \in [Locks -> BOOLEAN]
  /\ waiters \in [Locks -> Seq(Tasks)]
  /\ fut \in [Tasks -> {"pending", "set", "cancelled"}]
  /\ doomed \in SUBSET Tasks
  /\ pc \in [Tasks -> {"out", "waiting", "in"}]
LockInv == QueueExact /\ WokenFirst /\ MutualExclusion /\ NoLostWakeup

(* What a task that is not outside relies on.                              *)
LEMMA UserFacts ==
  ASSUME IInv, NEW t \in Tasks, pc[t] # "out"
  PROVE  /\ slot[t] \in Slots
         /\ mine[t] \in Locks
         /\ mine[t] = table[slot[t]]
         /\ \A u \in Tasks : pc[u] # "out" /\ mine[u] = mine[t] => slot[u] = slot[t]
  BY NoLockAssumption
     DEF IInv, LocalsFit, OneLockPerSlot, NoSharedLock

(* A nonempty queue has a head, which is one of the tasks that wait.       *)
LEMMA HeadWaits ==
  ASSUME IInv, NEW l \in Locks, waiters[l] # <<>>
  PROVE  /\ Head(waiters[l]) \in Tasks
         /\ pc[Head(waiters[l])] = "waiting"
         /\ mine[Head(waiters[l])] = l
<1>1. waiters[l] \in Seq(Tasks)
  BY DEF IInv, TypeOK
<1>2. Len(waiters[l]) >= 1 /\ Head(waiters[l]) = waiters[l][1] /\ Head(waiters[l]) \in Tasks
  BY <1>1, EmptySeq, HeadTailProperties, ElementOfSeq
<1>3. \A t \in Tasks : (\E i \in 1 .. Len(waiters[l]) : waiters[l][i] = t)
                         <=> pc[t] = "waiting" /\ mine[t] = l
  BY DEF IInv, QueueExact
<1>4. 1 \in 1 .. Len(waiters[l])
  BY <1>1, <1>2, LenProperties
<1> QED
  BY <1>2, <1>3, <1>4

LEMMA EnterAtOnceKeeps ==
  ASSUME IInv, NEW t \in Tasks, NEW s \in Slots, NEW l \in Locks,
         EnterAtOnce(t, s, l)
  PROVE  IInv'
<1> USE DEF EnterAtOnce
<1>1. TableTypes' /\ TableInv'
  BY CountedKeepsTable
<1>2. LockTypes /\ TableTypes
  BY DEF IInv, TypeOK, LockTypes, TableTypes
<1>3. LockTypes'
  BY <1>2 DEF LockTypes
<1>4. slot' = [slot EXCEPT ![t] = s] /\ mine' = [mine EXCEPT ![t] = l]
  BY DEF Counted
<1>5. ASSUME NEW u \in Tasks, pc[u] # "out", slot[u] = s
      PROVE  mine[u] = l
  BY <1>5, UserFacts, NoLockAssumption DEF Counted
<1>6. QueueExact'
  BY <1>2, <1>4 DEF LockTypes, TableTypes, IInv, QueueExact
<1>7. WokenFirst'
  <2>1. ASSUME NEW u \in Tasks, pc[u] = "waiting", mine[u] = l PROVE fut[u] # "set"
    <3>1. PICK i \in 1 .. Len(waiters[l]) : waiters[l][i] = u
      BY <2>1 DEF IInv, QueueExact
    <3>2. DOMAIN waiters[l] = 1 .. Len(waiters[l])
      BY <1>2, LenProperties DEF LockTypes
    <3> QED
      BY <3>1, <3>2
  <2> QED
    BY <1>2, <1>4, <2>1 DEF LockTypes, TableTypes, IInv, WokenFirst
<1>8. MutualExclusion'
  <2>1. ASSUME NEW u \in Tasks, pc[u] = "in" PROVE slot[u] # s
    BY <1>2, <1>5, <2>1 DEF IInv, WokenFirst
  <2> QED
    BY <1>2, <1>4, <2>1 DEF LockTypes, TableTypes, IInv, MutualExclusion
<1>9. NoLostWakeup'
  BY <1>2 DEF LockTypes, IInv, NoLostWakeup
<1> QED
  BY <1>1, <1>3, <1>6, <1>7, <1>8, <1>9
     DEF IInv, TypeOK, TableTypes, TableInv, LockTypes

LEMMA EnterAndWaitKeeps ==
  ASSUME IInv, NEW t \in Tasks, NEW s \in Slots, NEW l \in Locks,
         EnterAndWait(t, s, l)
  PROVE  IInv'
<1> USE DEF EnterAndWait
<1>1. TableTypes' /\ TableInv'
  BY CountedKeepsTable
<1>2. LockTypes /\ TableTypes
  BY DEF IInv, TypeOK, LockTypes, TableTypes
<1>3. slot' = [slot EXCEPT ![t] = s] /\ mine' = [mine EXCEPT ![t] = l]
  BY DEF Counted
<1> PICK q \in Seq(Tasks) : q = waiters[l]
  BY <1>2 DEF LockTypes
<1>4. /\ Distinct(q)
      /\ \A u \in Tasks : (\E i \in 1 .. Len(q) : q[i] = u)
                            <=> pc[u] = "waiting" /\ mine[u] = l
  BY DEF IInv, QueueExact, Distinct
<1>5. /\ Append(q, t) \in Seq(Tasks)
      /\ Distinct(Append(q, t))
      /\ \A u \in Tasks : (\E i \in 1 .. Len(Append(q, t)) : Append(q, t)[i] = u)
                            <=> u = t \/ \E i \in 1 .. Len(q) : q[i] = u
      /\ q # <<>> => Head(Append(q, t)) = Head(q)
  BY <1>4, AppendKeeps
<1>6. waiters' = [waiters EXCEPT ![l] = Append(q, t)]
  OBVIOUS
<1>7. LockTypes'
  BY <1>2, <1>5, <1>6 DEF LockTypes
<1>8. QueueExact'
  <2>1. ASSUME NEW k \in Locks
        PROVE  /\ \A i, j \in 1 .. Len(waiters'[k]) : waiters'[k][i] = waiters'[k][j] => i = j
               /\ \A u \in Tasks : (\E i \in 1 .. Len(waiters'[k]) : waiters'[k][i] = u)
                                    <=> pc'[u] = "waiting" /\ mine'[u] = k
    <3>1. CASE k = l
      <4>1. waiters'[k] = Append(q, t)
        BY <1>2, <1>6, <3>1 DEF LockTypes
      <4>2. \A u \in Tasks : pc'[u] = "waiting" /\ mine'[u] = k
                              <=> u = t \/ (pc[u] = "waiting" /\ mine[u] = k)
        BY <1>2, <1>3, <3>1 DEF LockTypes, TableTypes
      <4> QED
        BY <1>4, <1>5, <3>1, <4>1, <4>2 DEF Distinct
    <3>2. CASE k # l
      <4>1. waiters'[k] = waiters[k]
        BY <1>2, <1>6, <3>2 DEF LockTypes
      <4>2. \A u \in Tasks : pc'[u] = "waiting" /\ mine'[u] = k
                              <=> pc[u] = "waiting" /\ mine[u] = k
        BY <1>2, <1>3, <3>2 DEF LockTypes, TableTypes
      <4>3. QueueExact
        BY DEF IInv
      <4> HIDE DEF EnterAndWait
      <4> QED
        BY <4>1, <4>2, <4>3 DEF QueueExact
    <3> QED
      BY <3>1, <3>2
  <2> QED
    BY <2>1 DEF QueueExact
<1>9. WokenFirst'
  <2> SUFFICES ASSUME NEW u \in Tasks, u # t, pc[u] # "out"
               PROVE  /\ pc[u] = "in" => locked[mine[u]]
                      /\ pc[u] = "waiting" /\ fut[u] = "set"
                           => ~locked[mine[u]] /\ Head(waiters'[mine[u]]) = u
    BY <1>2, <1>3 DEF LockTypes, TableTypes, WokenFirst
  <2>1. mine[u] \in Locks
    BY UserFacts
  <2>2. /\ pc[u] = "in" => locked[mine[u]]
        /\ pc[u] = "waiting" /\ fut[u] = "set"
             => ~locked[mine[u]] /\ Head(waiters[mine[u]]) = u
    BY DEF IInv, WokenFirst
  <2>3. pc[u] = "waiting" => waiters[mine[u]] # <<>>
    BY <2>1, EmptySeq DEF IInv, QueueExact
  <2> QED
    BY <1>2, <1>5, <1>6, <2>1, <2>2, <2>3 DEF LockTypes
<1>10. MutualExclusion'
  BY <1>2, <1>3 DEF LockTypes, TableTypes, IInv, MutualExclusion
<1>11. NoLostWakeup'
  <2> SUFFICES ASSUME NEW k \in Locks, ~locked[k], waiters'[k] # <<>>
               PROVE  fut'[Head(waiters'[k])] # "pending"
    BY DEF NoLostWakeup
  <2>1. waiters[k] # <<>> /\ Head(waiters'[k]) = Head(waiters[k])
    <3>1. CASE k = l
      <4>1. q # <<>>
        <5>1. q \in Seq(Tasks) /\ DOMAIN q = 1 .. Len(q)
          BY LenProperties
        <5>2. \E i \in DOMAIN q : TRUE
          BY <3>1
        <5> QED
          BY <5>1, <5>2, EmptySeq
      <4> QED
        BY <1>2, <1>5, <1>6, <3>1, <4>1 DEF LockTypes
    <3>2. CASE k # l
      BY <1>2, <1>6, <3>2 DEF LockTypes
    <3> QED
      BY <3>1, <3>2
  <2>2. Head(waiters[k]) \in Tasks /\ Head(waiters[k]) # t
    BY <2>1, HeadWaits
  <2> QED
    BY <1>2, <2>1, <2>2 DEF LockTypes, IInv, NoLostWakeup
<1> QED
  BY <1>1, <1>7, <1>8, <1>9, <1>10, <1>11
     DEF IInv, TypeOK, TableTypes, TableInv, LockTypes

(* A waiting task that leaves the queue leaves it to the others.           *)
LEMMA LeavingTheQueue ==
  ASSUME IInv, NEW t \in Tasks, NEW l \in Locks, pc[t] = "waiting", mine[t] = l,
         waiters' = [waiters EXCEPT ![l] = Without(@, t)],
         NEW p \in {"in", "out"}, pc' = [pc EXCEPT ![t] = p],
         \A u \in Tasks \ {t} : mine'[u] = mine[u]
  PROVE  /\ waiters' \in [Locks -> Seq(Tasks)]
         /\ QueueExact'
         /\ Head(waiters[l]) # t => /\ waiters'[l] # <<>>
                                    /\ Head(waiters'[l]) = Head(waiters[l])
         /\ \A h : waiters'[l] # <<>> /\ h = Head(waiters'[l])
                    => h \in Tasks /\ h # t /\ pc[h] = "waiting" /\ mine[h] = l
<1>1. waiters \in [Locks -> Seq(Tasks)] /\ pc \in [Tasks -> {"out", "waiting", "in"}]
  BY DEF IInv, TypeOK
<1>0. PICK q \in Seq(Tasks) : q = waiters[l]
  BY <1>1
<1>2. /\ \A i, j \in 1 .. Len(q) : q[i] = q[j] => i = j
      /\ \A u \in Tasks : (\E i \in 1 .. Len(q) : q[i] = u)
                            <=> pc[u] = "waiting" /\ mine[u] = l
  BY <1>0 DEF IInv, QueueExact
<1>3. Distinct(q) /\ \E i \in 1 .. Len(q) : q[i] = t
  BY <1>2 DEF Distinct
<1> DEFINE r == Without(q, t)
<1>4. /\ r \in Seq(Tasks)
      /\ Distinct(r)
      /\ \A u \in Tasks : (\E i \in 1 .. Len(r) : r[i] = u)
                            <=> u # t /\ \E i \in 1 .. Len(q) : q[i] = u
      /\ Head(q) # t => r # <<>> /\ Head(r) = Head(q)
  <2>1. /\ Without(q, t) \in Seq(Tasks)
        /\ Distinct(Without(q, t))
        /\ \A u \in Tasks :
             (\E i \in 1 .. Len(Without(q, t)) : Without(q, t)[i] = u)
               <=> u # t /\ \E i \in 1 .. Len(q) : q[i] = u
        /\ Head(q) # t
             => Without(q, t) # <<>> /\ Head(Without(q, t)) = Head(q)
    BY ONLY <1>3, q \in Seq(Tasks), WithoutKeeps
  <2> QED
    BY <2>1
<1>5. waiters' = [waiters EXCEPT ![l] = r]
  BY <1>0
<1> HIDE DEF r
<1>6. waiters' \in [Locks -> Seq(Tasks)] /\ waiters'[l] = r
  BY <1>1, <1>4, <1>5
<1>7. \A h : r # <<>> /\ h = Head(r)
              => h \in Tasks /\ h # t /\ pc[h] = "waiting" /\ mine[h] = l
  <2>1. r # <<>> => Len(r) >= 1 /\ Head(r) = r[1] /\ Head(r) \in Tasks /\ 1 \in 1 .. Len(r)
    BY <1>4, EmptySeq, LenProperties, HeadTailProperties, ElementOfSeq
  <2> QED
    BY <1>2, <1>4, <2>1
<1>8. ASSUME NEW k \in Locks
      PROVE  /\ \A i, j \in 1 .. Len(waiters'[k]) : waiters'[k][i] = waiters'[k][j] => i = j
             /\ \A u \in Tasks : (\E i \in 1 .. Len(waiters'[k]) : waiters'[k][i] = u)
                                  <=> pc'[u] = "waiting" /\ mine'[u] = k
  <2>1. CASE k = l
    <3>1. \A u \in Tasks : pc'[u] = "waiting" /\ mine'[u] = l
                            <=> u # t /\ pc[u] = "waiting" /\ mine[u] = l
      BY <1>1
    <3> QED
      BY <1>2, <1>4, <1>6, <2>1, <3>1 DEF Distinct
  <2>2. CASE k # l
    <3>1. waiters'[k] = waiters[k]
      BY <1>1, <1>5, <2>2
    <3>2. \A u \in Tasks : pc'[u] = "waiting" /\ mine'[u] = k
                            <=> pc[u] = "waiting" /\ mine[u] = k
      BY <1>1, <2>2
    <3> QED
      BY <3>1, <3>2 DEF IInv, QueueExact
  <2> QED
    BY <2>1, <2>2
<1> QED
  BY <1>0, <1>4, <1>6, <1>7, <1>8 DEF QueueExact

LEMMA ResumeKeeps ==
  ASSUME IInv, NEW t \in Tasks, Resume(t)
  PROVE  IInv'
<1> USE DEF Resume
<1>1. LockTypes /\ TableTypes
  BY DEF IInv, TypeOK, LockTypes, TableTypes
<1> PICK l \in Locks : l = mine[t]
  BY UserFacts
<1>2. waiters' \in [Locks -> Seq(Tasks)] /\ QueueExact'
  BY LeavingTheQueue
<1>3. ~locked[l] /\ Head(waiters[l]) = t
  BY DEF IInv, WokenFirst
<1>4. /\ locked' = [locked EXCEPT ![l] = TRUE]
      /\ \A k \in Locks \ {l} : waiters'[k] = waiters[k]
  BY <1>1 DEF LockTypes
<1>7. LockTypes'
  BY <1>1, <1>2, <1>4 DEF LockTypes
<1>8. TableTypes' /\ TableInv'
  <2>1. TableTypes' /\ LocalsFit' /\ OneLockPerSlot' /\ NoSharedLock'
    BY <1>1 DEF TableTypes, LockTypes, IInv, LocalsFit, OneLockPerSlot, NoSharedLock
  <2>2. \A s \in Slots : Users(s)' = Users(s)
    BY <1>1 DEF LockTypes, Users
  <2> QED
    BY <2>1, <2>2 DEF TableInv, IInv, CountExact
<1>10. \A u \in Tasks : pc[u] # "out" /\ mine[u] = l => pc[u] # "in" /\ (u # t => fut[u] # "set")
  BY <1>1, <1>3 DEF LockTypes, IInv, WokenFirst
<1>11. WokenFirst'
  <2> SUFFICES ASSUME NEW u \in Tasks, u # t, pc[u] # "out"
               PROVE  /\ pc[u] = "in" => locked'[mine[u]]
                      /\ pc[u] = "waiting" /\ fut[u] = "set"
                           => ~locked'[mine[u]] /\ Head(waiters'[mine[u]]) = u
    BY <1>1, <1>4, SMTT(20) DEF LockTypes, WokenFirst
  <2>1. mine[u] \in Locks
    BY UserFacts
  <2>2. CASE mine[u] = l
    BY <1>1, <1>4, <1>10, <2>2 DEF LockTypes
  <2>3. CASE mine[u] # l
    <3>1. locked'[mine[u]] = locked[mine[u]] /\ waiters'[mine[u]] = waiters[mine[u]]
      BY <1>1, <1>4, <2>1, <2>3 DEF LockTypes
    <3> QED
      BY <3>1 DEF IInv, WokenFirst
  <2> QED
    BY <2>2, <2>3
<1>12. MutualExclusion'
  <2>1. ASSUME NEW u \in Tasks, pc[u] = "in" PROVE slot[u] # slot[t]
    BY <1>10, <2>1 DEF IInv, OneLockPerSlot
  <2> QED
    BY <1>1, <2>1 DEF LockTypes, IInv, MutualExclusion
<1>13. NoLostWakeup'
  BY <1>1, <1>4 DEF LockTypes, IInv, NoLostWakeup
<1> QED
  BY <1>2, <1>7, <1>8, <1>11, <1>12, <1>13
     DEF IInv, TypeOK, TableTypes, TableInv, LockTypes

LEMMA CancelKeeps ==
  ASSUME IInv, NEW t \in Tasks, Cancel(t)
  PROVE  IInv'
<1> USE DEF Cancel
<1>1. LockTypes /\ TableTypes
  BY DEF IInv, TypeOK, LockTypes, TableTypes
<1>2. LockTypes'
  BY <1>1 DEF LockTypes
<1>3. \A u \in Tasks : fut'[u] = fut[u] \/ fut'[u] = "cancelled"
  BY <1>1 DEF LockTypes
<1>4. TableTypes' /\ TableInv'
  <2>1. TableTypes' /\ LocalsFit' /\ OneLockPerSlot' /\ NoSharedLock'
    BY <1>1 DEF TableTypes, IInv, LocalsFit, OneLockPerSlot, NoSharedLock
  <2>2. \A s \in Slots : Users(s)' = Users(s)
    BY DEF Users
  <2> QED
    BY <2>1, <2>2 DEF TableInv, IInv, CountExact
<1>5. QueueExact' /\ WokenFirst' /\ MutualExclusion'
  BY <1>3 DEF IInv, QueueExact, WokenFirst, MutualExclusion
<1>6. NoLostWakeup'
  BY <1>3, HeadWaits DEF IInv, NoLostWakeup
<1> QED
  BY <1>1, <1>2, <1>4, <1>5, <1>6 DEF IInv, TypeOK, TableTypes, TableInv, LockTypes

LEMMA ResumeCancelledKeeps ==
  ASSUME IInv, NEW t \in Tasks, ResumeCancelled(t)
  PROVE  IInv'
<1> USE DEF ResumeCancelled
<1>1. LockTypes /\ TableTypes
  BY DEF IInv, TypeOK, LockTypes, TableTypes
<1> PICK l \in Locks : l = mine[t]
  BY UserFacts
<1>2. /\ waiters' = [waiters EXCEPT ![l] = Without(@, t)]
      /\ mine' = [mine EXCEPT ![t] = NoLock]
      /\ slot' = [slot EXCEPT ![t] = NoSlot]
  BY DEF Uncounted
<1>3. /\ waiters' \in [Locks -> Seq(Tasks)]
      /\ QueueExact'
      /\ Head(waiters[l]) # t => /\ waiters'[l] # <<>>
                                 /\ Head(waiters'[l]) = Head(waiters[l])
      /\ \A h : waiters'[l] # <<>> /\ h = Head(waiters'[l])
                 => h \in Tasks /\ h # t /\ pc[h] = "waiting" /\ mine[h] = l
  <2>1. \A u \in Tasks \ {t} : mine'[u] = mine[u]
    BY <1>1, <1>2 DEF TableTypes
  <2>2. pc[t] = "waiting" /\ mine[t] = l /\ pc' = [pc EXCEPT ![t] = "out"]
    OBVIOUS
  <2> HIDE DEF ResumeCancelled
  <2> QED
    BY <1>2, <2>1, <2>2, LeavingTheQueue
<1>4. /\ \A k \in Locks \ {l} : waiters'[k] = waiters[k]
      /\ fut' = IF locked[l] THEN fut ELSE WokenIn(waiters'[l], fut)
  BY <1>1, <1>2 DEF LockTypes
<1>6. /\ fut' \in [Tasks -> {"pending", "set", "cancelled"}]
      /\ \A u \in Tasks : \/ fut'[u] = fut[u]
                          \/ /\ ~locked[l] /\ waiters'[l] # <<>>
                             /\ u = Head(waiters'[l]) /\ fut'[u] = "set"
      /\ ~locked[l] /\ waiters'[l] # <<>> => fut'[Head(waiters'[l])] # "pending"
  BY <1>1, <1>3, <1>4 DEF LockTypes, WokenIn
<1>7. LockTypes'
  BY <1>1, <1>3, <1>6 DEF LockTypes
<1>8. TableTypes' /\ TableInv'
  BY UncountedKeepsTable
<1>10. WokenFirst'
  <2> SUFFICES ASSUME NEW u \in Tasks, u # t, pc[u] # "out"
               PROVE  /\ pc[u] = "in" => locked[mine[u]]
                      /\ pc[u] = "waiting" /\ fut'[u] = "set"
                           => ~locked[mine[u]] /\ Head(waiters'[mine[u]]) = u
    BY <1>1, <1>2 DEF LockTypes, TableTypes, WokenFirst
  <2>1. mine[u] \in Locks
    BY UserFacts
  <2>2. /\ pc[u] = "in" => locked[mine[u]]
        /\ pc[u] = "waiting" /\ fut[u] = "set"
             => ~locked[mine[u]] /\ Head(waiters[mine[u]]) = u
    BY DEF IInv, WokenFirst
  <2> QED
    BY <1>3, <1>4, <1>6, <2>1, <2>2
<1>11. MutualExclusion'
  BY <1>1, <1>2 DEF LockTypes, TableTypes, IInv, MutualExclusion
<1>12. NoLostWakeup'
  <2> SUFFICES ASSUME NEW k \in Locks, ~locked[k], waiters'[k] # <<>>
               PROVE  fut'[Head(waiters'[k])] # "pending"
    BY DEF NoLostWakeup
  <2>1. CASE k = l
    BY <1>6, <2>1
  <2>2. CASE k # l
    <3>1. waiters'[k] = waiters[k]
      BY <1>4, <2>2
    <3>2. fut[Head(waiters[k])] # "pending" /\ Head(waiters[k]) \in Tasks
      BY <3>1, HeadWaits DEF IInv, NoLostWakeup
    <3> QED
      BY <1>6, <3>1, <3>2
  <2> QED
    BY <2>1, <2>2
<1> QED
  BY <1>3, <1>7, <1>8, <1>10, <1>11, <1>12
     DEF IInv, TypeOK, TableTypes, TableInv, LockTypes

LEMMA ExitKeeps ==
  ASSUME IInv, NEW t \in Tasks, Exit(t)
  PROVE  IInv'
<1> USE DEF Exit
<1>1. LockTypes /\ TableTypes
  BY DEF IInv, TypeOK, LockTypes, TableTypes
<1> PICK l \in Locks : l = mine[t]
  BY UserFacts
<1>2. /\ locked' = [locked EXCEPT ![l] = FALSE]
      /\ fut' = WokenIn(waiters[l], fut)
      /\ mine' = [mine EXCEPT ![t] = NoLock]
      /\ slot' = [slot EXCEPT ![t] = NoSlot]
  BY DEF Uncounted
<1>3. /\ fut' \in [Tasks -> {"pending", "set", "cancelled"}]
      /\ \A u \in Tasks :
           \/ fut'[u] = fut[u]
           \/ /\ waiters[l] # <<>> /\ u = Head(waiters[l]) /\ fut'[u] = "set"
              /\ pc[u] = "waiting" /\ mine[u] = l
      /\ waiters[l] # <<>> => fut'[Head(waiters[l])] # "pending"
  BY <1>1, <1>2, HeadWaits DEF LockTypes, WokenIn
<1>4. LockTypes'
  BY <1>1, <1>2, <1>3 DEF LockTypes
<1>5. TableTypes' /\ TableInv'
  BY UncountedKeepsTable
<1>6. QueueExact'
  BY <1>1, <1>2 DEF LockTypes, TableTypes, IInv, QueueExact
<1>7. \A u \in Tasks : pc[u] = "in" /\ mine[u] = l => u = t
  BY UserFacts DEF IInv, MutualExclusion
<1>8. WokenFirst'
  <2> SUFFICES ASSUME NEW u \in Tasks, u # t, pc[u] # "out"
               PROVE  /\ pc[u] = "in" => locked'[mine[u]]
                      /\ pc[u] = "waiting" /\ fut'[u] = "set"
                           => ~locked'[mine[u]] /\ Head(waiters[mine[u]]) = u
    BY <1>1, <1>2 DEF LockTypes, TableTypes, WokenFirst
  <2>1. mine[u] \in Locks
    BY UserFacts
  <2>2. /\ pc[u] = "in" => locked[mine[u]]
        /\ pc[u] = "waiting" /\ fut[u] = "set"
             => ~locked[mine[u]] /\ Head(waiters[mine[u]]) = u
    BY DEF IInv, WokenFirst
  <2> QED
    BY <1>1, <1>2, <1>3, <1>7, <2>1, <2>2 DEF LockTypes
<1>9. MutualExclusion'
  BY <1>1, <1>2 DEF LockTypes, TableTypes, IInv, MutualExclusion
<1>10. NoLostWakeup'
  BY <1>1, <1>2, <1>3, HeadWaits DEF LockTypes, IInv, NoLostWakeup
<1> QED
  BY <1>4, <1>5, <1>6, <1>8, <1>9, <1>10
     DEF IInv, TypeOK, TableTypes, TableInv, LockTypes

-----------------------------------------------------------------------------
(* Every step of every task keeps the inductive invariant.                 *)
LEMMA NextKeepsIInv == IInv /\ [Next]_vars => IInv'
<1> SUFFICES ASSUME IInv, [Next]_vars PROVE IInv'
  OBVIOUS
<1>1. CASE UNCHANGED vars
  <2>1. \A s \in Slots : Users(s)' = Users(s)
    BY <1>1 DEF vars, Users
  <2> QED
    BY <1>1, <2>1
       DEF vars, IInv, TypeOK, LocalsFit, OneLockPerSlot, NoSharedLock,
           CountExact, QueueExact, WokenFirst, MutualExclusion, NoLostWakeup
<1>2. ASSUME NEW t \in Tasks, Enter(t) PROVE IInv'
  <2> PICK x \in Sessions, l \in Locks :
        \/ EnterAtOnce(t, <<LoopOf[t], x>>, l)
        \/ EnterAndWait(t, <<LoopOf[t], x>>, l)
    BY <1>2 DEF Enter
  <2>1. <<LoopOf[t], x>> \in Slots
    BY LoopOfAssumption DEF Slots
  <2> QED
    BY <2>1, EnterAtOnceKeeps, EnterAndWaitKeeps
<1>3. ASSUME NEW t \in Tasks, Resume(t) PROVE IInv'
  BY <1>3, ResumeKeeps
<1>4. ASSUME NEW t \in Tasks, Cancel(t) PROVE IInv'
  BY <1>4, CancelKeeps
<1>5. ASSUME NEW t \in Tasks, ResumeCancelled(t) PROVE IInv'
  BY <1>5, ResumeCancelledKeeps
<1>6. ASSUME NEW t \in Tasks, Exit(t) PROVE IInv'
  BY <1>6, ExitKeeps
<1> QED
  BY <1>1, <1>2, <1>3, <1>4, <1>5, <1>6 DEF Next

(* The lock manager never leaves its inductive invariant.                  *)
THEOREM InductiveInvariance == Spec => []IInv
<1>1. Init => IInv
  BY InitIInv
<1>2. IInv /\ [Next]_vars => IInv'
  BY NextKeepsIInv
<1> QED
  BY <1>1, <1>2, PTL DEF Spec

(* Every variable keeps its type: counts are never negative, a queue holds *)
(* tasks only.                                                             *)
THEOREM TypeCorrectness == Spec => []TypeOK
<1>1. IInv => TypeOK
  BY DEF IInv
<1> QED
  BY <1>1, InductiveInvariance, PTL

(* acquire_lock keeps two tasks of a loop out of one session, for any      *)
(* number of tasks, loops and sessions and under any cancellations.        *)
THEOREM MutualExclusionHolds == Spec => []MutualExclusion
<1>1. IInv => MutualExclusion
  BY DEF IInv
<1> QED
  BY <1>1, InductiveInvariance, PTL

(* The table never drops or replaces a lock that a task uses, and never    *)
(* hands one lock object to two sessions.                                  *)
THEOREM LockIdentity == Spec => [](OneLockPerSlot /\ NoSharedLock)
<1>1. IInv => OneLockPerSlot /\ NoSharedLock
  BY DEF IInv
<1> QED
  BY <1>1, InductiveInvariance, PTL

(* _lock_count is the number of users, and the entry of the table is there *)
(* exactly as long as there is one.                                        *)
THEOREM CountExactness == Spec => []CountExact
<1>1. IInv => CountExact
  BY DEF IInv
<1> QED
  BY <1>1, InductiveInvariance, PTL

(* No cancellation of a waiter, woken or not, loses a wake-up.             *)
THEOREM WakeupsKept == Spec => []NoLostWakeup
<1>1. IInv => NoLostWakeup
  BY DEF IInv
<1> QED
  BY <1>1, InductiveInvariance, PTL

-----------------------------------------------------------------------------
(* The refinement: SessionMutex, step by step                              *)

LEMMA DoomedWokenHolds == Spec => []DoomedWoken
<1>1. Init => DoomedWoken
  BY DEF Init, DoomedWoken
<1>2. ASSUME IInv, DoomedWoken, [Next]_vars PROVE DoomedWoken'
  <2>0. LockTypes
    BY <1>2 DEF IInv, TypeOK, LockTypes
  <2> USE <1>2, <2>0 DEF LockTypes, DoomedWoken
  <2>1. CASE UNCHANGED vars
    BY <2>1 DEF vars
  <2>2. ASSUME NEW t \in Tasks, Enter(t) PROVE DoomedWoken'
    BY <2>2 DEF Enter, EnterAtOnce, EnterAndWait
  <2>3. ASSUME NEW t \in Tasks, Resume(t) PROVE DoomedWoken'
    BY <2>3 DEF Resume
  <2>4. ASSUME NEW t \in Tasks, Cancel(t) PROVE DoomedWoken'
    BY <2>4 DEF Cancel
  <2>5. ASSUME NEW t \in Tasks, ResumeCancelled(t) PROVE DoomedWoken'
    BY <2>5 DEF ResumeCancelled, WokenIn
  <2>6. ASSUME NEW t \in Tasks, Exit(t) PROVE DoomedWoken'
    BY <2>6 DEF Exit, WokenIn
  <2> QED
    BY <1>2, <2>1, <2>2, <2>3, <2>4, <2>5, <2>6 DEF Next
<1> QED
  BY <1>1, <1>2, InductiveInvariance, PTL DEF Spec

(* The queue of a lock, as the lemmas about queues want it.                *)
LEMMA QueueOfLock ==
  ASSUME IInv, NEW l \in Locks
  PROVE  /\ waiters[l] \in Seq(Tasks)
         /\ Distinct(waiters[l])
         /\ Members(waiters[l]) = {t \in Tasks : pc[t] = "waiting" /\ mine[t] = l}
<1>1. waiters[l] \in Seq(Tasks)
  BY DEF IInv, TypeOK
<1>2. Members(waiters[l]) \subseteq Tasks
  BY <1>1, ElementOfSeq DEF Members
<1> QED
  BY <1>1, <1>2 DEF IInv, QueueExact, Distinct, Members

(* The owner is the one task inside.                                       *)
LEMMA OwnerIs ==
  ASSUME IInv, NEW s \in Slots
  PROVE  /\ \A t \in Inside(s) : Inside(s) = {t} /\ Owner(s) = t
         /\ Owner(s) = NoLock <=> Inside(s) = {}
<1>1. ASSUME NEW t \in Inside(s) PROVE Inside(s) = {t} /\ Owner(s) = t /\ t # NoLock
  <2>1. Inside(s) = {t}
    BY DEF IInv, MutualExclusion, Inside
  <2>2. t \in Tasks
    BY DEF Inside
  <2> QED
    BY <2>1, <2>2, NoLockAssumption DEF Owner
<1> QED
  BY <1>1 DEF Owner

(* What leaves the users of a slot inside leaves its owner.                *)
LEMMA OwnerStays ==
  ASSUME NEW s \in Slots, Inside(s)' = Inside(s)
  PROVE  Owner(s)' = Owner(s)
BY DEF Owner

(* What leaves the entry of a slot, its queue and the live tasks in it     *)
(* leaves its line.                                                        *)
LEMMA LineStays ==
  ASSUME IInv, NEW s \in Slots, table'[s] = table[s],
         table[s] # NoLock =>
           /\ waiters'[table[s]] = waiters[table[s]]
           /\ \A t \in Members(waiters[table[s]]) : t \in LiveTasks' <=> t \in LiveTasks
  PROVE  Line(s)' = Line(s)
<1>1. CASE table[s] = NoLock
  BY <1>1 DEF Line
<1>2. CASE table[s] # NoLock
  <2> DEFINE q == waiters[table[s]]
  <2>1. q \in Seq(Tasks)
    BY <1>2, QueueOfLock DEF IInv, TypeOK
  <2>2. Members(q) \cap LiveTasks = Members(q) \cap LiveTasks'
    BY <1>2
  <2>3. Kept(q, LiveTasks) = Kept(q, LiveTasks')
    BY <2>1, <2>2, KeptSame
  <2> QED
    BY <1>2, <2>3 DEF Line
<1> QED
  BY <1>1, <1>2

(* The locks of two slots differ, and so do the tasks that wait for them.  *)
LEMMA OtherSlots ==
  ASSUME IInv, NEW t \in Tasks, pc[t] # "out", NEW r \in Slots, r # slot[t],
         table[r] # NoLock
  PROVE  /\ table[r] \in Locks /\ table[r] # mine[t]
         /\ \A u \in Members(waiters[table[r]]) :
              u # t /\ u \in Tasks /\ pc[u] = "waiting" /\ mine[u] = table[r]
<1>1. table[r] \in Locks
  BY DEF IInv, TypeOK
<1>2. table[r] # mine[t]
  BY UserFacts DEF IInv, NoSharedLock
<1> QED
  BY <1>1, <1>2, QueueOfLock

(* Who is woken was alive and stays so.                                    *)
LEMMA WokenLive ==
  ASSUME IInv, NEW q, NEW u \in Tasks,
         q # <<>> => Head(q) \in Tasks
  PROVE  WokenIn(q, fut)[u] = "cancelled" <=> fut[u] = "cancelled"
BY DEF WokenIn, IInv, TypeOK

LEMMA EnterAtOnceRefines ==
  ASSUME IInv, DoomedWoken, NEW t \in Tasks, NEW s \in Slots, NEW l \in Locks,
         EnterAtOnce(t, s, l)
  PROVE  Mutex!Grab(t, s)
<1> USE DEF EnterAtOnce
<1>0. IInv'
  BY EnterAtOnceKeeps
<1>1. LockTypes /\ TableTypes
  BY DEF IInv, TypeOK, LockTypes, TableTypes
<1>2. /\ table' = [table EXCEPT ![s] = l]
      /\ slot' = [slot EXCEPT ![t] = s] /\ mine' = [mine EXCEPT ![t] = l]
      /\ table[s] # NoLock => table[s] = l
  BY DEF Counted
<1>3. Inside(s) = {}
  <2> SUFFICES ASSUME NEW u \in Inside(s) PROVE FALSE
    OBVIOUS
  <2>1. u \in Tasks /\ pc[u] = "in" /\ slot[u] = s
    BY DEF Inside
  <2>2. mine[u] = table[s] /\ mine[u] \in Locks
    BY <2>1, UserFacts
  <2>3. locked[mine[u]]
    BY <2>1 DEF IInv, WokenFirst
  <2> QED
    BY <1>2, <2>2, <2>3, NoLockAssumption
<1>4. Inside(s)' = {t}
  BY <1>1, <1>2, <1>3 DEF LockTypes, TableTypes, Inside
<1>5. Owner(s) = NoLock /\ Owner(s)' = t
  <2>1. Owner(s)' = t
    BY <1>4 DEF Owner
  <2> QED
    BY <1>3, <2>1 DEF Owner
<1>6. Members(waiters[l]) \cap LiveTasks = {}
  BY <1>1, QueueOfLock, LenProperties DEF LiveTasks, Members
<1>7. Kept(waiters[l], LiveTasks) = <<>>
  BY <1>6, QueueOfLock, KeptNone
<1>8. LiveTasks' = LiveTasks
  BY DEF LiveTasks
<1>9. Line(s) = <<>> /\ Line(s)' = Line(s)
  BY <1>1, <1>2, <1>7, <1>8, NoLockAssumption DEF Line, TableTypes
<1>10. ASSUME NEW r \in Slots, r # s PROVE Owner(r)' = Owner(r) /\ Line(r)' = Line(r)
  <2>1. Inside(r)' = Inside(r)
    BY <1>1, <1>2, <1>10 DEF LockTypes, TableTypes, Inside, IInv, LocalsFit
  <2>2. table'[r] = table[r]
    BY <1>1, <1>2, <1>10 DEF TableTypes
  <2>3. Line(r)' = Line(r)
    BY <1>8, <2>2, LineStays
  <2> QED
    BY <2>1, <2>3, OwnerStays
<1> HIDE DEF EnterAtOnce
<1> QED
  BY <1>5, <1>9, <1>10 DEF Mutex!Grab

LEMMA EnterAndWaitRefines ==
  ASSUME IInv, DoomedWoken, NEW t \in Tasks, NEW s \in Slots, NEW l \in Locks,
         EnterAndWait(t, s, l)
  PROVE  Mutex!Enqueue(t, s)
<1> USE DEF EnterAndWait
<1>1. LockTypes /\ TableTypes
  BY DEF IInv, TypeOK, LockTypes, TableTypes
<1>2. /\ table' = [table EXCEPT ![s] = l]
      /\ slot' = [slot EXCEPT ![t] = s] /\ mine' = [mine EXCEPT ![t] = l]
      /\ table[s] = NoLock => l \in Unreferenced
      /\ table[s] # NoLock => table[s] = l
  BY DEF Counted
<1> DEFINE q == waiters[l]
<1>3. /\ q \in Seq(Tasks)
      /\ Members(q) = {u \in Tasks : pc[u] = "waiting" /\ mine[u] = l}
  BY QueueOfLock
<1>4. t \notin Members(q) /\ t \notin doomed
  BY <1>3 DEF DoomedWoken
<1>5. LiveTasks' = LiveTasks \cup {t}
  BY <1>1, <1>4 DEF LiveTasks, LockTypes
<1>6. Line(s)' = Append(Line(s), t)
  <2>1. waiters'[l] = Append(q, t) /\ table'[s] = l
    BY <1>1, <1>2 DEF LockTypes, TableTypes
  <2>2. Kept(Append(q, t), LiveTasks') = Append(Kept(q, LiveTasks'), t)
    BY <1>3, <1>5, KeptAppend
  <2>3. Kept(q, LiveTasks') = Kept(q, LiveTasks)
    BY <1>3, <1>4, <1>5, KeptSame
  <2>4. Line(s)' = Append(Kept(q, LiveTasks), t)
    BY <2>1, <2>2, <2>3, NoLockAssumption DEF Line
  <2>5. CASE table[s] = NoLock
    <3>1. \A u \in Tasks : mine[u] # l
      BY <1>2, <2>5 DEF Unreferenced
    <3>2. Kept(q, LiveTasks) = <<>>
      BY <1>3, <3>1, KeptNone
    <3> QED
      BY <2>4, <2>5, <3>2 DEF Line
  <2>6. CASE table[s] # NoLock
    BY <1>2, <2>4, <2>6 DEF Line
  <2> QED
    BY <2>5, <2>6
<1>7. ASSUME NEW r \in Slots PROVE Owner(r)' = Owner(r)
  <2>1. Inside(r)' = Inside(r)
    BY <1>1, <1>2 DEF LockTypes, TableTypes, Inside, IInv, LocalsFit
  <2> QED
    BY <2>1, OwnerStays
<1>8. ASSUME NEW r \in Slots, r # s PROVE Line(r)' = Line(r)
  <2>1. table'[r] = table[r]
    BY <1>1, <1>2, <1>8 DEF TableTypes
  <2>2. ASSUME table[r] # NoLock
        PROVE  /\ waiters'[table[r]] = waiters[table[r]]
               /\ t \notin Members(waiters[table[r]])
    <3>1. table[r] \in Locks /\ table[r] # l
      BY <1>1, <1>2, <1>8, <2>2 DEF TableTypes, Unreferenced, IInv, NoSharedLock
    <3>2. t \notin Members(waiters[table[r]])
      BY <3>1, QueueOfLock
    <3> QED
      BY <1>1, <3>1, <3>2 DEF LockTypes
  <2> QED
    BY <1>5, <2>1, <2>2, LineStays
<1>9. Owner(s) # t
  BY OwnerIs, NoLockAssumption DEF Inside
<1>10. ~ \E i \in DOMAIN Line(s) : Line(s)[i] = t
  <2>1. CASE table[s] = NoLock
    BY <2>1 DEF Line
  <2>2. CASE table[s] # NoLock
    <3>1. Line(s) = Kept(q, LiveTasks)
      BY <1>2, <2>2 DEF Line
    <3>2. Line(s) \in Seq(Tasks) /\ Members(Line(s)) = Members(q) \cap LiveTasks
      BY <1>3, <3>1, KeptMembers
    <3>3. DOMAIN Line(s) = 1 .. Len(Line(s))
      BY <3>2, LenProperties
    <3> QED
      BY <1>4, <3>2, <3>3 DEF Members
  <2> QED
    BY <2>1, <2>2
<1> HIDE DEF EnterAndWait
<1> QED
  BY <1>6, <1>7, <1>8, <1>9, <1>10 DEF Mutex!Enqueue, Mutex!InLine

(* The line of a waiting task.                                             *)
LEMMA LineOfWaiting ==
  ASSUME IInv, NEW t \in Tasks, pc[t] = "waiting"
  PROVE  /\ mine[t] \in Locks /\ slot[t] \in Slots /\ mine[t] = table[slot[t]]
         /\ mine[t] # NoLock
         /\ waiters[mine[t]] \in Seq(Tasks) /\ Distinct(waiters[mine[t]])
         /\ t \in Members(waiters[mine[t]])
         /\ Line(slot[t]) = Kept(waiters[mine[t]], LiveTasks)
         /\ Line(slot[t]) \in Seq(Tasks) /\ Distinct(Line(slot[t]))
         /\ Members(Line(slot[t])) = Members(waiters[mine[t]]) \cap LiveTasks
<1>1. /\ mine[t] \in Locks /\ slot[t] \in Slots /\ mine[t] = table[slot[t]]
      /\ mine[t] # NoLock
  BY UserFacts, NoLockAssumption
<1>2. /\ waiters[mine[t]] \in Seq(Tasks) /\ Distinct(waiters[mine[t]])
      /\ t \in Members(waiters[mine[t]])
  BY <1>1, QueueOfLock
<1>3. Line(slot[t]) = Kept(waiters[mine[t]], LiveTasks)
  BY <1>1 DEF Line
<1> QED
  BY <1>1, <1>2, <1>3, KeptMembers

LEMMA ResumeRefines ==
  ASSUME IInv, DoomedWoken, NEW t \in Tasks, NEW s \in Slots, slot[t] = s, Resume(t)
  PROVE  Mutex!Handover(t, s)
<1> USE DEF Resume
<1> DEFINE q == waiters[mine[t]]
<1>1. LockTypes /\ TableTypes
  BY DEF IInv, TypeOK, LockTypes, TableTypes
<1>2. /\ mine[t] \in Locks /\ s \in Slots /\ mine[t] = table[s] /\ mine[t] # NoLock
      /\ q \in Seq(Tasks) /\ Distinct(q) /\ t \in Members(q)
      /\ Line(s) = Kept(q, LiveTasks)
      /\ Line(s) \in Seq(Tasks) /\ Distinct(Line(s))
      /\ Members(Line(s)) = Members(q) \cap LiveTasks
  BY LineOfWaiting
<1>3. t \in LiveTasks /\ LiveTasks' = LiveTasks
  BY DEF LiveTasks
<1>4. Head(q) = t /\ ~locked[mine[t]]
  BY DEF IInv, WokenFirst
<1>5. q # <<>>
  BY <1>2, MembersOfEmpty
<1>6. Line(s) # <<>> /\ Head(Line(s)) = t /\ Tail(Line(s)) = Kept(Tail(q), LiveTasks)
  BY <1>2, <1>3, <1>4, <1>5, KeptHead
<1>7. Line(s)' = Tail(Line(s))
  <2>1. waiters'[mine[t]] = Tail(q)
    BY <1>1, <1>2, <1>4, <1>5, WithoutHead DEF LockTypes
  <2> QED
    BY <1>2, <1>3, <1>6, <2>1 DEF Line
<1>8. Inside(s) = {}
  <2> SUFFICES ASSUME NEW u \in Inside(s) PROVE FALSE
    OBVIOUS
  <2>1. u \in Tasks /\ pc[u] = "in" /\ slot[u] = s
    BY DEF Inside
  <2> QED
    BY <1>2, <1>4, <2>1, UserFacts DEF IInv, WokenFirst
<1>9. Inside(s)' = {t}
  BY <1>1, <1>8 DEF LockTypes, Inside
<1>10. Owner(s) = NoLock /\ Owner(s)' = t
  <2>1. Owner(s)' = t
    BY <1>9 DEF Owner
  <2> QED
    BY <1>8, <2>1 DEF Owner
<1>11. ASSUME NEW r \in Slots, r # s PROVE Owner(r)' = Owner(r) /\ Line(r)' = Line(r)
  <2>1. Inside(r)' = Inside(r)
    BY <1>1, <1>11 DEF LockTypes, Inside
  <2>2. table[r] # NoLock => waiters'[table[r]] = waiters[table[r]]
    BY <1>1, <1>11, OtherSlots DEF LockTypes
  <2>3. Line(r)' = Line(r)
    BY <1>3, <2>2, LineStays
  <2> QED
    BY <2>1, <2>3, OwnerStays
<1> HIDE DEF Resume
<1> QED
  BY <1>6, <1>7, <1>10, <1>11 DEF Mutex!Handover

LEMMA CancelRefines ==
  ASSUME IInv, DoomedWoken, NEW t \in Tasks, NEW s \in Slots, slot[t] = s, Cancel(t)
  PROVE  Mutex!Quit(t, s)
<1> USE DEF Cancel
<1> DEFINE q == waiters[mine[t]]
<1>1. LockTypes /\ TableTypes
  BY DEF IInv, TypeOK, LockTypes, TableTypes
<1>2. /\ mine[t] \in Locks /\ s \in Slots /\ mine[t] = table[s] /\ mine[t] # NoLock
      /\ q \in Seq(Tasks) /\ Distinct(q) /\ t \in Members(q)
      /\ Line(s) = Kept(q, LiveTasks)
      /\ Line(s) \in Seq(Tasks) /\ Distinct(Line(s))
      /\ Members(Line(s)) = Members(q) \cap LiveTasks
  BY LineOfWaiting
<1>3. t \in LiveTasks /\ LiveTasks' = LiveTasks \ {t}
  BY <1>1 DEF LiveTasks, LockTypes
<1>4. Line(s)' = Without(Line(s), t)
  <2>1. Without(Kept(q, LiveTasks), t) = Kept(q, LiveTasks \ {t})
    BY <1>2, <1>3, WithoutKept
  <2> QED
    BY <1>2, <1>3, <2>1 DEF Line
<1>5. \E i \in DOMAIN Line(s) : Line(s)[i] = t
  BY <1>2, <1>3, LenProperties DEF Members
<1>6. ASSUME NEW r \in Slots PROVE Owner(r)' = Owner(r)
  <2>1. Inside(r)' = Inside(r)
    BY DEF Inside
  <2> QED
    BY <2>1, OwnerStays
<1>7. ASSUME NEW r \in Slots, r # s PROVE Line(r)' = Line(r)
  BY <1>3, <1>7, OtherSlots, LineStays
<1> HIDE DEF Cancel
<1>8. Mutex!InLine(t, s)
  BY <1>5 DEF Mutex!InLine
<1>9. Mutex!Without(Line(s), t) = Without(Line(s), t)
  BY DEF Mutex!Without, Mutex!Place, Without, Place
<1> QED
  BY <1>4, <1>6, <1>7, <1>8, <1>9 DEF Mutex!Quit

(* The last user of an entry.                                              *)
LEMMA OnlyUser ==
  ASSUME IInv, NEW s \in Slots, count[s] = 1, NEW t \in Tasks, pc[t] # "out", slot[t] = s
  PROVE  Users(s) = {t}
<1>1. IsFiniteSet(Users(s)) /\ t \in Users(s)
  BY TasksAssumption, FS_Subset DEF Users
<1>2. Cardinality(Users(s)) = 1
  BY DEF IInv, CountExact
<1>3. Cardinality(Users(s) \ {t}) = 1 - 1 /\ IsFiniteSet(Users(s) \ {t})
  BY <1>1, <1>2, FS_RemoveElement
<1> QED
  BY <1>1, <1>3, FS_EmptySet

LEMMA ResumeCancelledRefines ==
  ASSUME IInv, DoomedWoken, NEW t \in Tasks, ResumeCancelled(t)
  PROVE  \A r \in Slots : Line(r)' = Line(r) /\ Owner(r)' = Owner(r)
<1> PICK s \in Slots : s = slot[t]
  BY UserFacts DEF ResumeCancelled
<1> DEFINE q == waiters[mine[t]]
           rest == Without(q, t)
<1>0. pc[t] = "waiting"
  BY DEF ResumeCancelled
<1>1. LockTypes /\ TableTypes
  BY DEF IInv, TypeOK, LockTypes, TableTypes
<1>2. /\ mine[t] \in Locks /\ s \in Slots /\ mine[t] = table[s] /\ mine[t] # NoLock
      /\ q \in Seq(Tasks) /\ Distinct(q) /\ t \in Members(q)
      /\ Line(s) = Kept(q, LiveTasks)
  BY <1>0, LineOfWaiting
<1>3. t \notin LiveTasks
  BY DEF LiveTasks, ResumeCancelled
<1>4. rest \in Seq(Tasks) /\ Members(rest) = Members(q) \ {t}
  BY <1>2, MembersWithout
<1>5. \A u \in Tasks \ {t} : u \in LiveTasks' <=> u \in LiveTasks
  <2>1. rest # <<>> => Head(rest) \in Tasks
    BY <1>4, HeadTailProperties
  <2>2. \A u \in Tasks : WokenIn(rest, fut)[u] = "cancelled" <=> fut[u] = "cancelled"
    BY <2>1, WokenLive
  <2> HIDE DEF rest
  <2>3. fut' = IF locked[mine[t]] THEN fut ELSE WokenIn(rest, fut)
    BY DEF rest, ResumeCancelled
  <2>4. doomed' = doomed \ {t}
    BY DEF ResumeCancelled
  <2> QED
    BY <2>2, <2>3, <2>4 DEF LiveTasks
<1>6. /\ pc[t] = "waiting" /\ pc' = [pc EXCEPT ![t] = "out"]
      /\ waiters' = [waiters EXCEPT ![mine[t]] = rest]
      /\ table' = [table EXCEPT ![s] = IF count[s] = 1 THEN NoLock ELSE @]
      /\ slot' = [slot EXCEPT ![t] = NoSlot]
      /\ count[s] = Cardinality(Users(s))
  BY <1>2 DEF Uncounted, IInv, CountExact, ResumeCancelled
<1>7. Kept(rest, LiveTasks') = Kept(q, LiveTasks)
  <2>1. Kept(rest, LiveTasks') = Kept(rest, LiveTasks)
    <3>1. Members(rest) \subseteq Tasks \ {t}
      <4>1. Members(rest) \subseteq Tasks
        BY <1>4, MembersType
      <4> QED
        BY <1>4, <4>1
    <3> QED
      BY <1>4, <1>5, <3>1, KeptSame
  <2>2. Kept(rest, LiveTasks) = Kept(q, LiveTasks \ {t})
    BY <1>2, WithoutIsKept DEF rest
  <2> QED
    BY <1>3, <2>1, <2>2
<1>8. Line(s)' = Line(s)
  <2>1. waiters'[mine[t]] = rest
    BY <1>1, <1>2, <1>6 DEF LockTypes
  <2>2. CASE count[s] = 1
    <3>1. Users(s) = {t}
      BY <1>6, <2>2, OnlyUser
    <3>2. Members(q) \subseteq Users(s)
      BY <1>2, <1>6, QueueOfLock, UserFacts DEF Users
    <3>3. Kept(q, LiveTasks) = <<>>
      BY <1>2, <1>3, <3>1, <3>2, KeptNone
    <3>4. table'[s] = NoLock
      BY <1>1, <1>2, <1>6, <2>2 DEF TableTypes
    <3> QED
      BY <1>2, <3>3, <3>4 DEF Line
  <2>3. CASE count[s] # 1
    <3>1. table'[s] = mine[t]
      BY <1>1, <1>2, <1>6, <2>3 DEF TableTypes
    <3> QED
      BY <1>2, <1>7, <2>1, <3>1 DEF Line
  <2> QED
    BY <2>2, <2>3
<1>9. ASSUME NEW r \in Slots, r # s PROVE Line(r)' = Line(r)
  <2>1. table'[r] = table[r]
    BY <1>1, <1>6, <1>9 DEF TableTypes
  <2>2. table[r] # NoLock =>
          /\ waiters'[table[r]] = waiters[table[r]]
          /\ \A u \in Members(waiters[table[r]]) : u \in LiveTasks' <=> u \in LiveTasks
    <3> SUFFICES ASSUME table[r] # NoLock
                 PROVE  /\ waiters'[table[r]] = waiters[table[r]]
                        /\ \A u \in Members(waiters[table[r]]) :
                             u \in LiveTasks' <=> u \in LiveTasks
      OBVIOUS
    <3>1. /\ table[r] \in Locks /\ table[r] # mine[t]
          /\ \A u \in Members(waiters[table[r]]) : u # t /\ u \in Tasks
      BY <1>0, <1>9, OtherSlots
    <3>2. waiters'[table[r]] = waiters[table[r]]
      BY <1>1, <1>6, <3>1 DEF LockTypes
    <3> QED
      BY <1>5, <3>1, <3>2
  <2> QED
    BY <2>1, <2>2, LineStays
<1>10. ASSUME NEW r \in Slots PROVE Owner(r)' = Owner(r)
  <2>1. Inside(r)' = Inside(r)
    BY <1>1, <1>6 DEF LockTypes, TableTypes, Inside, NoSlot, Slots
  <2> QED
    BY <2>1, OwnerStays
<1> QED
  BY <1>8, <1>9, <1>10

LEMMA ExitRefines ==
  ASSUME IInv, DoomedWoken, NEW t \in Tasks, NEW s \in Slots, slot[t] = s, Exit(t)
  PROVE  Mutex!Release(t, s)
<1> USE DEF Exit
<1> DEFINE q == waiters[mine[t]]
<1>1. LockTypes /\ TableTypes
  BY DEF IInv, TypeOK, LockTypes, TableTypes
<1>2. /\ mine[t] \in Locks /\ s \in Slots /\ mine[t] = table[s] /\ mine[t] # NoLock
      /\ q \in Seq(Tasks)
      /\ Members(q) = {u \in Tasks : pc[u] = "waiting" /\ mine[u] = mine[t]}
  BY UserFacts, QueueOfLock, NoLockAssumption
<1>3. LiveTasks' = LiveTasks
  <2>1. q # <<>> => Head(q) \in Tasks
    BY <1>2, HeadTailProperties
  <2>2. \A u \in Tasks : WokenIn(q, fut)[u] = "cancelled" <=> fut[u] = "cancelled"
    BY <2>1, WokenLive
  <2> QED
    BY <2>2 DEF LiveTasks
<1>4. /\ table' = [table EXCEPT ![s] = IF count[s] = 1 THEN NoLock ELSE @]
      /\ slot' = [slot EXCEPT ![t] = NoSlot]
      /\ count[s] = Cardinality(Users(s))
  BY <1>2 DEF Uncounted, IInv, CountExact
<1>5. pc[t] = "in" /\ pc' = [pc EXCEPT ![t] = "out"] /\ waiters' = waiters
  OBVIOUS
<1> HIDE DEF Exit
<1>6. Line(s)' = Line(s)
  <2>1. CASE count[s] = 1
    <3>1. Users(s) = {t}
      BY <1>5, <2>1, OnlyUser
    <3>2. Members(q) \subseteq Users(s) /\ t \notin Members(q)
      BY <1>2, <1>5, UserFacts DEF Users
    <3>3. Kept(q, LiveTasks) = <<>>
      BY <1>2, <3>1, <3>2, KeptNone
    <3>4. table'[s] = NoLock
      BY <1>1, <1>2, <1>4, <2>1 DEF TableTypes
    <3> QED
      BY <1>2, <3>3, <3>4 DEF Line
  <2>2. CASE count[s] # 1
    <3>1. table'[s] = mine[t]
      BY <1>1, <1>2, <1>4, <2>2 DEF TableTypes
    <3> QED
      BY <1>2, <1>3, <1>5, <3>1 DEF Line
  <2> QED
    BY <2>1, <2>2
<1>7. Owner(s) = t /\ Owner(s)' = NoLock
  <2>1. t \in Inside(s)
    BY <1>5 DEF Inside
  <2>2. Inside(s) = {t} /\ Owner(s) = t
    BY <1>2, <2>1, OwnerIs
  <2>3. Inside(s)' = {}
    BY <1>1, <1>2, <1>4, <1>5, <2>2 DEF LockTypes, TableTypes, Inside
  <2> QED
    BY <2>2, <2>3 DEF Owner
<1>8. ASSUME NEW r \in Slots, r # s PROVE Owner(r)' = Owner(r) /\ Line(r)' = Line(r)
  <2>1. Inside(r)' = Inside(r)
    BY <1>1, <1>4, <1>5, <1>8 DEF LockTypes, TableTypes, Inside
  <2>2. table'[r] = table[r]
    BY <1>1, <1>4, <1>8 DEF TableTypes
  <2>3. Line(r)' = Line(r)
    BY <1>3, <1>5, <2>2, LineStays
  <2> QED
    BY <2>1, <2>3, OwnerStays
<1> QED
  BY <1>6, <1>7, <1>8 DEF Mutex!Release

(* The lock manager implements the first-come first-served mutex.  A       *)
(* cancelled waiter quits when it is cancelled, not when it leaves the     *)
(* deque, which is a step that SessionMutex does not see.                  *)
THEOREM MutexImplemented == Spec => ImplementsMutex
<1>1. Init => Mutex!Init
  <2> SUFFICES ASSUME Init PROVE Mutex!Init
    OBVIOUS
  <2>1. ASSUME NEW s \in Slots PROVE Line(s) = <<>> /\ Owner(s) = NoLock
    BY DEF Init, Line, Owner, Inside
  <2> QED
    BY <2>1 DEF Mutex!Init
<1>2. ASSUME IInv, DoomedWoken, [Next]_vars PROVE [Mutex!Next]_Mutex!vars
  <2> USE <1>2
  <2>1. CASE UNCHANGED vars
    <3>1. ASSUME NEW s \in Slots PROVE Line(s)' = Line(s) /\ Owner(s)' = Owner(s)
      <4>1. Inside(s)' = Inside(s) /\ LiveTasks' = LiveTasks
        BY <2>1 DEF vars, Inside, LiveTasks
      <4> QED
        BY <2>1, <4>1, OwnerStays, LineStays DEF vars
    <3> QED
      BY <3>1 DEF Mutex!vars
  <2>2. ASSUME NEW t \in Tasks, Enter(t) PROVE Mutex!Next
    <3> PICK x \in Sessions, l \in Locks :
          \/ EnterAtOnce(t, <<LoopOf[t], x>>, l)
          \/ EnterAndWait(t, <<LoopOf[t], x>>, l)
      BY <2>2 DEF Enter
    <3>1. <<LoopOf[t], x>> \in Slots
      BY LoopOfAssumption DEF Slots
    <3>2. Mutex!Grab(t, <<LoopOf[t], x>>) \/ Mutex!Enqueue(t, <<LoopOf[t], x>>)
      BY <3>1, EnterAtOnceRefines, EnterAndWaitRefines
    <3> QED
      BY <3>1, <3>2 DEF Mutex!Next
  <2>3. ASSUME NEW t \in Tasks, Resume(t) PROVE Mutex!Next
    BY <2>3, ResumeRefines, UserFacts DEF Mutex!Next, Resume
  <2>4. ASSUME NEW t \in Tasks, Cancel(t) PROVE Mutex!Next
    BY <2>4, CancelRefines, UserFacts DEF Mutex!Next, Cancel
  <2>5. ASSUME NEW t \in Tasks, ResumeCancelled(t) PROVE UNCHANGED Mutex!vars
    BY <2>5, ResumeCancelledRefines DEF Mutex!vars
  <2>6. ASSUME NEW t \in Tasks, Exit(t) PROVE Mutex!Next
    BY <2>6, ExitRefines, UserFacts DEF Mutex!Next, Exit
  <2> QED
    BY <2>1, <2>2, <2>3, <2>4, <2>5, <2>6 DEF Next
<1> QED
  BY <1>1, <1>2, InductiveInvariance, DoomedWokenHolds, PTL
     DEF Spec, ImplementsMutex, Mutex!Spec
=============================================================================
