SPECIFICATION FairSpec
CONSTANTS
  t1 = t1
  t2 = t2
  t3 = t3
  t4 = t4
  loopA = loopA
  loopB = loopB
  Tasks = {t1, t2, t3, t4}
  Loops = {loopA, loopB}
  Sessions = {x, y}
  LoopOf <- MCLoopOf
  Locks = {k1, k2, k3}
  NoLock = NoLock
INVARIANTS
  TypeOK
  MutualExclusion
  OneLockPerSlot
  CountExact
  NoLostWakeup
PROPERTIES
  WaitEnds
  ImplementsMutex
