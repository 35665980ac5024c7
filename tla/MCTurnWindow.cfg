SPECIFICATION Spec
CONSTANTS
  k1 = k1
  k2 = k2
  m1 = m1
  m2 = m2
  m3 = m3
  m4 = m4
  m5 = m5
  k3 = k3
  Chats = {k1, k2, k3}
  Msgs = {m1, m2, m3, m4, m5}
  ChatOf <- MCChatOf
  Bare = {m3}
  Tasks = {t1, t2, t3, t4}
  MaxWindows = 2
  MaxFragments = 2
  MaxTyping = 1
  Wait = 2
  MaxTotal = 3
  TypingWait = 2
  NoWindow = NoWindow
  NoTask = NoTask
  NoTimer = NoTimer
  NoGuard = NoGuard
SYMMETRY Symmetry
INVARIANTS
  TypeOK
  TimerExact
  PauseGuarded
  FlushInTime
  FragmentsHeld
CHECK_DEADLOCK FALSE
