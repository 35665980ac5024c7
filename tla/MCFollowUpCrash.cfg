SPECIFICATION FairSpec
CONSTANTS
  m1 = m1
  m2 = m2
  m3 = m3
  m4 = m4
  alice = alice
  Msgs = {m1, m2}
  Senders = {alice}
  SenderOf <- MCSenderOf
  Split = {}
  Umo = Umo
  Faults = {"crash"}
  NoMsg = NoMsg
  NoOrder = NoOrder
  NoCapture = NoCapture
PROPERTIES
  EveryMessageEnds
CHECK_DEADLOCK FALSE
