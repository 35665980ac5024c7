SPECIFICATION FairSpec
CONSTANTS
  m1 = m1
  m2 = m2
  m3 = m3
  m4 = m4
  alice = alice
  Msgs = {m1, m2, m4}
  Senders = {alice}
  SenderOf <- MCSenderOf
  Split = {m4}
  Umo = Umo
  Faults = {"crash", "cancel in typing", "terminate"}
  NoMsg = NoMsg
  NoOrder = NoOrder
  NoCapture = NoCapture
PROPERTIES
  TerminateReleases
CHECK_DEADLOCK FALSE
