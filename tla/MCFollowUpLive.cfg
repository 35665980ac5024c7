SPECIFICATION FairSpec
CONSTANTS
  m1 = m1
  m2 = m2
  m3 = m3
  m4 = m4
  alice = alice
  Msgs = {m1, m2, m3}
  Senders = {alice}
  SenderOf <- MCSenderOf
  Split = {}
  Umo = Umo
  Faults = {"cancel"}
  NoMsg = NoMsg
  NoOrder = NoOrder
  NoCapture = NoCapture
PROPERTIES
  ImplementsTurns
  EndsUnlessRunBreaks
CHECK_DEADLOCK FALSE
