SPECIFICATION Spec
CONSTANTS
  m1 = m1
  m2 = m2
  m3 = m3
  m4 = m4
  alice = alice
  Msgs = {m1, m2, m3, m4}
  Senders = {alice}
  SenderOf <- MCSenderOf
  Split = {}
  Umo = Umo
  Faults = {"crash", "cancel"}
  NoMsg = NoMsg
  NoOrder = NoOrder
  NoCapture = NoCapture
SYMMETRY Symmetry
INVARIANTS
  TypeOK
  InOrder
  PlacesOwned
  AnsweredOnce
  WaitersKnown
  IdleStateReleased
CHECK_DEADLOCK FALSE
