SPECIFICATION FairSpec
CONSTANTS
  a1 = a1
  a2 = a2
  b1 = b1
  Pages = {a1, b1}
  Owner <- OnePageEach
  MaxEvents = 3
INVARIANTS
  TypeOK
  EchoesPairedUndisturbed
  PeerInOrder
  OneChat
PROPERTY NeverDeaf
CHECK_DEADLOCK FALSE
