SPECIFICATION FairSpec
CONSTANTS
  peer = peer
  group = group
  me = me
  old = old
  new = new
  Peers = {peer}
  Groups = {group}
  Identities = {old, new}
  Self = me
  MaxCalls = 3
INVARIANT TypeOK
PROPERTIES
  OneAtATime
  OnlyFetchHoldsUp
  PinsReplacedInRacesOnly
CHECK_DEADLOCK FALSE
