SPECIFICATION Spec
CONSTANTS
  peer = peer
  group = group
  me = me
  old = old
  new = new
  Peers = {peer}
  Groups = {group}
  Identities = {old, new}
  Self = me
  MaxCalls = 2
PROPERTY PinsHold
CHECK_DEADLOCK FALSE
