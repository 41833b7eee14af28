SPECIFICATION FairSpec
CONSTANTS
  p1 = p1
  p2 = p2
  g1 = g1
  g2 = g2
  g3 = g3
  Posts = {p1, p2}
  Gets = {g1, g2, g3}
  OpkIds = {1, 2}
INVARIANTS
  TypeOK
  NoKeyTwice
  ServerInv
  PoolMatchesBundle
  NoStaleKey
CHECK_DEADLOCK FALSE
PROPERTY EveryRequestEnds
