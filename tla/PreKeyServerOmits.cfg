SPECIFICATION Spec
CONSTANTS
  p1 = p1
  p2 = p2
  g1 = g1
  g2 = g2
  g3 = g3
  Posts = {p1, p2}
  Gets = {g1}
  OpkIds = {1}
PROPERTY OmittedOnlyWhenEmpty
CHECK_DEADLOCK FALSE
