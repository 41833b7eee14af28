SPECIFICATION Spec
CONSTANTS
  MAX_SKIP = 2
  MAX_SKIPPED_KEYS_STORED = 4
  BaseKeys = {1, 2}
  PreKeyIds = {1}
  Ways <- UnorderedWay
INVARIANTS
  Converged
CHECK_DEADLOCK FALSE
