SPECIFICATION FairSpec
CONSTANTS
  MAX_SKIP = 1
  MAX_SKIPPED_KEYS_STORED = 2
  BaseKeys = {1, 2, 3}
  PreKeyIds = {1}
  Ways <- AllWays
INVARIANTS
  TypeOK
  OnlyTieBreakRefuses
  NeverAlone
  SignalOpens
  PoolBacked
PROPERTIES
  RefusalLeavesNoTrace
  PinsHold
  AtMostOnce
  SessionEventuallyShared
CHECK_DEADLOCK FALSE
