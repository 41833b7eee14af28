SPECIFICATION Spec
CONSTANTS
  m1 = m1
  Members = {m1}
  MAX_SENDER_KEY_STATES = 2
  MAX_GROUP_SKIP = 2
  MAX_SKIPPED_KEYS_STORED = 1
  MaxChains = 3
  MaxOperations = 4
  MaxSkdms = 3
  MaxReloads = 0
INVARIANTS
  RecentChainsKept
CHECK_DEADLOCK FALSE
