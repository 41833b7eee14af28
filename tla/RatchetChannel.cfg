SPECIFICATION Spec
CONSTANTS
  MAX_SKIP = 1
  MAX_SKIPPED_KEYS_STORED = 2
  SharedKey = SharedKey
  AssociatedData = AssociatedData
  MaxSent <- Uneven
INVARIANTS
  TypeOK
  ConversationInv
  ForwardSecrecy
  MessageKeysUnique
  Decryptable
  TooFarOnlyAfterLoss
PROPERTY AtMostOnce
CHECK_DEADLOCK FALSE
