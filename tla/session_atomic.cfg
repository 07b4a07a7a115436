\* Three calls with a retry for every other call, on a key that is never deleted.
SPECIFICATION FairSpec
CONSTANTS
  Calls = {c1, c2, c3}
  NoSession = NoSession
  ConflictRetries = 2
  EncryptionRequired = FALSE
  MaxDeletes = 0
  MaxResends = 0
INVARIANTS RetriesSuffice
PROPERTIES ImplementsAtomicSession Termination
CHECK_DEADLOCK FALSE
