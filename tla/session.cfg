\* Three calls with one retry each, so the slowest can run out of them; the key is
\* deleted once, one reply per call is lost and its save sent again, and sessions
\* have to be encrypted.
SPECIFICATION Spec
CONSTANTS
  Calls = {c1, c2, c3}
  NoSession = NoSession
  ConflictRetries = 1
  EncryptionRequired = TRUE
  MaxDeletes = 1
  MaxResends = 1
SYMMETRY CallSymmetry
INVARIANTS IInv OutcomeMatchesLog
PROPERTIES NoOverwrite
CHECK_DEADLOCK FALSE
