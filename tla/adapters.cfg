\* Four calls over each of the five storages, with one deletion, one update by
\* the mini app and two errors of a failsafe's primary.
SPECIFICATION Spec
CONSTANTS
  Calls = {c1, c2, c3, c4}
  NoSession = NoSession
  NoRequest = NoRequest
  Adapters = {"lua", "watch", "mongo", "dynamo", "failsafe"}
  MaxDeletes = 1
  MaxBridges = 1
  MaxFaults = 2
  MaxAge = 2
  Leeway = 1
  BotToken = "token"
  User = 1
  Now = 10
  RawInitData <- MCRawInitData
SYMMETRY CallSymmetry
INVARIANTS OneWinnerPerVersion  BridgeServesItsUser
PROPERTIES ImplementsCas UpdatesAreKept
CHECK_DEADLOCK FALSE
