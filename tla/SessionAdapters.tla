--------------------------- MODULE SessionAdapters ----------------------------
(***************************************************************************)
(* compareAndSet of the storages that talk to a database, for one key:     *)
(*                                                                         *)
(*   lua     RedisSessionAdapter (one EVAL of CAS_SCRIPT)                  *)
(*   watch   RedisSessionStorage (WATCH, GET, MULTI/EXEC on a connection   *)
(*           of the call's own)                                            *)
(*   mongo   MongoDBSessionAdapter (insertOne or findOneAndUpdate, then a  *)
(*           second read when it is refused)                               *)
(*   dynamo  DynamoDBSessionAdapter (conditional PutItem, then a second    *)
(*           read; GetItem is eventually consistent and may be stale)      *)
(*   failsafe  FailsafeSessionStorage of one process: a primary like lua,   *)
(*           and a MemorySessionStorage for as long as the primary throws  *)
(*                                                                         *)
(* The database executes one command at a time; the commands of different  *)
(* calls interleave.  Every call reads the key, works on what it read and  *)
(* calls compareAndSet once.  The mini-app bridge (TmaSessionBridge) shares *)
(* the key and does not use compareAndSet; it serves requests that carry   *)
(* init data (InitData) of the user whose key this is.                     *)
(***************************************************************************)
EXTENDS SessionStorage, InitData

CONSTANTS NoRequest,   \* see AtomicCas
          Adapters,    \* the storages to choose from
          MaxDeletes,  \* bound: deletions and expiries
          MaxBridges,  \* bound: updateSession calls of the mini app
          MaxFaults,   \* bound: commands of a failsafe's primary that throw
          BotToken, User,  \* of this bot, and of the key
          Now,             \* the time of the mini app's requests
          RawInitData      \* the init data they may carry

ASSUME SessionAdaptersAssumption ==
  /\ Adapters \subseteq {"lua", "watch", "mongo", "dynamo", "failsafe"}
  /\ MaxDeletes \in Nat /\ MaxBridges \in Nat /\ MaxFaults \in Nat
  /\ NoRequest \notin [expected: Nat, next: Envelope]
  /\ Now \in Nat
  /\ \A raw \in RawInitData : raw \in Seq({raw[i] : i \in DOMAIN raw})

\* HMAC is not forged: what bears a digest under the bot's token comes from
\* Telegram, which names a date, in seconds, and at most one user.
ASSUME SignedByTelegram ==
  \A raw \in RawInitData :
    Places(raw, "hash") # {} /\ FirstValue(raw, "hash") = <<Digest(raw, BotToken)>> =>
      /\ \A key \in {"auth_date", "user"} : \A i, j \in Places(raw, key) : i = j
      /\ \A i \in Places(raw, "auth_date") : raw[i][2] # <<>> => raw[i][2][1] \in Nat

VARIABLES adapter,    \* the storage of this behaviour
          cell,       \* what the database holds for the key
          previous,   \* what it held before: a stale replica
          pc,         \* read, cas, send, get, exec, reread, ok or refused
          loaded,     \* what getWithVersion returned to the call
          request,    \* the arguments of its compareAndSet
          touched,    \* watched keys that were written since WATCH
          contended,  \* calls during whose compareAndSet somebody else wrote
          bridge,     \* updateSession: idle, or its request and what it has read
          fallback,   \* failsafe: off; on: failed is set; due: and retryAt is over
          memory,     \* failsafe: what MemorySessionStorage holds for the key
          source, decider,  \* the store that answered a call's read, and its CAS
          deletes, bridges, faults

failsafe == <<fallback, memory, source, decider, faults>>
vars == <<adapter, cell, previous, pc, loaded, request, touched, contended,
          bridge, failsafe, deletes, bridges>>

Asking == {c \in Calls : pc[c] \in {"send", "get", "exec"}}
Watching == {c \in Calls : pc[c] \in {"get", "exec"}}
Idle == [bridge |-> "idle"]

Init ==
  /\ adapter \in Adapters
  /\ cell = NoSession /\ previous = NoSession
  /\ pc = [c \in Calls |-> "read"]
  /\ loaded = [c \in Calls |-> NoSession]
  /\ request = [c \in Calls |-> NoRequest]
  /\ touched = {} /\ contended = {}
  /\ bridge = Idle
  /\ fallback = "off" /\ memory = NoSession
  /\ source = [c \in Calls |-> "database"] /\ decider = source
  /\ deletes = 0 /\ bridges = 0 /\ faults = 0

\* A write by `writers` (one call, or nobody in Calls).
Write(value, writers) ==
  /\ cell' = value
  /\ previous' = cell
  /\ touched' = touched \cup (Watching \ writers)
  /\ contended' = contended \cup (Asking \ writers)

NoWrite == UNCHANGED <<cell, previous, touched, contended>>

Goto(c, label) == pc' = [pc EXCEPT ![c] = label]

\* What a read returns: GetItem without ConsistentRead may miss the last write.
Sees(value) == value = cell \/ (adapter = "dynamo" /\ value = previous)

\* usePrimary: the first call after retryAt clears the flag.
UsesPrimary == fallback # "on"
Retried == fallback' = IF fallback = "due" THEN "off" ELSE fallback

\* getWithVersion, outside of any transaction.
Read(c) ==
  /\ pc[c] = "read"
  /\ UsesPrimary /\ Retried
  /\ \E value \in {cell, previous} :
       /\ Sees(value)
       /\ loaded' = [loaded EXCEPT ![c] = value]
  /\ Goto(c, "cas")
  /\ NoWrite
  /\ UNCHANGED <<adapter, request, bridge, memory, source, decider, faults, deletes,
                 bridges>>

\* failsafe: the primary's answer is an error, or it is not asked.
ReadFallback(c) ==
  /\ adapter = "failsafe"
  /\ pc[c] = "read"
  /\ \/ ~UsesPrimary /\ UNCHANGED faults
     \/ UsesPrimary /\ faults < MaxFaults /\ faults' = faults + 1
  /\ fallback' = "on"
  /\ loaded' = [loaded EXCEPT ![c] = memory]
  /\ source' = [source EXCEPT ![c] = "memory"]
  /\ Goto(c, "cas")
  /\ NoWrite
  /\ UNCHANGED <<adapter, request, bridge, memory, decider, deletes, bridges>>

Expected(c) == IF loaded[c] = NoSession THEN 0 ELSE loaded[c].version

NextValue(c) == [version   |-> Expected(c) + 1,
                 log       |-> Append(Updates(loaded[c]), c),
                 encrypted |-> TRUE]

Ask(c) ==
  request' = [request EXCEPT ![c] = [expected |-> Expected(c), next |-> NextValue(c)]]

\* compareAndSet is called.
Call(c) ==
  /\ pc[c] = "cas"
  /\ UsesPrimary /\ Retried
  /\ Ask(c)
  /\ Goto(c, "send")
  /\ NoWrite
  /\ UNCHANGED <<adapter, loaded, bridge, memory, source, decider, faults, deletes,
                 bridges>>

\* MemorySessionStorage.compareAndSet, at once.
MemoryCas(c, asked) ==
  /\ decider' = [decider EXCEPT ![c] = "memory"]
  /\ memory' = CompareAndSet(memory, asked.expected, asked.next)
  /\ Goto(c, IF CasOk(memory, asked.expected) THEN "ok" ELSE "refused")

\* failsafe: the primary is not asked.
CallFallback(c) ==
  /\ pc[c] = "cas"
  /\ ~UsesPrimary
  /\ Ask(c)
  /\ MemoryCas(c, request'[c])
  /\ NoWrite
  /\ UNCHANGED <<adapter, loaded, bridge, fallback, source, faults, deletes, bridges>>

\* lua, and the primary of failsafe: the whole script is one command.
Eval(c) ==
  /\ adapter \in {"lua", "failsafe"}
  /\ pc[c] = "send"
  /\ IF CasOk(cell, request[c].expected)
       THEN Write(request[c].next, {c}) /\ Goto(c, "ok")
       ELSE NoWrite /\ Goto(c, "refused")
  /\ UNCHANGED <<adapter, loaded, request, bridge, failsafe, deletes, bridges>>

\* failsafe: the primary throws, perhaps after it has written; recordFailure does
\* not set retryAt anew.
EvalThrows(c) ==
  /\ adapter = "failsafe"
  /\ pc[c] = "send"
  /\ faults < MaxFaults /\ faults' = faults + 1
  /\ \/ NoWrite
     \/ CasOk(cell, request[c].expected) /\ Write(request[c].next, {c})
  /\ fallback' = IF fallback = "off" THEN "on" ELSE fallback
  /\ MemoryCas(c, request[c])
  /\ UNCHANGED <<adapter, loaded, request, bridge, source, deletes, bridges>>

\* retryAfterMs have passed.
RetryDue ==
  /\ fallback = "on"
  /\ fallback' = "due"
  /\ NoWrite
  /\ UNCHANGED <<adapter, pc, loaded, request, bridge, memory, source, decider, faults,
                 deletes, bridges>>

\* watch: WATCH on a connection of its own.
Watch(c) ==
  /\ adapter = "watch"
  /\ pc[c] = "send"
  /\ touched' = touched \ {c}
  /\ Goto(c, "get")
  /\ UNCHANGED <<adapter, cell, previous, contended, loaded, request, bridge, failsafe,
                 deletes, bridges>>

\* Defect: the stored version is compared with the next one.
WatchedGetOffByOne(c) ==
  /\ pc[c] = "get"
  /\ Goto(c, IF CasOk(cell, request[c].next.version) THEN "exec" ELSE "refused")
  /\ NoWrite
  /\ UNCHANGED <<adapter, loaded, request, bridge, failsafe, deletes, bridges>>

\* watch: the GET decides; UNWATCH follows a refusal.
WatchedGet(c) ==
  /\ pc[c] = "get"
  /\ Goto(c, IF CasOk(cell, request[c].expected) THEN "exec" ELSE "refused")
  /\ NoWrite
  /\ UNCHANGED <<adapter, loaded, request, bridge, failsafe, deletes, bridges>>

\* Defect: MULTI without WATCH.
ExecUnwatched(c) ==
  /\ pc[c] = "exec"
  /\ Write(request[c].next, {c})
  /\ Goto(c, "ok")
  /\ UNCHANGED <<adapter, loaded, request, bridge, failsafe, deletes, bridges>>

\* watch: EXEC answers null when the key was written since WATCH.
Exec(c) ==
  /\ pc[c] = "exec"
  /\ IF c \notin touched
       THEN Write(request[c].next, {c}) /\ Goto(c, "ok")
       ELSE NoWrite /\ Goto(c, "refused")
  /\ UNCHANGED <<adapter, loaded, request, bridge, failsafe, deletes, bridges>>

\* Defect: an upsert, where the filter or condition is left out.
ConditionalAlways(c) ==
  /\ adapter \in {"mongo", "dynamo"}
  /\ pc[c] = "send"
  /\ Write(request[c].next, {c})
  /\ Goto(c, "ok")
  /\ UNCHANGED <<adapter, loaded, request, bridge, failsafe, deletes, bridges>>

\* mongo, dynamo: insert if absent (expected version 0) or write if the stored
\* version is the expected one.
Conditional(c) ==
  /\ adapter \in {"mongo", "dynamo"}
  /\ pc[c] = "send"
  /\ IF CasOk(cell, request[c].expected)
       THEN Write(request[c].next, {c}) /\ Goto(c, "ok")
       ELSE NoWrite /\ Goto(c, "reread")
  /\ UNCHANGED <<adapter, loaded, request, bridge, failsafe, deletes, bridges>>

\* mongo, dynamo: `current` of the refusal is read separately.
Reread(c) ==
  /\ pc[c] = "reread"
  /\ \E value \in {cell, previous} :
       /\ Sees(value)
       /\ loaded' = [loaded EXCEPT ![c] = value]
  /\ Goto(c, "refused")
  /\ NoWrite
  /\ UNCHANGED <<adapter, request, bridge, failsafe, deletes, bridges>>

\* delete, or the TTL ends.
Delete ==
  /\ deletes < MaxDeletes
  /\ UsesPrimary /\ cell # NoSession
  /\ Write(NoSession, {})
  /\ Retried
  /\ deletes' = deletes + 1
  /\ UNCHANGED <<adapter, pc, loaded, request, bridge, memory, source, decider, faults,
                 bridges>>

\* failsafe: delete while the primary is not asked.
DeleteFallback ==
  /\ deletes < MaxDeletes
  /\ ~UsesPrimary /\ memory # NoSession
  /\ memory' = NoSession
  /\ deletes' = deletes + 1
  /\ NoWrite
  /\ UNCHANGED <<adapter, pc, loaded, request, bridge, fallback, source, decider,
                 faults, bridges>>

\* A request of the mini app is authenticated, and TmaSessionBridge.updateSession
\* gets the session of its user ...
BridgeGet(raw) ==
  /\ adapter # "failsafe"
  /\ bridges < MaxBridges
  /\ bridge = Idle
  /\ AuthenticatedUser(<<raw>>, BotToken, Now) = <<User>>
  /\ \E value \in {cell, previous} :
       /\ Sees(value)
       /\ value # NoSession
       /\ bridge' = [raw |-> raw, session |-> value]
  /\ bridges' = bridges + 1
  /\ NoWrite
  /\ UNCHANGED <<adapter, pc, loaded, request, failsafe, deletes>>

\* ... and sets it, whatever happened in between.  The updater keeps the version
\* and what the bot stored.
BridgeSet ==
  /\ bridge # Idle
  /\ Write(bridge.session, {})
  /\ bridge' = Idle
  /\ UNCHANGED <<adapter, pc, loaded, request, failsafe, deletes, bridges>>

Step(c) ==
  \/ Read(c) \/ Call(c) \/ Eval(c) \/ Watch(c) \/ WatchedGet(c) \/ Exec(c)
  \/ Conditional(c) \/ Reread(c)
  \/ ReadFallback(c) \/ CallFallback(c) \/ EvalThrows(c)

Next ==
  \/ \E c \in Calls : Step(c)
  \/ \E raw \in RawInitData : BridgeGet(raw)
  \/ BridgeSet \/ RetryDue \/ Delete \/ DeleteFallback

Spec == Init /\ [][Next]_vars

-------------------------------------------------------------------------------
TypeOK ==
  /\ adapter \in Adapters
  /\ cell \in Envelope \cup {NoSession} /\ previous \in Envelope \cup {NoSession}
  /\ memory \in Envelope \cup {NoSession}
  /\ pc \in [Calls -> {"read", "cas", "send", "get", "exec", "reread", "ok", "refused"}]
  /\ loaded \in [Calls -> Envelope \cup {NoSession}]
  /\ request \in [Calls -> [expected: Nat, next: Envelope] \cup {NoRequest}]
  /\ touched \subseteq Calls /\ contended \subseteq Calls
  /\ fallback \in {"off", "on", "due"}
  /\ {source, decider} \subseteq [Calls -> {"database", "memory"}]
  /\ deletes \in Nat /\ bridges \in Nat /\ faults \in Nat

\* Nobody deleted the key, and the mini app did not set it.
Undisturbed == deletes = 0 /\ bridges = 0

\* `new` carries every update of `old`.
Keeps(old, new) ==
  \A i \in DOMAIN Updates(old) :
    \E j \in DOMAIN Updates(new) : Updates(new)[j] = Updates(old)[i]

\* compareAndSet overwrites nothing: an accepted write keeps the updates of the
\* session it replaces.  Of a failsafe that is only true of calls that were
\* answered by one store from beginning to end; those that crossed from one to the
\* other compare versions of different sessions.
UpdatesAreKept ==
  [][ \A c \in Calls :
        pc'[c] = "ok" /\ pc[c] # "ok" /\ source[c] = decider'[c] /\ Undisturbed =>
          IF source[c] = "memory" THEN Keeps(memory, memory') ELSE Keeps(cell, cell')
    ]_vars

\* Of the calls that started from the same version, at most one is accepted by a
\* store, although the databases decide in up to three commands and the primary
\* of a failsafe may write and throw.
OneWinnerPerVersion ==
  Undisturbed =>
    \A c, d \in Calls :
      pc[c] = "ok" /\ pc[d] = "ok" /\ c # d /\ decider[c] = decider[d] =>
        request[c].expected # request[d].expected

\* Contention only: a call that read a session, stale or not, is refused only if
\* somebody else's write was accepted, or the primary of a failsafe threw.
RefusalsHaveAWinner ==
  \A c \in Calls :
    pc[c] \in {"refused", "reread"} =>
      ~Undisturbed \/ faults > 0 \/ \E d \in Calls \ {c} : pc[d] = "ok"

\* Init data that Telegram signed for this bot and that is fresh: one date, one user,
\* and the digest of all that is no hash in the first hash.
Genuine(raw) ==
  \E date, user \in DOMAIN raw :
    /\ Places(raw, "auth_date") = {date} /\ Places(raw, "user") = {user}
    /\ Places(raw, "hash") # {}
    /\ FirstValue(raw, "hash") =
         <<Signature(raw, {i \in DOMAIN raw : raw[i][1] # "hash"}, BotToken)>>
    /\ raw[date][2] # <<>>
    /\ Now - raw[date][2][1] \in -Leeway .. MaxAge

UsersOf(raw) == {raw[i][2] : i \in Places(raw, "user")}

\* The mini app works on the session of the user for whom Telegram signed its
\* request, never on a stale, altered or foreign one's; and no genuine request of
\* that user is turned away.
BridgeServesItsUser ==
  /\ bridge # Idle => Genuine(bridge.raw) /\ UsersOf(bridge.raw) = {<<User>>}
  /\ \A raw \in RawInitData :
       Genuine(raw) => UsersOf(raw) = {AuthenticatedUser(<<raw>>, BotToken, Now)}

\* Every adapter but the failsafe implements the atomic compareAndSet that
\* SessionManager relies on.
Result(label) ==
  CASE label = "ok" -> "ok"
    [] label \in {"refused", "reread"} -> "refused"
    [] OTHER -> "pending"

Promises == adapter # "failsafe"

Cas == INSTANCE AtomicCas
         WITH cell      <- IF Promises THEN cell ELSE NoSession,
              request   <- [c \in Calls |-> IF Promises THEN request[c] ELSE NoRequest],
              result    <- [c \in Calls |-> IF Promises THEN Result(pc[c]) ELSE "pending"],
              contended <- IF Promises THEN contended ELSE {}

ImplementsCas == Cas!Spec

===============================================================================
