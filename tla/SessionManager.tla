---------------------------- MODULE SessionManager ----------------------------
(***************************************************************************)
(* SessionManager.runInSession (src/fsm/session-manager.ts) called         *)
(* concurrently for one session key, over a storage whose compareAndSet is *)
(* atomic (MemorySessionStorage, the Lua script of RedisSessionAdapter).   *)
(*                                                                         *)
(* Every call in Calls is one runInSession, in this process or another     *)
(* one.  A step is the code between two awaits: each storage operation and *)
(* the runner are separate steps, so everything that the other calls do    *)
(* meanwhile is interleaved.                                               *)
(*                                                                         *)
(*   load      about to await storage.getWithVersion                       *)
(*   create    absent key: about to compareAndSet the initial session at 0 *)
(*   fallback  the creation lost a race: about to read once more           *)
(*   run       the runner works on a clone of the loaded session           *)
(*   save      about to compareAndSet the mutated clone                    *)
(*   saved / conflict / failed   runInSession resolved, threw              *)
(*             SessionConflictError, or threw anything else                *)
(***************************************************************************)
EXTENDS SessionStorage, FiniteSets

CONSTANTS ConflictRetries,    \* options.conflictRetries
          EncryptionRequired, \* options.encryptionRequired
          MaxDeletes,         \* bound: deletions and expiries of the key
          MaxResends          \* bound: compareAndSet commands the Redis client
                              \* sends again after losing the reply

ASSUME SessionManagerAssumption ==
  /\ ConflictRetries \in Nat
  /\ EncryptionRequired \in BOOLEAN
  /\ MaxDeletes \in Nat
  /\ MaxResends \in Nat

VARIABLES store,     \* the cell of the session key
          pc,        \* where each call is
          attempt,   \* the call's loop counter
          current,   \* what load returned to the call
          sealed,    \* mutableSession.encrypted as the runner left it
          deletes,   \* deletions and expiries so far
          resends    \* lost replies of a save that were sent again

vars == <<store, pc, attempt, current, sealed, deletes, resends>>

Active == {"load", "create", "fallback", "run", "save"}
Ended  == {"saved", "conflict", "failed"}

\* createInitialSession: note that it is not encrypted when encryption is
\* required.
InitialSession ==
  [version |-> 1, log |-> <<>>, encrypted |-> ~EncryptionRequired]

\* assertSecurity throws for a session with this flag.
Insecure(encrypted) == EncryptionRequired /\ ~encrypted

\* Defect: the version is left as it was loaded.
MutatedSameVersion(c) == [version   |-> current[c].version,
                          log       |-> Append(current[c].log, c),
                          encrypted |-> sealed[c]]

\* mutableSession: the clone of what was loaded, with the runner's update and
\* the next version.
Mutated(c) == [version   |-> current[c].version + 1,
               log       |-> Append(current[c].log, c),
               encrypted |-> sealed[c]]

\* Defects: one retry too few, one too many.
RetriesLeftTooFew(c)  == attempt[c] < ConflictRetries
RetriesLeftTooMany(c) == attempt[c] <= ConflictRetries + 1

\* A lost race is followed by another attempt.
RetriesLeft(c) == attempt[c] <= ConflictRetries

Init ==
  /\ store = NoSession
  /\ pc = [c \in Calls |-> "load"]
  /\ attempt = [c \in Calls |-> 1]
  /\ current = [c \in Calls |-> NoSession]
  /\ sealed = [c \in Calls |-> FALSE]
  /\ deletes = 0
  /\ resends = [c \in Calls |-> 0]

Goto(c, label) == pc' = [pc EXCEPT ![c] = label]

\* load: getWithVersion finds a session, which must pass assertSecurity.
LoadFound(c) ==
  /\ pc[c] = "load"
  /\ store # NoSession
  /\ current' = [current EXCEPT ![c] = store]
  /\ Goto(c, IF Insecure(store.encrypted) THEN "failed" ELSE "run")
  /\ UNCHANGED <<store, attempt, sealed, deletes, resends>>

\* load: getWithVersion finds nothing.
LoadAbsent(c) ==
  /\ pc[c] = "load"
  /\ store = NoSession
  /\ Goto(c, "create")
  /\ UNCHANGED <<store, attempt, current, sealed, deletes, resends>>

\* Defect: a lost creation race is tried again instead of read.
CreateAgain(c) ==
  /\ pc[c] = "create"
  /\ store' = CompareAndSet(store, 0, InitialSession)
  /\ \/ /\ CasOk(store, 0)
        /\ current' = [current EXCEPT ![c] = InitialSession]
        /\ Goto(c, "run")
     \/ /\ ~CasOk(store, 0)
        /\ UNCHANGED <<current, pc>>
  /\ UNCHANGED <<attempt, sealed, deletes, resends>>

\* load: the initial session is persisted, or another call was faster.
Create(c) ==
  /\ pc[c] = "create"
  /\ store' = CompareAndSet(store, 0, InitialSession)
  /\ \/ /\ CasOk(store, 0)
        /\ current' = [current EXCEPT ![c] = InitialSession]
        /\ Goto(c, "run")
     \/ /\ ~CasOk(store, 0)
        /\ UNCHANGED current
        /\ Goto(c, "fallback")
  /\ UNCHANGED <<attempt, sealed, deletes, resends>>

\* load: the second read, returned without assertSecurity.
Fallback(c) ==
  /\ pc[c] = "fallback"
  /\ \/ /\ store # NoSession
        /\ current' = [current EXCEPT ![c] = store]
        /\ Goto(c, "run")
     \/ /\ store = NoSession
        /\ UNCHANGED current
        /\ Goto(c, "conflict")
  /\ UNCHANGED <<store, attempt, sealed, deletes, resends>>

\* The runner resolves, having set or cleared the encrypted flag of the clone;
\* assertSecurity follows without an await.
Run(c) ==
  /\ pc[c] = "run"
  /\ \E flag \in BOOLEAN :
       /\ sealed' = [sealed EXCEPT ![c] = flag]
       /\ Goto(c, IF Insecure(flag) THEN "failed" ELSE "save")
  /\ UNCHANGED <<store, attempt, current, deletes, resends>>

\* The compareAndSet of runInSession, and the retry loop around it.
Save(c) ==
  /\ pc[c] = "save"
  /\ store' = CompareAndSet(store, current[c].version, Mutated(c))
  /\ \/ /\ CasOk(store, current[c].version)
        /\ Goto(c, "saved")
        /\ UNCHANGED attempt
     \/ /\ ~CasOk(store, current[c].version)
        /\ ~RetriesLeft(c)
        /\ Goto(c, "conflict")
        /\ UNCHANGED attempt
     \/ /\ ~CasOk(store, current[c].version)
        /\ RetriesLeft(c)
        /\ attempt' = [attempt EXCEPT ![c] = @ + 1]
        /\ Goto(c, "load")
  /\ UNCHANGED <<current, sealed, deletes, resends>>

-------------------------------------------------------------------------------
(* The environment: failures, the Redis client, other users of the key.    *)

\* A storage operation rejects without effect, the runner throws, or the
\* process dies: runInSession ends with that error.
Fail(c) ==
  /\ pc[c] \in Active
  /\ Goto(c, "failed")
  /\ UNCHANGED <<store, attempt, current, sealed, deletes, resends>>

\* A compareAndSet takes effect and the connection breaks before the reply.
CreateReplyLost(c) ==
  /\ pc[c] = "create"
  /\ CasOk(store, 0)
  /\ store' = InitialSession
  /\ \/ Goto(c, "failed")
     \/ MaxResends > 0 /\ UNCHANGED pc
  /\ UNCHANGED <<attempt, current, sealed, deletes, resends>>

SaveReplyLost(c) ==
  /\ pc[c] = "save"
  /\ CasOk(store, current[c].version)
  /\ store' = Mutated(c)
  /\ \/ /\ Goto(c, "failed")
        /\ UNCHANGED resends
     \/ /\ resends[c] < MaxResends
        /\ resends' = [resends EXCEPT ![c] = @ + 1]
        /\ UNCHANGED pc
  /\ UNCHANGED <<attempt, current, sealed, deletes>>

\* storage.delete (TmaSessionBridge.deleteSession), or the TTL of the key ends.
Delete ==
  /\ deletes < MaxDeletes
  /\ store # NoSession
  /\ store' = NoSession
  /\ deletes' = deletes + 1
  /\ UNCHANGED <<pc, attempt, current, sealed, resends>>

Step(c) ==
  \/ LoadFound(c) \/ LoadAbsent(c) \/ Create(c) \/ Fallback(c)
  \/ Run(c) \/ Save(c)

Disturb(c) == Fail(c) \/ CreateReplyLost(c) \/ SaveReplyLost(c)

Next ==
  \/ \E c \in Calls : Step(c) \/ Disturb(c)
  \/ Delete

Spec == Init /\ [][Next]_vars

\* Every await of a live call is eventually answered; nothing forces a failure,
\* a lost reply or a deletion.
FairSpec == Spec /\ \A c \in Calls : WF_vars(Step(c))

-------------------------------------------------------------------------------
(* Properties.                                                             *)

\* How often the update of call c is in the stored session.
Applied(c) == Cardinality({i \in DOMAIN Updates(store) : Updates(store)[i] = c})

TypeOK ==
  /\ store \in Envelope \cup {NoSession}
  /\ pc \in [Calls -> Active \cup Ended]
  /\ attempt \in [Calls -> 1 .. ConflictRetries + 1]
  /\ current \in [Calls -> Envelope \cup {NoSession}]
  /\ sealed \in [Calls -> BOOLEAN]
  /\ deletes \in 0 .. MaxDeletes
  /\ resends \in [Calls -> 0 .. MaxResends]

\* No silent overwrite: whatever replaces a stored session extends exactly that
\* session by one update.  runInSession saves a clone it loaded several awaits
\* ago, so this needs the version check to tell every session it may have
\* loaded from the one it is about to replace.  (While the key is not deleted.)
NoOverwrite ==
  [][ deletes = 0 /\ store # NoSession /\ store' # NoSession =>
        \E c \in Calls : store' = [version   |-> store.version + 1,
                                   log       |-> Append(store.log, c),
                                   encrypted |-> store'.encrypted] ]_store

\* What the callers have been told agrees with what the session holds.
OutcomesTold ==
  \A c \in Calls :
    /\ pc[c] = "saved" => Applied(c) = 1 + resends[c]
    /\ pc[c] \in {"conflict"} \cup Active => Applied(c) = resends[c]
    /\ pc[c] = "failed" => Applied(c) \in {resends[c], 1 + resends[c]}

\* As long as the key is not deleted, an update is in the session exactly once
\* when runInSession resolved and not at all when it threw SessionConflictError,
\* except for the times a lost reply made the client send the save again; no
\* later call removes it.
OutcomeMatchesLog == deletes = 0 => OutcomesTold

\* SessionConflictError is never spurious: the call lost ConflictRetries + 1
\* races, each against another update that is in the session, or the key was
\* deleted under it.
ConflictMeansContention ==
  \A c \in Calls :
    pc[c] = "conflict" => \/ deletes > 0
                         \/ /\ store # NoSession
                            /\ store.version >= ConflictRetries + 2

\* With a retry for every other call, no call runs out of retries (the claim
\* behind the contention test of the FSM, 50 calls with conflictRetries 50).
RetriesSuffice ==
  (/\ Cardinality(Calls) <= ConflictRetries + 1
   /\ MaxDeletes = 0
   /\ MaxResends = 0) => \A c \in Calls : pc[c] # "conflict"

\* With encryptionRequired no updated session is ever stored unencrypted,
\* although load hands out unchecked sessions on two of its three paths.
UpdatesAreSealed ==
  EncryptionRequired /\ Updates(store) # <<>> => store.encrypted

\* Every call ends, whatever the others do.
Termination == \A c \in Calls : <>(pc[c] \in Ended)

\* The calls refine atomic updates when the key is never deleted and no command
\* is sent twice.
Outcome(label) == IF label \in Ended THEN label ELSE "pending"

Atomic == INSTANCE AtomicSession
            WITH log     <- Updates(store),
                 outcome <- [c \in Calls |-> Outcome(pc[c])]

ImplementsAtomicSession == Atomic!Spec

-------------------------------------------------------------------------------
(* The inductive invariant behind NoOverwrite, ConflictMeansContention and    *)
(* ImplementsAtomicSession.                                                *)

\* A session's version counts its updates, from 1 for the initial session.
Counts(session) == session.version = Len(session.log) + 1

VersionsCount ==
  /\ store # NoSession => Counts(store)
  /\ \A c \in Calls :
       pc[c] \in {"run", "save"} => current[c] # NoSession /\ Counts(current[c])

\* A call works on the stored session or on an older one: equal versions
\* mean the same session.
NotAhead(c) ==
  pc[c] \in {"run", "save"} =>
    /\ store # NoSession
    /\ current[c].version <= store.version
    /\ current[c].version = store.version => current[c] = store

\* Every attempt after the first was paid for by another call's update.
AttemptsPaid(c) ==
  /\ pc[c] \in {"run", "save"} => attempt[c] <= current[c].version
  /\ pc[c] \in {"load", "create", "fallback"} /\ attempt[c] # 1 =>
       store # NoSession /\ attempt[c] <= store.version
  /\ pc[c] = "fallback" => store # NoSession

\* What is about to be saved has passed assertSecurity.
SavesAreSealed == \A c \in Calls : pc[c] = "save" => ~Insecure(sealed[c])

IInv ==
  /\ TypeOK
  /\ VersionsCount
  /\ UpdatesAreSealed /\ SavesAreSealed
  /\ deletes = 0 => \A c \in Calls : NotAhead(c) /\ AttemptsPaid(c)
  /\ ConflictMeansContention

===============================================================================
