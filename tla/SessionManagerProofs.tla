------------------------- MODULE SessionManagerProofs -------------------------
(***************************************************************************)
(* What runInSession guarantees for any number of concurrent calls and any *)
(* number of retries.                                                      *)
(***************************************************************************)
EXTENDS SessionManager, FiniteSetTheorems, TLAPS

\* The initial session and a runner's clone are envelopes, and a clone is one
\* update ahead of what was loaded.
LEMMA EnvelopeLemma ==
  /\ InitialSession \in Envelope
  /\ Counts(InitialSession)
  /\ InitialSession.version = 1
  /\ TypeOK => \A c \in Calls : current[c] # NoSession =>
       /\ Mutated(c) \in Envelope
       /\ Mutated(c) # NoSession
       /\ Mutated(c).version = current[c].version + 1
       /\ Mutated(c).log = Append(current[c].log, c)
       /\ Counts(current[c]) => Counts(Mutated(c))
  <1>1. InitialSession \in Envelope /\ Counts(InitialSession) /\ InitialSession.version = 1
    BY SessionManagerAssumption DEF InitialSession, Envelope, Counts
  <1>2. ASSUME TypeOK, NEW c \in Calls, current[c] # NoSession
        PROVE  /\ Mutated(c) \in Envelope
               /\ Mutated(c) # NoSession
               /\ Mutated(c).version = current[c].version + 1
               /\ Mutated(c).log = Append(current[c].log, c)
               /\ Counts(current[c]) => Counts(Mutated(c))
    <2>1. current[c] \in Envelope
      BY <1>2 DEF TypeOK
    <2>2. current[c].version \in Nat /\ current[c].log \in Seq(Calls) /\ sealed[c] \in BOOLEAN
      BY <1>2, <2>1 DEF TypeOK, Envelope
    <2>3. Append(current[c].log, c) \in Seq(Calls)
      BY <2>2
    <2>4. Mutated(c) \in Envelope
      BY <2>2, <2>3 DEF Mutated, Envelope
    <2>5. Len(Append(current[c].log, c)) = Len(current[c].log) + 1
      BY <2>2
    <2> QED
      BY <2>2, <2>4, <2>5, NoSessionAssumption DEF Mutated, Counts
  <1> QED
    BY <1>1, <1>2

\* The part of the inductive invariant that deletions do not disturb: types, and
\* versions that count updates.
LEMMA TypesAndVersions == Spec => [](TypeOK /\ VersionsCount)
  <1> USE SessionManagerAssumption
  <1>1. Init => TypeOK /\ VersionsCount
    BY DEF Init, TypeOK, VersionsCount, Active
  <1>2. TypeOK /\ VersionsCount /\ [Next]_vars => TypeOK' /\ VersionsCount'
    <2> SUFFICES ASSUME TypeOK, VersionsCount, [Next]_vars
                 PROVE  TypeOK' /\ VersionsCount'
      OBVIOUS
    <2>1. CASE UNCHANGED vars
      BY <2>1 DEF vars, TypeOK, VersionsCount
    <2>2. ASSUME NEW c \in Calls, LoadFound(c) PROVE TypeOK' /\ VersionsCount'
      <3>1. TypeOK'
        BY <2>2 DEF LoadFound, TypeOK, Goto, Active, Ended
      <3>2. VersionsCount'
        BY <2>2 DEF LoadFound, TypeOK, Goto, VersionsCount
      <3> QED BY <3>1, <3>2
    <2>3. ASSUME NEW c \in Calls, LoadAbsent(c) PROVE TypeOK' /\ VersionsCount'
      BY <2>3 DEF LoadAbsent, TypeOK, Goto, Active, VersionsCount
    <2>4. ASSUME NEW c \in Calls, Create(c) PROVE TypeOK' /\ VersionsCount'
      <3>1. TypeOK'
        BY <2>4, EnvelopeLemma DEF Create, TypeOK, Goto, Active, CompareAndSet
      <3>2. InitialSession # NoSession
        BY EnvelopeLemma, NoSessionAssumption
      <3>3. VersionsCount'
        BY <2>4, <3>2, EnvelopeLemma
        DEF Create, TypeOK, Goto, CompareAndSet, VersionsCount
      <3> QED BY <3>1, <3>3
    <2>5. ASSUME NEW c \in Calls, Fallback(c) PROVE TypeOK' /\ VersionsCount'
      BY <2>5 DEF Fallback, TypeOK, Goto, Active, Ended, VersionsCount
    <2>6. ASSUME NEW c \in Calls, Run(c) PROVE TypeOK' /\ VersionsCount'
      BY <2>6 DEF Run, TypeOK, Goto, Active, Ended, VersionsCount
    <2>7. ASSUME NEW c \in Calls, Save(c) PROVE TypeOK' /\ VersionsCount'
      <3>1. current[c] # NoSession /\ Counts(current[c])
        BY <2>7 DEF Save, VersionsCount
      <3>2. Mutated(c) \in Envelope /\ Counts(Mutated(c))
        BY <3>1, EnvelopeLemma
      <3>3. /\ store' \in Envelope \cup {NoSession}
            /\ store' # NoSession => Counts(store')
        BY <2>7, <3>2 DEF Save, CompareAndSet, TypeOK, VersionsCount
      <3>4. /\ pc' \in [Calls -> Active \cup Ended]
            /\ attempt' \in [Calls -> 1 .. ConflictRetries + 1]
        BY <2>7 DEF Save, TypeOK, Goto, Active, Ended, RetriesLeft
      <3>5. TypeOK'
        BY <2>7, <3>3, <3>4 DEF Save, TypeOK
      <3>6. VersionsCount'
        BY <2>7, <3>3 DEF Save, TypeOK, Goto, VersionsCount
      <3> QED BY <3>5, <3>6
    <2>8. ASSUME NEW c \in Calls, Fail(c) PROVE TypeOK' /\ VersionsCount'
      BY <2>8 DEF Fail, TypeOK, Goto, Active, Ended, VersionsCount
    <2>9. ASSUME NEW c \in Calls, CreateReplyLost(c) PROVE TypeOK' /\ VersionsCount'
      BY <2>9, EnvelopeLemma
      DEF CreateReplyLost, TypeOK, Goto, Active, Ended, VersionsCount
    <2>10. ASSUME NEW c \in Calls, SaveReplyLost(c) PROVE TypeOK' /\ VersionsCount'
      <3>1. current[c] # NoSession /\ Counts(current[c])
        BY <2>10 DEF SaveReplyLost, VersionsCount
      <3>2. Mutated(c) \in Envelope /\ Counts(Mutated(c))
        BY <3>1, EnvelopeLemma
      <3>3. TypeOK'
        BY <2>10, <3>2 DEF SaveReplyLost, TypeOK, Goto, Active, Ended
      <3>4. VersionsCount'
        BY <2>10, <3>2 DEF SaveReplyLost, TypeOK, Goto, VersionsCount
      <3> QED BY <3>3, <3>4
    <2>11. CASE Delete
      BY <2>11 DEF Delete, TypeOK, VersionsCount
    <2> QED
      BY <2>1, <2>2, <2>3, <2>4, <2>5, <2>6, <2>7, <2>8, <2>9, <2>10, <2>11
      DEF Next, Step, Disturb
  <1> QED
    BY <1>1, <1>2, PTL DEF Spec

\* Every variable keeps its type: in particular no call ever starts more than
\* ConflictRetries + 1 attempts (the loop bound of runInSession).
THEOREM TypeCorrect == Spec => []TypeOK
  BY TypesAndVersions, PTL

\* With encryptionRequired, the only session that is ever stored unencrypted is a new
\* one without updates: load hands out unchecked sessions, but runInSession checks
\* the clone right before it saves it, and nothing changes the clone in between.
THEOREM UpdatesSealed == Spec => [](UpdatesAreSealed /\ SavesAreSealed)
  <1> DEFINE Sealed == UpdatesAreSealed /\ SavesAreSealed
  <1>1. Init => Sealed
    BY DEF Init, UpdatesAreSealed, SavesAreSealed, Updates
  <1>2. TypeOK /\ Sealed /\ [Next]_vars => Sealed'
    <2> SUFFICES ASSUME TypeOK, Sealed, [Next]_vars PROVE Sealed'
      OBVIOUS
    <2>1. ASSUME NEW c \in Calls, pc[c] = "save"
          PROVE  EncryptionRequired => Mutated(c).encrypted
      BY <2>1 DEF SavesAreSealed, Insecure, Mutated
    <2>2. Updates(InitialSession) = <<>> \/ InitialSession = NoSession
      BY DEF Updates, InitialSession
    <2>3. UpdatesAreSealed'
      <3>1. \/ store' = store \/ store' = InitialSession \/ store' = NoSession
            \/ \E c \in Calls : pc[c] = "save" /\ store' = Mutated(c)
        BY DEF Next, Step, Disturb, vars, LoadFound, LoadAbsent, Create, Fallback, Run,
               Save, Fail, CreateReplyLost, SaveReplyLost, Delete, CompareAndSet
      <3> QED
        BY <2>1, <2>2, <3>1 DEF UpdatesAreSealed, Updates
    <2>4. SavesAreSealed'
      BY DEF SavesAreSealed, Next, Step, Disturb, vars, LoadFound, LoadAbsent, Create,
             Fallback, Run, Save, Fail, CreateReplyLost, SaveReplyLost, Delete,
             TypeOK, Goto, Insecure
    <2> QED
      BY <2>3, <2>4
  <1> QED
    BY <1>1, <1>2, TypesAndVersions, PTL DEF Spec

-------------------------------------------------------------------------------
\* A save that compareAndSet accepts replaces a session with the version that
\* the call loaded: version 0, the key being absent, is never expected here.
LEMMA AcceptedSave ==
  ASSUME TypeOK, VersionsCount, NEW c \in Calls, pc[c] = "save",
         CasOk(store, current[c].version)
  PROVE  /\ store # NoSession
         /\ store.version = current[c].version
         /\ Mutated(c) # NoSession
         /\ Mutated(c).version = store.version + 1
  <1>1. current[c] # NoSession /\ Counts(current[c])
    BY DEF VersionsCount
  <1>2. current[c].log \in Seq(Calls)
    BY <1>1 DEF TypeOK, Envelope
  <1>3. current[c].version # 0
    BY <1>1, <1>2 DEF Counts
  <1> QED
    BY <1>1, <1>3, EnvelopeLemma DEF CasOk

\* While the key has not been deleted, every step keeps each call's session in
\* step with the stored one, and pays for each lost race with an update.
LEMMA KeepsUp ==
  ASSUME IInv, TypeOK', VersionsCount', [Next]_vars, deletes = 0, deletes' = 0
  PROVE  /\ \A d \in Calls : NotAhead(d)' /\ AttemptsPaid(d)'
         /\ ConflictMeansContention'
  <1> DEFINE Goal == /\ \A d \in Calls : NotAhead(d)' /\ AttemptsPaid(d)'
                     /\ ConflictMeansContention'
  <1> SUFFICES Goal
    OBVIOUS
  <1> USE SessionManagerAssumption
  <1>0. /\ TypeOK /\ VersionsCount
        /\ \A d \in Calls : NotAhead(d) /\ AttemptsPaid(d)
        /\ ConflictMeansContention
    BY DEF IInv
  <1>a. store # NoSession => store.version \in Nat \ {0}
    BY <1>0 DEF TypeOK, Envelope, VersionsCount, Counts
  <1>b. ASSUME NEW d \in Calls
        PROVE  /\ attempt[d] \in 1 .. ConflictRetries + 1
               /\ pc[d] \in {"run", "save"} => current[d].version \in Nat \ {0}
    BY <1>0 DEF TypeOK, Envelope, VersionsCount, Counts
  <1>1. CASE UNCHANGED vars
    BY <1>0, <1>1 DEF vars, NotAhead, AttemptsPaid, ConflictMeansContention
  <1>2. ASSUME NEW c \in Calls, LoadFound(c) PROVE Goal
    BY <1>0, <1>a, <1>b, <1>2
    DEF LoadFound, Goto, TypeOK, NotAhead, AttemptsPaid, ConflictMeansContention
  <1>3. ASSUME NEW c \in Calls, LoadAbsent(c) PROVE Goal
    BY <1>0, <1>3
    DEF LoadAbsent, Goto, TypeOK, NotAhead, AttemptsPaid, ConflictMeansContention
  <1>4. ASSUME NEW c \in Calls, Create(c) PROVE Goal
    <2>1. CASE CasOk(store, 0)
      <3>1. store = NoSession
        BY <1>0, <2>1 DEF CasOk, VersionsCount, Counts, TypeOK, Envelope
      <3>2. store' = InitialSession /\ InitialSession # NoSession /\ InitialSession.version = 1
        BY <1>4, <2>1, EnvelopeLemma, NoSessionAssumption DEF Create, CompareAndSet
      <3>3. \A d \in Calls : pc[d] \notin {"run", "save", "fallback", "conflict"}
        BY <1>0, <3>1 DEF NotAhead, AttemptsPaid, ConflictMeansContention
      <3>4. \A d \in Calls : pc[d] \in {"load", "create"} => attempt[d] = 1
        BY <1>0, <3>1 DEF AttemptsPaid
      <3> QED
        BY <1>0, <1>4, <2>1, <3>2, <3>3, <3>4
        DEF Create, Goto, TypeOK, NotAhead, AttemptsPaid, ConflictMeansContention
    <2>2. CASE ~CasOk(store, 0)
      BY <1>0, <1>4, <2>2
      DEF Create, CompareAndSet, CasOk, Goto, TypeOK, NotAhead, AttemptsPaid,
          ConflictMeansContention
    <2> QED BY <2>1, <2>2
  <1>5. ASSUME NEW c \in Calls, Fallback(c) PROVE Goal
    BY <1>0, <1>a, <1>b, <1>5
    DEF Fallback, Goto, TypeOK, NotAhead, AttemptsPaid, ConflictMeansContention
  <1>6. ASSUME NEW c \in Calls, Run(c) PROVE Goal
    BY <1>0, <1>6
    DEF Run, Goto, TypeOK, NotAhead, AttemptsPaid, ConflictMeansContention
  <1>7. ASSUME NEW c \in Calls, Save(c) PROVE Goal
    <2>1. CASE CasOk(store, current[c].version)
      <3>1. /\ store # NoSession
            /\ store' # NoSession
            /\ store'.version = store.version + 1
        BY <1>0, <1>7, <2>1, AcceptedSave DEF Save, CompareAndSet
      <3> QED
        BY <1>0, <1>a, <1>b, <1>7, <2>1, <3>1
        DEF Save, Goto, TypeOK, NotAhead, AttemptsPaid, ConflictMeansContention
    <2>2. CASE ~CasOk(store, current[c].version)
      <3>1. store' = store /\ store # NoSession /\ current[c].version < store.version
        BY <1>0, <1>a, <1>b, <1>7, <2>2 DEF Save, CompareAndSet, CasOk, NotAhead, VersionsCount
      <3> QED
        BY <1>0, <1>a, <1>b, <1>7, <2>2, <3>1
        DEF Save, RetriesLeft, Goto, TypeOK, NotAhead, AttemptsPaid,
            ConflictMeansContention
    <2> QED BY <2>1, <2>2
  <1>8. ASSUME NEW c \in Calls, Fail(c) PROVE Goal
    BY <1>0, <1>8
    DEF Fail, Goto, TypeOK, NotAhead, AttemptsPaid, ConflictMeansContention
  <1>9. ASSUME NEW c \in Calls, CreateReplyLost(c) PROVE Goal
    <2>1. store = NoSession
      BY <1>0, <1>9 DEF CreateReplyLost, CasOk, VersionsCount, Counts, TypeOK, Envelope
    <2>2. store' # NoSession /\ store'.version = 1
      BY <1>9, EnvelopeLemma, NoSessionAssumption DEF CreateReplyLost
    <2>3. \A d \in Calls : pc[d] \notin {"run", "save", "fallback", "conflict"}
      BY <1>0, <2>1 DEF NotAhead, AttemptsPaid, ConflictMeansContention
    <2>4. \A d \in Calls : pc[d] \in {"load", "create"} => attempt[d] = 1
      BY <1>0, <2>1 DEF AttemptsPaid
    <2> QED
      BY <1>0, <1>9, <2>2, <2>3, <2>4
      DEF CreateReplyLost, Goto, TypeOK, NotAhead, AttemptsPaid, ConflictMeansContention
  <1>10. ASSUME NEW c \in Calls, SaveReplyLost(c) PROVE Goal
    <2>1. /\ store # NoSession
          /\ store.version = current[c].version
          /\ store' # NoSession
          /\ store'.version = store.version + 1
      BY <1>0, <1>10, AcceptedSave DEF SaveReplyLost
    <2> QED
      BY <1>0, <1>a, <1>b, <1>10, <2>1
      DEF SaveReplyLost, Goto, TypeOK, NotAhead, AttemptsPaid, ConflictMeansContention
  <1>11. CASE Delete
    BY <1>11 DEF Delete
  <1> QED
    BY <1>1, <1>2, <1>3, <1>4, <1>5, <1>6, <1>7, <1>8, <1>9, <1>10, <1>11
    DEF Next, Step, Disturb

\* IInv is inductive: deletions only make its conditional parts vacuous.
LEMMA Invariance == Spec => []IInv
  <1>1. Init => IInv
    BY SessionManagerAssumption
    DEF Init, IInv, TypeOK, VersionsCount, NotAhead, AttemptsPaid,
        ConflictMeansContention, Active, UpdatesAreSealed, SavesAreSealed, Updates
  <1> DEFINE Others == TypeOK /\ VersionsCount /\ UpdatesAreSealed /\ SavesAreSealed
  <1>2. Others' /\ IInv /\ [Next]_vars => IInv'
    <2> SUFFICES ASSUME Others', IInv, [Next]_vars
                 PROVE  IInv'
      OBVIOUS
    <2>1. deletes \in Nat /\ deletes' \in Nat
      BY SessionManagerAssumption DEF IInv, TypeOK
    <2>2. CASE deletes' = 0
      <3>1. deletes = 0
        BY <2>1, <2>2
        DEF Next, Step, Disturb, vars, LoadFound, LoadAbsent, Create, Fallback, Run,
            Save, Fail, CreateReplyLost, SaveReplyLost, Delete
      <3> QED
        BY <2>2, <3>1, KeepsUp DEF IInv
    <2>3. CASE deletes' > 0
      BY <2>3 DEF IInv, ConflictMeansContention
    <2> QED
      BY <2>1, <2>2, <2>3
  <1> QED
    BY <1>1, <1>2, TypesAndVersions, UpdatesSealed, PTL DEF Spec

\* A call throws SessionConflictError only after losing ConflictRetries + 1
\* races to updates that are in the session, or because the key was deleted.
THEOREM ConflictsAreContention == Spec => []ConflictMeansContention
  BY Invariance, PTL DEF IInv

\* Until the key is deleted, the CAS loop of runInSession never overwrites a session it
\* has not seen: every replacement appends one update to what was there.
THEOREM NoSilentOverwrite == Spec => NoOverwrite
  <1> DEFINE Extends ==
        deletes = 0 /\ store # NoSession /\ store' # NoSession =>
          \E c \in Calls : store' = [version   |-> store.version + 1,
                                   log       |-> Append(store.log, c),
                                   encrypted |-> store'.encrypted]
  <1>1. IInv /\ [Next]_vars => [Extends]_store
    <2> SUFFICES ASSUME IInv, [Next]_vars, store' # store,
                        deletes = 0, store # NoSession, store' # NoSession
                 PROVE  Extends
      OBVIOUS
    <2>1. /\ TypeOK /\ VersionsCount
          /\ \A d \in Calls : NotAhead(d)
      BY DEF IInv
    <2>2. ~CasOk(store, 0)
      BY <2>1 DEF CasOk, VersionsCount, Counts, TypeOK, Envelope
    <2>3. PICK c \in Calls : /\ pc[c] = "save"
                            /\ CasOk(store, current[c].version)
                            /\ store' = Mutated(c)
      BY <2>2
      DEF Next, Step, Disturb, vars, LoadFound, LoadAbsent, Create, Fallback, Run,
          Save, Fail, CreateReplyLost, SaveReplyLost, Delete, CompareAndSet
    <2>4. current[c] = store
      BY <2>1, <2>3, AcceptedSave DEF NotAhead
    <2> QED
      BY <2>3, <2>4 DEF Mutated
  <1> QED
    BY <1>1, Invariance, PTL DEF Spec, NoOverwrite

-------------------------------------------------------------------------------
\* What the callers have been told, the refinement mapping of outcome.
Told == [d \in Calls |-> Outcome(pc[d])]

\* A call that moves inside runInSession tells nothing, one that ends tells its
\* outcome.
LEMMA Telling ==
  ASSUME pc \in [Calls -> Active \cup Ended], NEW c \in Calls, pc[c] \in Active,
         NEW label \in Active \cup Ended, Goto(c, label)
  PROVE  /\ Told[c] = "pending"
         /\ label \in Active => Told' = Told
         /\ label \in Ended => Told' = [Told EXCEPT ![c] = label]
  BY DEF Told, Outcome, Goto, Active, Ended

\* Without deletions and resent commands, the interleaved loads, runners and
\* compareAndSets of runInSession implement atomic, at most once updates whose
\* outcome the caller is told.
THEOREM Refinement ==
  ASSUME MaxDeletes = 0, MaxResends = 0
  PROVE  Spec => ImplementsAtomicSession
  <1> DEFINE Abs == [Atomic!Next]_(Atomic!vars)
  <1>1. Init => Atomic!Init
    BY DEF Init, Atomic!Init, Updates, Outcome, Ended
  <1>2. IInv /\ [Next]_vars => Abs
    <2> SUFFICES ASSUME IInv, [Next]_vars PROVE Abs
      OBVIOUS
    <2>1. /\ TypeOK /\ VersionsCount
          /\ \A d \in Calls : NotAhead(d)
          /\ pc \in [Calls -> Active \cup Ended]
      BY SessionManagerAssumption DEF IInv, TypeOK
    <2>2. ASSUME NEW c \in Calls, NEW label \in Active, pc[c] \in Active,
                 Goto(c, label), Updates(store)' = Updates(store)
          PROVE  Abs
      BY <2>1, <2>2, Telling DEF Atomic!vars, Told
    <2>3. ASSUME NEW c \in Calls, NEW label \in {"conflict", "failed"}, pc[c] \in Active,
                 Goto(c, label), Updates(store)' = Updates(store)
          PROVE  Abs
      <3>1. Told[c] = "pending" /\ Told' = [Told EXCEPT ![c] = label]
        BY <2>1, <2>3, Telling DEF Ended
      <3> QED
        BY <2>3, <3>1 DEF Told, Atomic!Next, Atomic!Refuse, Atomic!Report
    <2>4. ASSUME NEW c \in Calls, NEW label \in {"saved", "failed"}, pc[c] = "save",
                 CasOk(store, current[c].version), store' = Mutated(c), Goto(c, label)
          PROVE  Abs
      <3>1. Told[c] = "pending" /\ Told' = [Told EXCEPT ![c] = label]
        BY <2>1, <2>4, Telling DEF Active, Ended
      <3>2. current[c] = store /\ store # NoSession /\ Mutated(c) # NoSession
        BY <2>1, <2>4, AcceptedSave DEF NotAhead
      <3>3. Updates(store)' = Append(Updates(store), c)
        BY <2>4, <3>2 DEF Updates, Mutated
      <3> QED
        BY <2>4, <3>1, <3>3 DEF Told, Atomic!Next, Atomic!Apply, Atomic!Report
    <2>5. CASE UNCHANGED vars
      BY <2>5 DEF vars, Atomic!vars, Updates, Outcome
    <2>6. ASSUME NEW c \in Calls, LoadFound(c) PROVE Abs
      BY <2>2, <2>3, <2>6 DEF LoadFound, Active, Updates
    <2>7. ASSUME NEW c \in Calls, LoadAbsent(c) PROVE Abs
      BY <2>2, <2>7 DEF LoadAbsent, Active, Updates
    <2>8. ASSUME NEW c \in Calls, Create(c) PROVE Abs
      <3>1. Updates(store)' = Updates(store)
        BY <2>1, <2>8, EnvelopeLemma, NoSessionAssumption
        DEF Create, CompareAndSet, CasOk, Updates, InitialSession, VersionsCount,
            Counts, TypeOK, Envelope
      <3> QED
        BY <2>2, <2>8, <3>1 DEF Create, Active
    <2>9. ASSUME NEW c \in Calls, Fallback(c) PROVE Abs
      BY <2>2, <2>3, <2>9 DEF Fallback, Active, Updates
    <2>10. ASSUME NEW c \in Calls, Run(c) PROVE Abs
      BY <2>2, <2>3, <2>10 DEF Run, Active, Updates
    <2>11. ASSUME NEW c \in Calls, Save(c) PROVE Abs
      BY <2>2, <2>3, <2>4, <2>11 DEF Save, CompareAndSet, Active, Updates
    <2>12. ASSUME NEW c \in Calls, Fail(c) PROVE Abs
      BY <2>3, <2>12 DEF Fail, Active, Updates
    <2>13. ASSUME NEW c \in Calls, CreateReplyLost(c) PROVE Abs
      <3>1. Updates(store)' = Updates(store)
        BY <2>1, <2>13, EnvelopeLemma, NoSessionAssumption
        DEF CreateReplyLost, CasOk, Updates, InitialSession, VersionsCount,
            Counts, TypeOK, Envelope
      <3> QED
        BY <2>3, <2>13, <3>1 DEF CreateReplyLost, Active
    <2>14. ASSUME NEW c \in Calls, SaveReplyLost(c) PROVE Abs
      <3>1. ~(resends[c] < MaxResends)
        BY <2>1 DEF TypeOK
      <3> QED
        BY <2>4, <2>14, <3>1 DEF SaveReplyLost
    <2>15. CASE Delete
      BY <2>1, <2>15, SessionManagerAssumption DEF Delete, TypeOK
    <2> QED
      BY <2>5, <2>6, <2>7, <2>8, <2>9, <2>10, <2>11, <2>12, <2>13, <2>14, <2>15
      DEF Next, Step, Disturb
  <1> QED
    BY <1>1, <1>2, Invariance, PTL DEF Spec, ImplementsAtomicSession, Atomic!Spec

-------------------------------------------------------------------------------
\* How often b is in s.
Occurrences(s, b) == Cardinality({i \in DOMAIN s : s[i] = b})

\* Appending an element counts it once more and no other element.
LEMMA AppendCounts ==
  ASSUME NEW S, NEW s \in Seq(S), NEW a \in S, NEW b \in S
  PROVE  /\ Occurrences(s, b) \in Nat
         /\ a = b => Occurrences(Append(s, a), b) = Occurrences(s, b) + 1
         /\ a # b => Occurrences(Append(s, a), b) = Occurrences(s, b)
  <1> DEFINE At(t) == {i \in DOMAIN t : t[i] = b}
  <1>1. IsFiniteSet(At(s)) /\ Cardinality(At(s)) \in Nat
    <2>1. IsFiniteSet(1 .. Len(s))
      BY FS_Interval
    <2>2. At(s) \subseteq 1 .. Len(s)
      OBVIOUS
    <2> QED
      BY <2>1, <2>2, FS_Subset, FS_CardinalityType
  <1>2. Len(s) + 1 \notin At(s)
    OBVIOUS
  <1>3. a = b => At(Append(s, a)) = At(s) \cup {Len(s) + 1}
    OBVIOUS
  <1>4. a # b => At(Append(s, a)) = At(s)
    OBVIOUS
  <1>5. a = b => Cardinality(At(Append(s, a))) = Cardinality(At(s)) + 1
    BY <1>1, <1>2, <1>3, FS_AddElement
  <1> QED
    BY <1>1, <1>4, <1>5 DEF Occurrences

\* The caller's view and the session agree until the key is deleted: an update is in the session exactly
\* once when runInSession resolved and never when it threw SessionConflictError,
\* up to the saves that the client sent again; nothing removes it later.
THEOREM OutcomesAreTrue == Spec => []OutcomeMatchesLog
  <1>1. Init => OutcomeMatchesLog
    <2> SUFFICES ASSUME Init PROVE OutcomeMatchesLog
      OBVIOUS
    <2>0. Updates(store) = <<>>
      BY DEF Init, Updates
    <2>1. \A c \in Calls : {i \in DOMAIN Updates(store) : Updates(store)[i] = c} = {}
      BY <2>0
    <2>2. \A c \in Calls : Applied(c) = 0
      BY <2>1, FS_EmptySet DEF Applied
    <2> QED
      BY <2>2 DEF Init, OutcomeMatchesLog, OutcomesTold, Active
  <1>2. IInv /\ OutcomeMatchesLog /\ [Next]_vars => OutcomeMatchesLog'
    <2> SUFFICES ASSUME IInv, OutcomeMatchesLog, [Next]_vars, deletes' = 0
                 PROVE  OutcomesTold'
      BY DEF OutcomeMatchesLog
    <2>d. deletes \in Nat
      BY SessionManagerAssumption DEF IInv, TypeOK
    <2>a. deletes = 0
      BY <2>d
      DEF Next, Step, Disturb, vars, LoadFound, LoadAbsent, Create, Fallback, Run,
          Save, Fail, CreateReplyLost, SaveReplyLost, Delete
    <2>o. OutcomesTold
      BY <2>a DEF OutcomeMatchesLog
    <2>1. /\ TypeOK /\ VersionsCount
          /\ \A d \in Calls : NotAhead(d)
          /\ pc \in [Calls -> Active \cup Ended]
          /\ resends \in [Calls -> Nat]
      BY <2>a, SessionManagerAssumption DEF IInv, TypeOK
    <2>2. Updates(store) \in Seq(Calls)
      BY <2>1 DEF TypeOK, Envelope, Updates
    <2>3. \A d \in Calls : Applied(d) = Occurrences(Updates(store), d)
      BY DEF Applied, Occurrences
    <2>4. \A d \in Calls : Applied(d)' = Occurrences(Updates(store)', d)
      BY DEF Applied, Occurrences
    <2>5. \A d \in Calls : Applied(d) \in Nat
      BY <2>2, <2>3, AppendCounts
    <2>6. ASSUME NEW c \in Calls, NEW label \in Active \cup {"conflict", "failed"},
                 pc[c] \in Active, Goto(c, label), UNCHANGED resends,
                 Updates(store)' = Updates(store)
          PROVE  OutcomesTold'
      <3>1. \A d \in Calls : Applied(d)' = Applied(d)
        BY <2>3, <2>4, <2>6
      <3> QED
        BY <2>o, <2>1, <2>5, <2>6, <3>1 DEF OutcomesTold, Goto, Active, Ended
    <2>7. ASSUME NEW c \in Calls, pc[c] = "save",
                 CasOk(store, current[c].version), store' = Mutated(c)
          PROVE  /\ Applied(c)' = Applied(c) + 1
                 /\ \A d \in Calls \ {c} : Applied(d)' = Applied(d)
      <3>1. current[c] = store /\ store # NoSession /\ Mutated(c) # NoSession
        BY <2>1, <2>7, AcceptedSave DEF NotAhead
      <3>2. Updates(store)' = Append(Updates(store), c)
        BY <2>7, <3>1 DEF Updates, Mutated
      <3> QED
        BY <2>2, <2>3, <2>4, <3>2, AppendCounts
    <2>8. ASSUME NEW c \in Calls, NEW label \in {"saved", "failed"}, pc[c] = "save",
                 CasOk(store, current[c].version), store' = Mutated(c),
                 Goto(c, label), UNCHANGED resends
          PROVE  OutcomesTold'
      <3>1. /\ Applied(c)' = Applied(c) + 1
            /\ \A d \in Calls \ {c} : Applied(d)' = Applied(d)
        BY <2>7, <2>8
      <3>2. Applied(c) = resends[c] /\ resends[c] \in Nat
        BY <2>o, <2>1, <2>8 DEF OutcomesTold, Active
      <3>3. pc'[c] = label /\ \A d \in Calls \ {c} : pc'[d] = pc[d]
        BY <2>1, <2>8 DEF Goto
      <3> QED
        BY <2>o, <2>8, <3>1, <3>2, <3>3 DEF OutcomesTold, Active
    <2>9. CASE UNCHANGED vars
      BY <2>o, <2>9 DEF vars, OutcomesTold, Applied, Updates
    <2>10. ASSUME NEW c \in Calls, LoadFound(c) PROVE OutcomesTold'
      BY <2>6, <2>10 DEF LoadFound, Active, Updates
    <2>11. ASSUME NEW c \in Calls, LoadAbsent(c) PROVE OutcomesTold'
      BY <2>6, <2>11 DEF LoadAbsent, Active, Updates
    <2>12. ASSUME NEW c \in Calls, Create(c) PROVE OutcomesTold'
      <3>1. Updates(store)' = Updates(store)
        BY <2>1, <2>12, EnvelopeLemma, NoSessionAssumption
        DEF Create, CompareAndSet, CasOk, Updates, InitialSession, VersionsCount,
            Counts, TypeOK, Envelope
      <3> QED
        BY <2>6, <2>12, <3>1 DEF Create, Active
    <2>13. ASSUME NEW c \in Calls, Fallback(c) PROVE OutcomesTold'
      BY <2>6, <2>13 DEF Fallback, Active, Updates
    <2>14. ASSUME NEW c \in Calls, Run(c) PROVE OutcomesTold'
      BY <2>6, <2>14 DEF Run, Active, Updates
    <2>15. ASSUME NEW c \in Calls, Save(c) PROVE OutcomesTold'
      BY <2>6, <2>8, <2>15 DEF Save, CompareAndSet, Active, Updates
    <2>16. ASSUME NEW c \in Calls, Fail(c) PROVE OutcomesTold'
      BY <2>6, <2>16 DEF Fail, Active, Updates
    <2>17. ASSUME NEW c \in Calls, CreateReplyLost(c) PROVE OutcomesTold'
      <3>1. Updates(store)' = Updates(store)
        BY <2>1, <2>17, EnvelopeLemma, NoSessionAssumption
        DEF CreateReplyLost, CasOk, Updates, InitialSession, VersionsCount,
            Counts, TypeOK, Envelope
      <3>2. CASE Goto(c, "failed")
        BY <2>6, <2>17, <3>1, <3>2 DEF CreateReplyLost, Active
      <3>3. CASE UNCHANGED pc
        <4>1. \A d \in Calls : Applied(d)' = Applied(d)
          BY <2>3, <2>4, <3>1
        <4> QED
          BY <2>o, <2>17, <3>3, <4>1 DEF CreateReplyLost, OutcomesTold
      <3> QED
        BY <2>17, <3>2, <3>3 DEF CreateReplyLost
    <2>18. ASSUME NEW c \in Calls, SaveReplyLost(c) PROVE OutcomesTold'
      <3>1. CASE Goto(c, "failed") /\ UNCHANGED resends
        BY <2>8, <2>18, <3>1 DEF SaveReplyLost
      <3>2. CASE resends' = [resends EXCEPT ![c] = @ + 1] /\ UNCHANGED pc
        BY <2>o, <2>1, <2>5, <2>7, <2>18, <3>2 DEF SaveReplyLost, OutcomesTold, Active
      <3> QED
        BY <2>18, <3>1, <3>2 DEF SaveReplyLost
    <2>19. CASE Delete
      BY <2>d, <2>19 DEF Delete
    <2> QED
      BY <2>9, <2>10, <2>11, <2>12, <2>13, <2>14, <2>15, <2>16, <2>17, <2>18, <2>19
      DEF Next, Step, Disturb
  <1> QED
    BY <1>1, <1>2, Invariance, PTL DEF Spec

LEMMA FirstNumbers ==
  ASSUME NEW n \in Nat
  PROVE  IsFiniteSet(1 .. n) /\ Cardinality(1 .. n) = n
  <1>1. 1 \in Int /\ n \in Int
    OBVIOUS
  <1>2. /\ IsFiniteSet(1 .. n)
        /\ Cardinality(1 .. n) = IF 1 > n THEN 0 ELSE n - 1 + 1
    BY <1>1, FS_Interval, Zenon
  <1> QED
    BY <1>2

\* A sequence in which no element occurs twice and which misses an element of a
\* finite set of size n is shorter than n.
LEMMA DistinctIsShort ==
  ASSUME NEW S, IsFiniteSet(S), NEW s \in Seq(S), NEW missing \in S,
         \A b \in S : Occurrences(s, b) <= 1, Occurrences(s, missing) = 0
  PROVE  Len(s) < Cardinality(S)
  <1> DEFINE At(b) == {i \in DOMAIN s : s[i] = b}
  <1>0. Len(s) \in Nat
    OBVIOUS
  <1>1. IsFiniteSet(1 .. Len(s)) /\ Cardinality(1 .. Len(s)) = Len(s)
    BY <1>0, FirstNumbers, Zenon
  <1>2. ASSUME NEW b PROVE IsFiniteSet(At(b)) /\ Cardinality(At(b)) \in Nat
    <2>1. At(b) \subseteq 1 .. Len(s)
      OBVIOUS
    <2> QED
      BY <1>1, <2>1, FS_Subset, FS_CardinalityType
  <1>3. \A i \in 1 .. Len(s) : s[i] \in S \ {missing}
    <2> SUFFICES ASSUME NEW i \in 1 .. Len(s), s[i] = missing PROVE FALSE
      OBVIOUS
    <2>1. At(missing) = {}
      BY <1>2, FS_EmptySet DEF Occurrences
    <2> QED
      BY <2>1
  <1>4. ASSUME NEW i \in 1 .. Len(s), NEW j \in 1 .. Len(s), s[i] = s[j], i # j
        PROVE  FALSE
    <2>1. PICK b \in S : b = s[i]
      BY <1>3
    <2>2. {i, j} \subseteq At(b)
      BY <1>4, <2>1
    <2>3. IsFiniteSet({i}) /\ Cardinality({i}) = 1
      BY FS_Singleton
    <2>4. Cardinality({i} \cup {j}) = Cardinality({i}) + 1
      <3>1. j \notin {i}
        BY <1>4
      <3> QED
        BY <2>3, <3>1, FS_AddElement
    <2>5. {i} \cup {j} = {i, j}
      OBVIOUS
    <2>6. Cardinality({i, j}) <= Cardinality(At(b))
      BY <1>2, <2>2, FS_Subset
    <2>7. Cardinality(At(b)) <= 1 /\ Cardinality(At(b)) \in Nat
      BY <1>2 DEF Occurrences
    <2>8. Cardinality({i, j}) = 1 + 1
      BY <2>3, <2>4, <2>5, Zenon
    <2> DEFINE two == Cardinality({i, j})
               all == Cardinality(At(b))
    <2>9. two = 1 + 1 /\ two <= all /\ all <= 1 /\ all \in Nat
      BY <2>6, <2>7, <2>8, Zenon
    <2> HIDE DEF two, all
    <2> QED
      BY <2>9
  <1>5. s \in Injection(1 .. Len(s), S \ {missing})
    BY <1>3, <1>4 DEF Injection, IsInjective
  <1>6. IsFiniteSet(S \ {missing}) /\ Cardinality(S \ {missing}) = Cardinality(S) - 1
    BY FS_RemoveElement
  <1>7. Len(s) <= Cardinality(S \ {missing})
    BY <1>1, <1>5, <1>6, FS_Injection
  <1> QED
    BY <1>6, <1>7, FS_CardinalityType

\* With conflictRetries at least the number of other calls, no call ever throws
\* SessionConflictError.
THEOREM EnoughRetries ==
  ASSUME IsFiniteSet(Calls)
  PROVE  Spec => []RetriesSuffice
  <1>1. CASE ~(/\ Cardinality(Calls) <= ConflictRetries + 1
               /\ MaxDeletes = 0
               /\ MaxResends = 0)
    <2>1. RetriesSuffice
      BY <1>1 DEF RetriesSuffice
    <2> QED
      BY <2>1, PTL
  <1>2. CASE /\ Cardinality(Calls) <= ConflictRetries + 1
             /\ MaxDeletes = 0
             /\ MaxResends = 0
    <2>1. IInv /\ OutcomeMatchesLog => RetriesSuffice
      <3> SUFFICES ASSUME IInv, OutcomeMatchesLog, NEW c \in Calls, pc[c] = "conflict"
                   PROVE  FALSE
        BY DEF RetriesSuffice
      <3>1. TypeOK /\ VersionsCount /\ ConflictMeansContention
        BY DEF IInv
      <3>2. deletes = 0 /\ resends = [d \in Calls |-> 0]
        BY <1>2, <3>1 DEF TypeOK
      <3>3. /\ store # NoSession
            /\ store.version >= ConflictRetries + 2
            /\ store.version = Len(store.log) + 1
            /\ store.log \in Seq(Calls)
            /\ Updates(store) = store.log
        BY <3>1, <3>2
        DEF ConflictMeansContention, VersionsCount, Counts, TypeOK, Envelope, Updates
      <3>4. \A d \in Calls : Applied(d) = Occurrences(store.log, d)
        BY <3>3 DEF Applied, Occurrences
      <3>5. \A d \in Calls : Applied(d) \in {0, 1}
        <4> SUFFICES ASSUME NEW d \in Calls PROVE Applied(d) \in {0, 1}
          OBVIOUS
        <4>1. pc[d] \in Active \cup Ended
          BY <3>1 DEF TypeOK
        <4>2. resends[d] = 0
          BY <3>2
        <4> QED
          BY <3>2, <4>1, <4>2 DEF OutcomeMatchesLog, OutcomesTold, Active, Ended
      <3>6. Applied(c) = 0
        BY <3>2 DEF OutcomeMatchesLog, OutcomesTold
      <3>7. Len(store.log) < Cardinality(Calls)
        BY <3>3, <3>4, <3>5, <3>6, DistinctIsShort
      <3> QED
        BY <1>2, <3>3, <3>7, SessionManagerAssumption, FS_CardinalityType
    <2>2. Spec => []OutcomeMatchesLog
      BY OutcomesAreTrue
    <2> QED
      BY <2>1, <2>2, Invariance, PTL
  <1> QED
    BY <1>1, <1>2
===============================================================================
