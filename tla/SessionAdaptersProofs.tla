------------------------- MODULE SessionAdaptersProofs ------------------------
(***************************************************************************)
(* What compareAndSet of every adapter guarantees, for any number of calls *)
(* and any number of deletions, updates by the mini app and errors.        *)
(***************************************************************************)
EXTENDS SessionAdapters, TLAPS

\* The version a compareAndSet must expect.
Version(session) == IF session = NoSession THEN 0 ELSE session.version

\* Stored sessions count from 1.
Numbered(session) == session \in Envelope \cup {NoSession} /\ (session # NoSession => session.version > 0)

Requests == [expected: Nat, next: Envelope]

\* What a call has asked for.
Requested(c) ==
  /\ pc[c] \in {"read", "cas"} => request[c] = NoRequest
  /\ pc[c] \notin {"read", "cas"} =>
       /\ request[c] \in Requests
       /\ request[c].next.version = request[c].expected + 1

\* Only a failsafe has a second store, and the mini app has a session in its hands
\* only after it has begun.
Structure ==
  /\ TypeOK
  /\ Numbered(cell) /\ Numbered(previous) /\ Numbered(memory)
  /\ \A c \in Calls : Numbered(loaded[c]) /\ Requested(c)
  /\ bridge # Idle => bridges > 0 /\ bridge.session # NoSession /\ Numbered(bridge.session)
  /\ adapter # "failsafe" => fallback = "off"

LEMMA SessionLemma ==
  ASSUME NEW session, Numbered(session)
  PROVE  /\ session \in Envelope \cup {NoSession}
         /\ Version(session) \in Nat
         /\ session = NoSession <=> Version(session) = 0
         /\ Updates(session) \in Seq(Calls)
         /\ \A expected \in Nat : CasOk(session, expected) <=> Version(session) = expected
  BY NoSessionAssumption DEF Numbered, Version, Envelope, CasOk, Updates

LEMMA RequestLemma ==
  ASSUME NEW r \in Requests, r.next.version = r.expected + 1
  PROVE  /\ r # NoRequest /\ r.expected \in Nat
         /\ Numbered(r.next) /\ r.next # NoSession
         /\ Version(r.next) = r.expected + 1
  <1>1. r.expected \in Nat /\ r.next \in Envelope
    BY DEF Requests
  <1>2. r.next # NoSession /\ r # NoRequest
    BY <1>1, NoSessionAssumption, SessionAdaptersAssumption DEF Requests
  <1> QED
    BY <1>1, <1>2 DEF Numbered, Version, Envelope

\* What a call asks for: a session one version and one update ahead of what it loaded.
LEMMA AskLemma ==
  ASSUME NEW c \in Calls, Numbered(loaded[c])
  PROVE  LET r == [expected |-> Expected(c), next |-> NextValue(c)]
         IN  /\ r \in Requests
             /\ r.expected = Version(loaded[c])
             /\ r.next.version = r.expected + 1
             /\ r.next.log = Append(Updates(loaded[c]), c)
  <1>1. Expected(c) = Version(loaded[c]) /\ Expected(c) \in Nat
    BY SessionLemma DEF Expected, Version
  <1>2. Append(Updates(loaded[c]), c) \in Seq(Calls)
    BY SessionLemma
  <1>3. NextValue(c) \in Envelope
    BY <1>1, <1>2 DEF NextValue, Envelope
  <1> QED
    BY <1>1, <1>3 DEF NextValue, Requests

LEMMA MemoryLemma ==
  ASSUME Numbered(memory), NEW r \in Requests, r.next.version = r.expected + 1
  PROVE  Numbered(CompareAndSet(memory, r.expected, r.next))
  BY RequestLemma DEF CompareAndSet

-------------------------------------------------------------------------------
(* Structure.                                                              *)

Labels == {"read", "cas", "send", "get", "exec", "reread", "ok", "refused"}

\* A step that changes a call's place after its request, and neither its request
\* nor what it has loaded.
LEMMA MovePreserves ==
  ASSUME Structure, NEW c \in Calls, NEW label \in Labels \ {"read", "cas"},
         pc[c] \notin {"read", "cas"}, Goto(c, label),
         UNCHANGED <<adapter, loaded, request, bridge, bridges, deletes, source>>,
         Numbered(cell'), Numbered(previous'), Numbered(memory'),
         touched' \subseteq Calls, contended' \subseteq Calls,
         faults' \in Nat, fallback' \in {"off", "on", "due"},
         adapter # "failsafe" => fallback' = "off",
         decider' \in [Calls -> {"database", "memory"}]
  PROVE  Structure'
  <1>1. pc' \in [Calls -> Labels]
    BY DEF Structure, TypeOK, Goto, Labels
  <1>2. TypeOK'
    BY <1>1 DEF Structure, TypeOK, Labels, Numbered
  <1>3. \A d \in Calls : Numbered(loaded'[d])
    BY DEF Structure
  <1>4. \A d \in Calls : Requested(d)'
    BY <1>1 DEF Structure, TypeOK, Requested, Goto, Labels
  <1>5. (bridge # Idle => bridges > 0 /\ bridge.session # NoSession /\ Numbered(bridge.session))'
    BY DEF Structure, Idle
  <1> QED
    BY <1>2, <1>3, <1>4, <1>5 DEF Structure

\* A step that moves no call.
LEMMA StayPreserves ==
  ASSUME Structure,
         UNCHANGED <<adapter, pc, loaded, request, source, decider, faults>>,
         Numbered(cell'), Numbered(previous'), Numbered(memory'),
         touched' \subseteq Calls, contended' \subseteq Calls,
         fallback' \in {"off", "on", "due"},
         adapter # "failsafe" => fallback' = "off",
         deletes' \in Nat, bridges' \in Nat,
         bridge' # Idle =>
           bridges' > 0 /\ bridge'.session # NoSession /\ Numbered(bridge'.session)
  PROVE  Structure'
  <1>1. TypeOK'
    BY DEF Structure, TypeOK, Numbered
  <1>2. \A d \in Calls : Numbered(loaded'[d]) /\ Requested(d)'
    BY DEF Structure, Requested
  <1> QED
    BY <1>1, <1>2 DEF Structure, Idle

\* A step that gives a call something it has loaded.
LEMMA LoadPreserves ==
  ASSUME Structure, NEW c \in Calls, NEW value, Numbered(value),
         \/ pc[c] = "read" /\ Goto(c, "cas")
         \/ pc[c] = "reread" /\ Goto(c, "refused"),
         loaded' = [loaded EXCEPT ![c] = value],
         UNCHANGED <<adapter, cell, previous, touched, contended, request, bridge,
                     memory, decider, deletes, bridges>>,
         faults' \in Nat, fallback' \in {"off", "on", "due"},
         adapter # "failsafe" => fallback' = "off",
         source' \in [Calls -> {"database", "memory"}]
  PROVE  Structure'
  <1>0. value \in Envelope \cup {NoSession}
    BY SessionLemma
  <1>1. pc' \in [Calls -> Labels]
    BY DEF Structure, TypeOK, Goto, Labels
  <1>2. loaded' \in [Calls -> Envelope \cup {NoSession}]
    BY <1>0 DEF Structure, TypeOK
  <1>3. TypeOK'
    BY <1>1, <1>2 DEF Structure, TypeOK, Labels
  <1>4. \A d \in Calls : Numbered(loaded'[d])
    BY DEF Structure, TypeOK
  <1>5. \A d \in Calls : Requested(d)'
    BY <1>1 DEF Structure, TypeOK, Requested, Goto, Labels
  <1> QED
    BY <1>3, <1>4, <1>5 DEF Structure, Idle

\* A step in which a call asks.
LEMMA AskPreserves ==
  ASSUME Structure, NEW c \in Calls, NEW label \in {"send", "ok", "refused"},
         pc[c] = "cas", Goto(c, label), Ask(c),
         UNCHANGED <<adapter, cell, previous, touched, contended, loaded, bridge,
                     source, faults, deletes, bridges>>,
         Numbered(memory'), fallback' \in {"off", "on", "due"},
         adapter # "failsafe" => fallback' = "off",
         decider' \in [Calls -> {"database", "memory"}]
  PROVE  Structure'
  <1> DEFINE r == [expected |-> Expected(c), next |-> NextValue(c)]
  <1>0. r \in Requests /\ r.next.version = r.expected + 1
    BY AskLemma DEF Structure
  <1> HIDE DEF r
  <1>1. pc' \in [Calls -> Labels] /\ pc' = [pc EXCEPT ![c] = label]
    BY DEF Structure, TypeOK, Goto, Labels
  <1>2. request' = [request EXCEPT ![c] = r]
    BY DEF Ask, r
  <1>3. request' \in [Calls -> Requests \cup {NoRequest}]
    BY <1>0, <1>2 DEF Structure, TypeOK, Requests
  <1>4. TypeOK'
    BY <1>1, <1>3 DEF Structure, TypeOK, Labels, Numbered, Requests
  <1>5. ASSUME NEW d \in Calls PROVE Requested(d)'
    <2>1. CASE d = c
      BY <1>0, <1>1, <1>2, <2>1 DEF Structure, TypeOK, Requested
    <2>2. CASE d # c
      BY <1>1, <1>2, <2>2 DEF Structure, TypeOK, Requested
    <2> QED
      BY <2>1, <2>2
  <1>6. \A d \in Calls : Numbered(loaded'[d])
    BY DEF Structure
  <1> QED
    BY <1>4, <1>5, <1>6 DEF Structure, Idle

\* What MemorySessionStorage does to types.
LEMMA MemoryCasLemma ==
  ASSUME Structure, NEW c \in Calls, NEW r \in Requests,
         r.next.version = r.expected + 1, MemoryCas(c, r)
  PROVE  /\ Numbered(memory')
         /\ decider' \in [Calls -> {"database", "memory"}]
         /\ Goto(c, "ok") \/ Goto(c, "refused")
  BY MemoryLemma DEF MemoryCas, Structure, TypeOK

LEMMA Effect ==
  ASSUME Structure, NEW c \in Calls, pc[c] \notin {"read", "cas"}
  PROVE  /\ request[c] \in Requests /\ request[c].next.version = request[c].expected + 1
         /\ Numbered(request[c].next)
  BY RequestLemma DEF Structure, Requested

LEMMA StructureInvariant == Spec => []Structure
  <1>1. Init => Structure
    <2> SUFFICES ASSUME Init PROVE Structure
      OBVIOUS
    <2>1. TypeOK
      BY DEF Init, TypeOK
    <2>2. Numbered(NoSession)
      BY DEF Numbered
    <2>3. \A c \in Calls : Numbered(loaded[c]) /\ Requested(c)
      BY <2>2 DEF Init, Requested
    <2> QED
      BY <2>1, <2>2, <2>3 DEF Init, Structure
  <1>2. Structure /\ [Next]_vars => Structure'
    <2> SUFFICES ASSUME Structure, [Next]_vars PROVE Structure'
      OBVIOUS
    <2>0. /\ touched \subseteq Calls /\ contended \subseteq Calls
          /\ Watching \subseteq Calls /\ Asking \subseteq Calls
          /\ faults \in Nat /\ fallback \in {"off", "on", "due"}
          /\ deletes \in Nat /\ bridges \in Nat
          /\ source \in [Calls -> {"database", "memory"}]
          /\ decider \in [Calls -> {"database", "memory"}]
          /\ Numbered(cell) /\ Numbered(previous) /\ Numbered(memory)
          /\ adapter # "failsafe" => fallback = "off"
          /\ Numbered(NoSession)
      BY DEF Structure, TypeOK, Watching, Asking, Numbered
    <2>1. CASE UNCHANGED vars
      BY <2>1, <2>0, StayPreserves DEF vars, failsafe, Structure
    <2>2. ASSUME NEW c \in Calls, Step(c) PROVE Structure'
      <3>1. CASE Read(c)
        <4>1. PICK value \in {cell, previous} : loaded' = [loaded EXCEPT ![c] = value]
          BY <3>1 DEF Read
        <4>2. Numbered(value)
          BY <2>0, <4>1
        <4> QED
          BY <3>1, <2>0, <4>1, <4>2, LoadPreserves DEF Read, NoWrite, Retried
      <3>2. CASE ReadFallback(c)
        <4>1. faults' \in Nat /\ source' \in [Calls -> {"database", "memory"}]
          BY <3>2, <2>0 DEF ReadFallback
        <4> QED
          BY <3>2, <2>0, <4>1, LoadPreserves DEF ReadFallback, NoWrite
      <3>3. CASE Call(c)
        BY <3>3, <2>0, AskPreserves DEF Call, NoWrite, Retried
      <3>4. CASE CallFallback(c)
        <4> DEFINE r == request'[c]
        <4>1. r = [expected |-> Expected(c), next |-> NextValue(c)]
          BY <3>4 DEF CallFallback, Ask, Structure, TypeOK
        <4>2. r \in Requests /\ r.next.version = r.expected + 1
          BY <4>1, AskLemma DEF Structure
        <4> HIDE DEF r
        <4>3. MemoryCas(c, r)
          BY <3>4 DEF CallFallback, r
        <4>4. /\ Numbered(memory') /\ decider' \in [Calls -> {"database", "memory"}]
              /\ Goto(c, "ok") \/ Goto(c, "refused")
          BY <4>2, <4>3, MemoryCasLemma
        <4> QED
          BY <3>4, <2>0, <4>4, AskPreserves DEF CallFallback, NoWrite
      <3>5. CASE Eval(c)
        <4>1. Numbered(request[c].next)
          BY <3>5, Effect DEF Eval
        <4>2. /\ Numbered(cell') /\ Numbered(previous')
              /\ touched' \subseteq Calls /\ contended' \subseteq Calls
          BY <3>5, <2>0, <4>1 DEF Eval, Write, NoWrite
        <4>3. Goto(c, "ok") \/ Goto(c, "refused")
          BY <3>5 DEF Eval
        <4> QED
          BY <3>5, <2>0, <4>2, <4>3, MovePreserves DEF Eval, failsafe, Labels
      <3>6. CASE EvalThrows(c)
        <4>1. /\ request[c] \in Requests /\ request[c].next.version = request[c].expected + 1
              /\ Numbered(request[c].next)
          BY <3>6, Effect DEF EvalThrows
        <4>2. /\ Numbered(cell') /\ Numbered(previous')
              /\ touched' \subseteq Calls /\ contended' \subseteq Calls
          BY <3>6, <2>0, <4>1 DEF EvalThrows, Write, NoWrite
        <4>3. /\ Numbered(memory') /\ decider' \in [Calls -> {"database", "memory"}]
              /\ Goto(c, "ok") \/ Goto(c, "refused")
          BY <3>6, <4>1, MemoryCasLemma DEF EvalThrows
        <4>4. faults' \in Nat /\ fallback' \in {"off", "on", "due"}
          BY <3>6, <2>0 DEF EvalThrows
        <4> QED
          BY <3>6, <4>2, <4>3, <4>4, MovePreserves DEF EvalThrows, Labels
      <3>7. CASE Watch(c)
        BY <3>7, <2>0, MovePreserves DEF Watch, failsafe, Labels
      <3>8. CASE WatchedGet(c)
        BY <3>8, <2>0, MovePreserves DEF WatchedGet, NoWrite, failsafe, Labels
      <3>9. CASE Exec(c)
        <4>1. Numbered(request[c].next)
          BY <3>9, Effect DEF Exec
        <4>2. /\ Numbered(cell') /\ Numbered(previous')
              /\ touched' \subseteq Calls /\ contended' \subseteq Calls
          BY <3>9, <2>0, <4>1 DEF Exec, Write, NoWrite
        <4>3. Goto(c, "ok") \/ Goto(c, "refused")
          BY <3>9 DEF Exec
        <4> QED
          BY <3>9, <2>0, <4>2, <4>3, MovePreserves DEF Exec, failsafe, Labels
      <3>10. CASE Conditional(c)
        <4>1. Numbered(request[c].next)
          BY <3>10, Effect DEF Conditional
        <4>2. /\ Numbered(cell') /\ Numbered(previous')
              /\ touched' \subseteq Calls /\ contended' \subseteq Calls
          BY <3>10, <2>0, <4>1 DEF Conditional, Write, NoWrite
        <4>3. Goto(c, "ok") \/ Goto(c, "reread")
          BY <3>10 DEF Conditional
        <4> QED
          BY <3>10, <2>0, <4>2, <4>3, MovePreserves DEF Conditional, failsafe, Labels
      <3>11. CASE Reread(c)
        <4>1. PICK value \in {cell, previous} : loaded' = [loaded EXCEPT ![c] = value]
          BY <3>11 DEF Reread
        <4>2. Numbered(value)
          BY <2>0, <4>1
        <4> QED
          BY <3>11, <2>0, <4>1, <4>2, LoadPreserves DEF Reread, NoWrite, failsafe
      <3> QED
        BY <2>2, <3>1, <3>2, <3>3, <3>4, <3>5, <3>6, <3>7, <3>8, <3>9, <3>10, <3>11
           DEF Step
    <2>3. CASE RetryDue
      <3>1. adapter = "failsafe"
        BY <2>3, <2>0 DEF RetryDue
      <3> QED
        BY <2>3, <2>0, <3>1, StayPreserves DEF RetryDue, NoWrite, Structure
    <2>4. CASE Delete
      <3>1. deletes' \in Nat /\ fallback' \in {"off", "on", "due"}
        BY <2>4, <2>0 DEF Delete, Retried
      <3> QED
        BY <2>4, <2>0, <3>1, StayPreserves DEF Delete, Write, Retried, Structure
    <2>5. CASE DeleteFallback
      <3>1. deletes' \in Nat
        BY <2>5, <2>0 DEF DeleteFallback
      <3> QED
        BY <2>5, <2>0, <3>1, StayPreserves DEF DeleteFallback, NoWrite, Structure
    <2>6. ASSUME NEW raw \in RawInitData, BridgeGet(raw) PROVE Structure'
      <3>1. PICK value \in {cell, previous} :
              value # NoSession /\ bridge' = [raw |-> raw, session |-> value]
        BY <2>6 DEF BridgeGet
      <3>2. bridge'.session # NoSession /\ Numbered(bridge'.session)
        BY <2>0, <3>1
      <3>3. bridges' \in Nat /\ bridges' > 0
        BY <2>6, <2>0 DEF BridgeGet
      <3> QED
        BY <2>6, <2>0, <3>2, <3>3, StayPreserves DEF BridgeGet, NoWrite, failsafe
    <2>7. CASE BridgeSet
      <3>1. Numbered(bridge.session)
        BY <2>7 DEF BridgeSet, Structure
      <3> QED
        BY <2>7, <2>0, <3>1, StayPreserves DEF BridgeSet, Write, failsafe
    <2> QED
      BY <2>1, <2>2, <2>3, <2>4, <2>5, <2>6, <2>7 DEF Next
  <1> QED
    BY <1>1, <1>2, PTL DEF Spec

\* The state keeps its types: whichever adapter, what is stored is a session or
\* nothing.
THEOREM TypeCorrect == Spec => []TypeOK
  <1>1. Structure => TypeOK
    BY DEF Structure
  <1> QED
    BY <1>1, StructureInvariant, PTL

-------------------------------------------------------------------------------
(* WATCH.                                                                  *)

\* As long as nobody has written the key since WATCH, what GET decided holds; and
\* whoever did is a competitor of the call.
Watched(c) ==
  /\ pc[c] = "exec" /\ c \notin touched => CasOk(cell, request[c].expected)
  /\ pc[c] \in {"get", "exec"} /\ c \in touched => c \in contended

AllWatched == \A c \in Calls : Watched(c)

LEMMA GotoLemma ==
  ASSUME Structure, NEW c \in Calls, NEW label, Goto(c, label)
  PROVE  /\ pc'[c] = label
         /\ \A d \in Calls : d # c => pc'[d] = pc[d]
  BY DEF Structure, TypeOK, Goto

\* The steps of a call that does not watch afterwards.
LEMMA WatchedElsewhere ==
  ASSUME AllWatched, NEW c \in Calls,
         \A d \in Calls : d # c => pc'[d] = pc[d] /\ request'[d] = request[d],
         pc'[c] \notin {"get", "exec"},
         NoWrite \/ \E value : Write(value, {c})
  PROVE  AllWatched'
  <1> SUFFICES ASSUME NEW d \in Calls PROVE Watched(d)'
    BY DEF AllWatched
  <1>1. CASE d = c
    BY <1>1 DEF Watched
  <1>2. CASE d # c /\ NoWrite
    BY <1>2 DEF AllWatched, Watched, NoWrite
  <1>3. CASE d # c /\ \E value : Write(value, {c})
    <2>1. pc[d] \in {"get", "exec"} => d \in touched' /\ d \in contended'
      BY <1>3 DEF Write, Watching, Asking
    <2> QED
      BY <1>3, <2>1 DEF Watched
  <1> QED
    BY <1>1, <1>2, <1>3

\* The steps that move no call.
LEMMA WatchedByAll ==
  ASSUME AllWatched, UNCHANGED <<pc, request>>, NoWrite \/ \E value : Write(value, {})
  PROVE  AllWatched'
  <1> SUFFICES ASSUME NEW d \in Calls PROVE Watched(d)'
    BY DEF AllWatched
  <1>1. CASE NoWrite
    BY <1>1 DEF AllWatched, Watched, NoWrite
  <1>2. CASE \E value : Write(value, {})
    <2>1. pc[d] \in {"get", "exec"} => d \in touched' /\ d \in contended'
      BY <1>2 DEF Write, Watching, Asking
    <2> QED
      BY <2>1 DEF Watched
  <1> QED
    BY <1>1, <1>2

LEMMA WatchedInvariant == Spec => []AllWatched
  <1>1. Init => AllWatched
    BY DEF Init, AllWatched, Watched
  <1>2. Structure /\ AllWatched /\ [Next]_vars => AllWatched'
    <2> SUFFICES ASSUME Structure, AllWatched, [Next]_vars PROVE AllWatched'
      OBVIOUS
    <2>1. CASE UNCHANGED vars
      BY <2>1, WatchedByAll DEF vars, NoWrite
    <2>2. ASSUME NEW c \in Calls, Step(c) PROVE AllWatched'
      <3>1. CASE Watch(c)
        <4>1. pc'[c] = "get" /\ \A d \in Calls : d # c => pc'[d] = pc[d]
          BY <3>1, GotoLemma DEF Watch
        <4>2. touched' = touched \ {c} /\ UNCHANGED <<cell, contended, request>>
          BY <3>1 DEF Watch
        <4> QED
          BY <4>1, <4>2 DEF AllWatched, Watched
      <3>2. CASE WatchedGet(c)
        <4>1. /\ pc'[c] = IF CasOk(cell, request[c].expected) THEN "exec" ELSE "refused"
              /\ \A d \in Calls : d # c => pc'[d] = pc[d]
          BY <3>2, GotoLemma DEF WatchedGet
        <4>2. UNCHANGED <<cell, touched, contended, request>> /\ pc[c] = "get"
          BY <3>2 DEF WatchedGet, NoWrite
        <4> QED
          BY <4>1, <4>2 DEF AllWatched, Watched
      <3>3. CASE ~(Watch(c) \/ WatchedGet(c))
        <4>1. \E label \in {"cas", "send", "ok", "refused", "reread"} : Goto(c, label)
          BY <2>2, <3>3 DEF Step, Read, Call, Eval, Exec, Conditional, Reread,
             ReadFallback, CallFallback, EvalThrows, MemoryCas
        <4>2. \A d \in Calls : d # c => request'[d] = request[d]
          BY <2>2, <3>3 DEF Step, Read, Call, Eval, Exec, Conditional, Reread,
             ReadFallback, CallFallback, EvalThrows, Ask, Structure, TypeOK
        <4>3. NoWrite \/ \E value : Write(value, {c})
          BY <2>2, <3>3 DEF Step, Read, Call, Eval, Exec, Conditional, Reread,
             ReadFallback, CallFallback, EvalThrows
        <4> QED
          BY <4>1, <4>2, <4>3, GotoLemma, WatchedElsewhere
      <3> QED
        BY <3>1, <3>2, <3>3
    <2>3. CASE RetryDue \/ DeleteFallback
      BY <2>3, WatchedByAll DEF RetryDue, DeleteFallback
    <2>4. CASE Delete
      BY <2>4, WatchedByAll DEF Delete
    <2>5. ASSUME NEW raw \in RawInitData, BridgeGet(raw) PROVE AllWatched'
      BY <2>5, WatchedByAll DEF BridgeGet
    <2>6. CASE BridgeSet
      BY <2>6, WatchedByAll DEF BridgeSet
    <2> QED
      BY <2>1, <2>2, <2>3, <2>4, <2>5, <2>6 DEF Next
  <1> QED
    BY <1>1, <1>2, StructureInvariant, PTL DEF Spec

-------------------------------------------------------------------------------
(* What a step does to the two stores, as long as nobody deletes the key and   *)
(* the mini app does not set it.                                           *)

\* An undisturbed step leaves the database alone, or writes what an asking call asked
\* for over a session of the version it expected.
DatabaseStep ==
  \/ /\ cell' = cell
     /\ \A c \in Calls : pc'[c] = "ok" => pc[c] = "ok" \/ decider'[c] = "memory"
  \/ \E c \in Calls :
       /\ pc[c] \in {"send", "exec"}
       /\ Version(cell) = request[c].expected
       /\ cell' = request[c].next
       /\ \A d \in Calls \ {c} : pc'[d] = pc[d]

\* The same of the memory of a failsafe, for what a call has asked for by then.
MemoryStep ==
  \/ /\ memory' = memory
     /\ \A c \in Calls : pc'[c] = "ok" => pc[c] = "ok" \/ decider'[c] = "database"
  \/ \E c \in Calls :
       /\ pc[c] \in {"cas", "send"} /\ pc'[c] = "ok"
       /\ Version(memory) = request'[c].expected
       /\ memory' = request'[c].next
       /\ \A d \in Calls \ {c} : pc'[d] = pc[d]

\* What a call asked for and how it was decided never changes again.
Steady ==
  \A c \in Calls :
    /\ pc[c] \notin {"read", "cas"} => request'[c] = request[c]
    /\ pc[c] = "ok" => pc'[c] = "ok" /\ decider'[c] = decider[c]

\* Until a call ends, its decider is the database.
Deciders == \A c \in Calls : pc[c] \notin {"ok", "refused"} => decider[c] = "database"

LEMMA SteadyLemma ==
  ASSUME Structure, Deciders, [Next]_vars
  PROVE  Steady /\ Deciders'
  <1>1. CASE UNCHANGED vars
    BY <1>1 DEF vars, failsafe, Steady, Deciders
  <1>2. ASSUME NEW c \in Calls, Step(c) PROVE Steady /\ Deciders'
    <2>1. CASE CallFallback(c) \/ EvalThrows(c)
      <3>1. \/ pc[c] = "cas" /\ request' = [request EXCEPT ![c] = request'[c]]
            \/ pc[c] = "send" /\ request' = request
        BY <2>1 DEF CallFallback, EvalThrows, Ask, Structure, TypeOK
      <3>2. /\ decider' = [decider EXCEPT ![c] = "memory"]
            /\ Goto(c, "ok") \/ Goto(c, "refused")
        BY <2>1 DEF CallFallback, EvalThrows, MemoryCas
      <3>3. pc'[c] \in {"ok", "refused"} /\ \A d \in Calls : d # c => pc'[d] = pc[d]
        BY <3>2, GotoLemma
      <3>4. \A d \in Calls : d # c => request'[d] = request[d] /\ decider'[d] = decider[d]
        BY <3>1, <3>2 DEF Structure, TypeOK
      <3> QED
        BY <3>1, <3>3, <3>4 DEF Steady, Deciders
    <2>2. CASE ~(CallFallback(c) \/ EvalThrows(c))
      <3>1. UNCHANGED decider
        BY <1>2, <2>2 DEF Step, Read, Call, Eval, Watch, WatchedGet, Exec, Conditional,
           Reread, ReadFallback, failsafe
      <3>2. pc[c] \notin {"ok", "refused"}
        BY <1>2, <2>2 DEF Step, Read, Call, Eval, Watch, WatchedGet, Exec, Conditional,
           Reread, ReadFallback
      <3>3. \E label \in Labels : Goto(c, label)
        BY <1>2, <2>2 DEF Step, Read, Call, Eval, Watch, WatchedGet, Exec, Conditional,
           Reread, ReadFallback, Labels
      <3>4. \A d \in Calls : d # c => pc'[d] = pc[d]
        BY <3>3, GotoLemma
      <3>5. /\ \A d \in Calls : d # c => request'[d] = request[d]
            /\ pc[c] \notin {"read", "cas"} => request'[c] = request[c]
        BY <1>2, <2>2 DEF Step, Read, Call, Eval, Watch, WatchedGet, Exec, Conditional,
           Reread, ReadFallback, Ask, Structure, TypeOK
      <3> QED
        BY <3>1, <3>2, <3>4, <3>5 DEF Steady, Deciders
    <2> QED
      BY <2>1, <2>2
  <1>3. CASE RetryDue \/ Delete \/ DeleteFallback
    BY <1>3 DEF RetryDue, Delete, DeleteFallback, Steady, Deciders
  <1>4. ASSUME NEW raw \in RawInitData, BridgeGet(raw) PROVE Steady /\ Deciders'
    BY <1>4 DEF BridgeGet, failsafe, Steady, Deciders
  <1>5. CASE BridgeSet
    BY <1>5 DEF BridgeSet, failsafe, Steady, Deciders
  <1> QED
    BY <1>1, <1>2, <1>3, <1>4, <1>5 DEF Next

\* A call that a database accepts within this step.
LEMMA AcceptedLemma ==
  ASSUME Structure, AllWatched, Deciders, NEW c \in Calls, pc[c] \in {"send", "exec"},
         UNCHANGED memory,
         \/ /\ CasOk(cell, request[c].expected)
            /\ Write(request[c].next, {c}) /\ Goto(c, "ok") /\ UNCHANGED decider
         \/ /\ NoWrite /\ UNCHANGED decider
            /\ \E label \in Labels \ {"ok"} : Goto(c, label)
  PROVE  DatabaseStep /\ MemoryStep
  <1>1. request[c].expected \in Nat
    BY Effect, RequestLemma
  <1>2. CasOk(cell, request[c].expected) <=> Version(cell) = request[c].expected
    BY <1>1, SessionLemma DEF Structure
  <1>3. CASE NoWrite /\ UNCHANGED decider /\ \E label \in Labels \ {"ok"} : Goto(c, label)
    <2>1. pc'[c] # "ok" /\ \A d \in Calls : d # c => pc'[d] = pc[d]
      BY <1>3, GotoLemma
    <2> QED
      BY <1>3, <2>1 DEF NoWrite, DatabaseStep, MemoryStep
  <1>4. CASE /\ CasOk(cell, request[c].expected)
             /\ Write(request[c].next, {c}) /\ Goto(c, "ok") /\ UNCHANGED decider
    <2>1. pc'[c] = "ok" /\ \A d \in Calls : d # c => pc'[d] = pc[d]
      BY <1>4, GotoLemma
    <2>2. DatabaseStep
      BY <1>2, <1>4, <2>1 DEF Write, DatabaseStep
    <2>3. decider'[c] = "database"
      BY <1>4 DEF Deciders
    <2>4. MemoryStep
      BY <2>1, <2>3 DEF MemoryStep
    <2> QED
      BY <2>2, <2>4
  <1> QED
    BY <1>3, <1>4

\* A call that MemorySessionStorage decides within this step.
LEMMA MemoryAcceptedLemma ==
  ASSUME Structure, NEW c \in Calls, pc[c] \in {"cas", "send"},
         request'[c] \in Requests, MemoryCas(c, request'[c])
  PROVE  /\ MemoryStep
         /\ decider'[c] = "memory"
         /\ \A d \in Calls : d # c => pc'[d] = pc[d]
  <1>1. CasOk(memory, request'[c].expected) <=> Version(memory) = request'[c].expected
    BY SessionLemma DEF Structure, Requests
  <1>2. /\ pc'[c] = IF CasOk(memory, request'[c].expected) THEN "ok" ELSE "refused"
        /\ \A d \in Calls : d # c => pc'[d] = pc[d]
    BY GotoLemma DEF MemoryCas
  <1>3. decider'[c] = "memory"
    BY DEF MemoryCas, Structure, TypeOK
  <1>4. memory' = IF CasOk(memory, request'[c].expected) THEN request'[c].next ELSE memory
    BY DEF MemoryCas, CompareAndSet
  <1>5. MemoryStep
    <2>1. CASE CasOk(memory, request'[c].expected)
      BY <1>1, <1>2, <1>4, <2>1 DEF MemoryStep
    <2>2. CASE ~CasOk(memory, request'[c].expected)
      BY <1>2, <1>4, <2>2 DEF MemoryStep
    <2> QED
      BY <2>1, <2>2
  <1> QED
    BY <1>2, <1>3, <1>5

LEMMA StoreSteps ==
  ASSUME Structure, AllWatched, Deciders, [Next]_vars, Undisturbed'
  PROVE  Undisturbed /\ DatabaseStep /\ MemoryStep
  <1>0. deletes \in Nat /\ bridges \in Nat
    BY DEF Structure, TypeOK
  <1>1. CASE UNCHANGED vars
    BY <1>1 DEF vars, failsafe, Undisturbed, DatabaseStep, MemoryStep
  <1>2. ASSUME NEW c \in Calls, Step(c)
        PROVE  Undisturbed /\ DatabaseStep /\ MemoryStep
    <2>0. Undisturbed
      BY <1>2 DEF Undisturbed, Step, Read, Call, Eval, Watch, WatchedGet, Exec,
         Conditional, Reread, ReadFallback, CallFallback, EvalThrows
    <2>1. CASE Read(c) \/ ReadFallback(c) \/ Call(c) \/ Watch(c) \/ WatchedGet(c)
               \/ Reread(c)
      <3>1. \E label \in Labels \ {"ok"} : Goto(c, label)
        BY <2>1 DEF Read, ReadFallback, Call, Watch, WatchedGet, Reread, Labels
      <3>2. pc'[c] # "ok" /\ \A d \in Calls : d # c => pc'[d] = pc[d]
        BY <3>1, GotoLemma
      <3>3. cell' = cell /\ memory' = memory
        BY <2>1 DEF Read, ReadFallback, Call, Watch, WatchedGet, Reread, NoWrite, failsafe
      <3> QED
        BY <2>0, <3>2, <3>3 DEF DatabaseStep, MemoryStep
    <2>2. CASE CallFallback(c)
      <3>1. request'[c] \in Requests
        BY <2>2, AskLemma DEF CallFallback, Ask, Structure, TypeOK
      <3>2. MemoryStep /\ decider'[c] = "memory" /\ \A d \in Calls : d # c => pc'[d] = pc[d]
        BY <2>2, <3>1, MemoryAcceptedLemma DEF CallFallback
      <3>3. DatabaseStep
        BY <2>2, <3>2 DEF CallFallback, NoWrite, DatabaseStep
      <3> QED
        BY <2>0, <3>2, <3>3
    <2>3. CASE EvalThrows(c)
      <3>0. pc[c] = "send" /\ request' = request /\ MemoryCas(c, request'[c])
        BY <2>3 DEF EvalThrows
      <3>1. request'[c] \in Requests
        BY <3>0, Effect
      <3>2. MemoryStep /\ decider'[c] = "memory" /\ \A d \in Calls : d # c => pc'[d] = pc[d]
        BY <3>0, <3>1, MemoryAcceptedLemma
      <3>3. CasOk(cell, request[c].expected) <=> Version(cell) = request[c].expected
        BY <3>0, <3>1, SessionLemma DEF Structure, Requests
      <3>4. CASE NoWrite
        BY <3>2, <3>4, <2>0 DEF NoWrite, DatabaseStep
      <3>5. CASE CasOk(cell, request[c].expected) /\ Write(request[c].next, {c})
        BY <2>0, <3>0, <3>2, <3>3, <3>5 DEF Write, DatabaseStep
      <3> QED
        BY <2>3, <3>4, <3>5 DEF EvalThrows
    <2>4. CASE Eval(c)
      BY <2>0, <2>4, AcceptedLemma DEF Eval, failsafe, Labels
    <2>5. CASE Conditional(c)
      BY <2>0, <2>5, AcceptedLemma DEF Conditional, failsafe, Labels
    <2>6. CASE Exec(c)
      <3>1. c \notin touched => CasOk(cell, request[c].expected)
        BY <2>6 DEF Exec, AllWatched, Watched
      <3> QED
        BY <2>0, <2>6, <3>1, AcceptedLemma DEF Exec, failsafe, Labels
    <2> QED
      BY <1>2, <2>1, <2>2, <2>3, <2>4, <2>5, <2>6 DEF Step
  <1>3. CASE RetryDue
    BY <1>3 DEF RetryDue, NoWrite, Undisturbed, DatabaseStep, MemoryStep
  <1>4. CASE Delete \/ DeleteFallback
    BY <1>0, <1>4 DEF Delete, DeleteFallback, Undisturbed
  <1>5. ASSUME NEW raw \in RawInitData, BridgeGet(raw) PROVE FALSE
    BY <1>0, <1>5 DEF BridgeGet, Undisturbed
  <1>6. CASE BridgeSet
    BY <1>0, <1>6 DEF BridgeSet, Structure, Undisturbed
  <1> QED
    BY <1>1, <1>2, <1>3, <1>4, <1>5, <1>6 DEF Next

-------------------------------------------------------------------------------
(* One winner per version.                                                 *)

\* Accepted calls expected less than their store holds by now.
Behind ==
  Undisturbed =>
    \A c \in Calls :
      pc[c] = "ok" =>
        /\ decider[c] = "database" => request[c].expected < Version(cell)
        /\ decider[c] = "memory" => request[c].expected < Version(memory)

Winners == AllWatched /\ Deciders /\ Behind /\ OneWinnerPerVersion

\* One store, whose version was v before a step and is w afterwards.
LEMMA OneStore ==
  ASSUME NEW store, NEW v \in Nat, NEW w \in Nat, Steady,
         \A c \in Calls : pc'[c] = "ok" => request'[c].expected \in Nat,
         \A c \in Calls : pc[c] = "ok" /\ decider[c] = store => request[c].expected < v,
         \A c, d \in Calls :
           pc[c] = "ok" /\ pc[d] = "ok" /\ c # d /\ decider[c] = store /\ decider[d] = store
             => request[c].expected # request[d].expected,
         \/ /\ w = v
            /\ \A c \in Calls : pc'[c] = "ok" => pc[c] = "ok" \/ decider'[c] # store
         \/ \E c \in Calls :
              /\ pc[c] # "ok" /\ v = request'[c].expected /\ w = v + 1
              /\ \A d \in Calls \ {c} : pc'[d] = pc[d]
  PROVE  /\ \A c \in Calls : pc'[c] = "ok" /\ decider'[c] = store => request'[c].expected < w
         /\ \A c, d \in Calls :
              pc'[c] = "ok" /\ pc'[d] = "ok" /\ c # d /\ decider'[c] = store /\ decider'[d] = store
                => request'[c].expected # request'[d].expected
  <1>1. CASE /\ w = v
             /\ \A c \in Calls : pc'[c] = "ok" => pc[c] = "ok" \/ decider'[c] # store
    <2>1. \A c \in Calls : pc'[c] = "ok" /\ decider'[c] = store =>
            pc[c] = "ok" /\ decider[c] = store /\ request'[c] = request[c]
      BY <1>1 DEF Steady
    <2> QED
      BY <1>1, <2>1
  <1>2. ASSUME NEW c \in Calls, pc[c] # "ok", v = request'[c].expected, w = v + 1,
               \A d \in Calls \ {c} : pc'[d] = pc[d]
        PROVE  /\ \A d \in Calls : pc'[d] = "ok" /\ decider'[d] = store => request'[d].expected < w
               /\ \A d, e \in Calls :
                    pc'[d] = "ok" /\ pc'[e] = "ok" /\ d # e /\ decider'[d] = store /\ decider'[e] = store
                      => request'[d].expected # request'[e].expected
    <2>1. \A d \in Calls : d # c /\ pc'[d] = "ok" /\ decider'[d] = store =>
            /\ pc[d] = "ok" /\ decider[d] = store /\ request'[d] = request[d]
            /\ request'[d].expected < v
      BY <1>2 DEF Steady
    <2> QED
      BY <1>2, <2>1
  <1> QED
    BY <1>1, <1>2

LEMMA WinnersStep ==
  ASSUME Structure, Structure', Winners, [Next]_vars, Undisturbed'
  PROVE  Behind' /\ OneWinnerPerVersion'
  <1>1. Undisturbed /\ DatabaseStep /\ MemoryStep /\ Steady
    BY StoreSteps, SteadyLemma DEF Winners
  <1>2. \A c \in Calls : decider'[c] \in {"database", "memory"}
    BY DEF Structure, TypeOK
  <1>3. /\ Version(cell) \in Nat /\ Version(memory) \in Nat
        /\ Version(cell') \in Nat /\ Version(memory') \in Nat
    BY SessionLemma DEF Structure
  <1>4. \A c \in Calls : pc'[c] = "ok" => request'[c].expected \in Nat
    BY RequestLemma DEF Structure, Requested
  <1>5. /\ \A c \in Calls : pc[c] = "ok" /\ decider[c] = "database" =>
             request[c].expected < Version(cell)
        /\ \A c \in Calls : pc[c] = "ok" /\ decider[c] = "memory" =>
             request[c].expected < Version(memory)
        /\ \A c, d \in Calls :
             pc[c] = "ok" /\ pc[d] = "ok" /\ c # d /\ decider[c] = decider[d] =>
               request[c].expected # request[d].expected
    BY <1>1 DEF Winners, Behind, OneWinnerPerVersion
  <1>6. \/ /\ Version(cell') = Version(cell)
           /\ \A c \in Calls : pc'[c] = "ok" => pc[c] = "ok" \/ decider'[c] # "database"
        \/ \E c \in Calls :
             /\ pc[c] # "ok" /\ Version(cell) = request'[c].expected
             /\ Version(cell') = Version(cell) + 1
             /\ \A d \in Calls \ {c} : pc'[d] = pc[d]
    <2>1. ASSUME NEW c \in Calls, pc[c] \in {"send", "exec"},
                 Version(cell) = request[c].expected, cell' = request[c].next
          PROVE  Version(cell) = request'[c].expected /\ Version(cell') = Version(cell) + 1
      BY <1>1, <2>1, Effect, RequestLemma DEF Steady
    <2> QED
      BY <1>1, <2>1 DEF DatabaseStep
  <1>7. \/ /\ Version(memory') = Version(memory)
           /\ \A c \in Calls : pc'[c] = "ok" => pc[c] = "ok" \/ decider'[c] # "memory"
        \/ \E c \in Calls :
             /\ pc[c] # "ok" /\ Version(memory) = request'[c].expected
             /\ Version(memory') = Version(memory) + 1
             /\ \A d \in Calls \ {c} : pc'[d] = pc[d]
    <2>1. ASSUME NEW c \in Calls, pc'[c] = "ok",
                 Version(memory) = request'[c].expected, memory' = request'[c].next
          PROVE  Version(memory') = Version(memory) + 1
      <3>1. request'[c] \in Requests /\ request'[c].next.version = request'[c].expected + 1
        BY <2>1 DEF Structure, Requested
      <3> QED
        BY <2>1, <3>1, RequestLemma
    <2> QED
      BY <1>1, <2>1 DEF MemoryStep
  <1>8. /\ \A c \in Calls : pc'[c] = "ok" /\ decider'[c] = "database" =>
             request'[c].expected < Version(cell')
        /\ \A c, d \in Calls :
             pc'[c] = "ok" /\ pc'[d] = "ok" /\ c # d /\ decider'[c] = "database" /\ decider'[d] = "database"
               => request'[c].expected # request'[d].expected
    BY <1>1, <1>3, <1>4, <1>5, <1>6, OneStore
  <1>9. /\ \A c \in Calls : pc'[c] = "ok" /\ decider'[c] = "memory" =>
             request'[c].expected < Version(memory')
        /\ \A c, d \in Calls :
             pc'[c] = "ok" /\ pc'[d] = "ok" /\ c # d /\ decider'[c] = "memory" /\ decider'[d] = "memory"
               => request'[c].expected # request'[d].expected
    BY <1>1, <1>3, <1>4, <1>5, <1>7, OneStore
  <1> QED
    BY <1>2, <1>8, <1>9 DEF Behind, OneWinnerPerVersion

LEMMA WinnersInvariant == Spec => []Winners
  <1>1. Init => Winners
    BY DEF Init, Winners, AllWatched, Watched, Deciders, Behind, OneWinnerPerVersion
  <1>2. Structure /\ Structure' /\ AllWatched' /\ Winners /\ [Next]_vars => Winners'
    <2> SUFFICES ASSUME Structure, Structure', AllWatched', Winners, [Next]_vars
                 PROVE  Winners'
      OBVIOUS
    <2>1. Deciders'
      BY SteadyLemma DEF Winners
    <2>2. Behind' /\ OneWinnerPerVersion'
      <3>1. CASE Undisturbed'
        BY <3>1, WinnersStep
      <3>2. CASE ~Undisturbed'
        BY <3>2 DEF Behind, OneWinnerPerVersion
      <3> QED
        BY <3>1, <3>2
    <2> QED
      BY <2>1, <2>2 DEF Winners
  <1> QED
    BY <1>1, <1>2, StructureInvariant, WatchedInvariant, PTL DEF Spec

\* Of the calls that start from one version a store accepts at most one: not two
\* of them can have updated the same session (compareAndSet of the adapters).
THEOREM AtMostOneWinner == Spec => []OneWinnerPerVersion
  <1>1. Winners => OneWinnerPerVersion
    BY DEF Winners
  <1> QED
    BY <1>1, WinnersInvariant, PTL

-------------------------------------------------------------------------------
(* Refusals.                                                               *)

Calm == Undisturbed /\ faults = 0 /\ \A c \in Calls : pc[c] # "ok"

\* Until somebody wins, or disturbs, the key is absent for everybody, and nobody is
\* refused.
Quiet ==
  Calm =>
    /\ cell = NoSession /\ previous = NoSession /\ touched = {} /\ fallback = "off"
    /\ \A c \in Calls :
         /\ pc[c] \notin {"refused", "reread"}
         /\ loaded[c] = NoSession
         /\ pc[c] \in {"send", "get", "exec"} => request[c].expected = 0

LEMMA CalmBefore ==
  ASSUME Structure, Winners, [Next]_vars, Calm'
  PROVE  Calm
  <1>1. Undisturbed
    BY StoreSteps DEF Winners, Calm
  <1>2. \A c \in Calls : pc[c] # "ok"
    BY SteadyLemma DEF Winners, Steady, Calm
  <1>3. faults' = faults \/ faults' = faults + 1
    BY DEF Next, Step, Read, Call, Eval, Watch, WatchedGet, Exec, Conditional, Reread,
       ReadFallback, CallFallback, EvalThrows, RetryDue, Delete, DeleteFallback,
       BridgeGet, BridgeSet, failsafe, vars
  <1>4. faults = 0
    BY <1>3 DEF Calm, Structure, TypeOK
  <1> QED
    BY <1>1, <1>2, <1>4 DEF Calm

\* A call that moves while everything is quiet, and neither ends nor writes.
LEMMA QuietMove ==
  ASSUME Structure, Quiet, Calm, NEW c \in Calls, NEW label \in {"cas", "send", "get", "exec"},
         Goto(c, label), UNCHANGED <<cell, previous, touched>>, fallback' = "off",
         loaded'[c] = NoSession, \A d \in Calls : d # c => loaded'[d] = loaded[d],
         label # "cas" => request'[c].expected = 0,
         \A d \in Calls : d # c => request'[d] = request[d]
  PROVE  Quiet'
  <1>1. pc'[c] = label /\ \A d \in Calls : d # c => pc'[d] = pc[d]
    BY GotoLemma
  <1> QED
    BY <1>1 DEF Quiet

LEMMA QuietStep ==
  ASSUME Structure, Structure', Winners, Quiet, [Next]_vars
  PROVE  Quiet'
  <1> SUFFICES ASSUME Calm' PROVE Quiet'
    BY DEF Quiet
  <1>1. Calm
    BY CalmBefore
  <1>2. /\ cell = NoSession /\ previous = NoSession /\ touched = {} /\ fallback = "off"
        /\ \A c \in Calls :
             /\ pc[c] \notin {"refused", "reread"}
             /\ loaded[c] = NoSession
             /\ pc[c] \in {"send", "get", "exec"} => request[c].expected = 0
    BY <1>1 DEF Quiet
  <1>3. CasOk(cell, 0)
    BY <1>2 DEF CasOk
  <1>4. CASE UNCHANGED vars
    BY <1>2, <1>4 DEF vars, failsafe, Quiet
  <1>5. ASSUME NEW c \in Calls, Step(c) PROVE Quiet'
    <2>0. pc'[c] # "ok"
      BY DEF Calm
    <2>1. CASE Read(c)
      <3>1. loaded'[c] = NoSession /\ \A d \in Calls : d # c => loaded'[d] = loaded[d]
        BY <1>2, <2>1 DEF Read, Structure, TypeOK
      <3>2. fallback' = "off" /\ Goto(c, "cas") /\ request' = request
            /\ UNCHANGED <<cell, previous, touched>>
        BY <1>2, <2>1 DEF Read, Retried, NoWrite
      <3> QED
        BY <1>1, <3>1, <3>2, QuietMove
    <2>2. CASE Call(c)
      <3>1. /\ request'[c].expected = 0
            /\ \A d \in Calls : d # c => request'[d] = request[d]
        BY <1>2, <2>2 DEF Call, Ask, Expected, Structure, TypeOK
      <3>2. fallback' = "off" /\ Goto(c, "send") /\ loaded' = loaded
            /\ UNCHANGED <<cell, previous, touched>>
        BY <1>2, <2>2 DEF Call, Retried, NoWrite
      <3> QED
        BY <1>1, <1>2, <3>1, <3>2, QuietMove
    <2>3. CASE Watch(c)
      <3>1. touched' = touched
        BY <1>2, <2>3 DEF Watch
      <3> QED
        BY <1>1, <1>2, <2>3, <3>1, QuietMove DEF Watch, failsafe
    <2>4. CASE WatchedGet(c)
      <3>1. pc[c] = "get" /\ request[c].expected = 0 /\ Goto(c, "exec")
        BY <1>2, <1>3, <2>4 DEF WatchedGet
      <3> QED
        BY <1>1, <1>2, <2>4, <3>1, QuietMove DEF WatchedGet, NoWrite, failsafe
    <2>5. CASE Eval(c) \/ Conditional(c) \/ Exec(c)
      <3>1. Goto(c, "ok")
        BY <1>2, <1>3, <2>5 DEF Eval, Conditional, Exec
      <3> QED
        BY <2>0, <3>1, GotoLemma
    <2>6. CASE Reread(c)
      BY <1>2, <2>6 DEF Reread
    <2>7. CASE ReadFallback(c)
      BY <1>1, <1>2, <2>7 DEF ReadFallback, UsesPrimary, Calm
    <2>8. CASE CallFallback(c)
      BY <1>2, <2>8 DEF CallFallback, UsesPrimary
    <2>9. CASE EvalThrows(c)
      BY <1>1, <2>9 DEF EvalThrows, Calm
    <2> QED
      BY <1>5, <2>1, <2>2, <2>3, <2>4, <2>5, <2>6, <2>7, <2>8, <2>9 DEF Step
  <1>6. CASE RetryDue \/ Delete \/ DeleteFallback
    BY <1>2, <1>6 DEF RetryDue, Delete, DeleteFallback, UsesPrimary
  <1>7. ASSUME NEW raw \in RawInitData, BridgeGet(raw) PROVE Quiet'
    BY <1>2, <1>7 DEF BridgeGet
  <1>8. CASE BridgeSet
    BY <1>1, <1>8 DEF BridgeSet, Structure, Calm, Undisturbed
  <1> QED
    BY <1>4, <1>5, <1>6, <1>7, <1>8 DEF Next

\* A refused call, of any adapter and however stale its read, has met contention or
\* a fault: compareAndSet never refuses the only writer.
THEOREM RefusalsAreHonest == Spec => []RefusalsHaveAWinner
  <1>1. Init => Quiet
    BY DEF Init, Quiet
  <1>2. Structure /\ Structure' /\ Winners /\ Quiet /\ [Next]_vars => Quiet'
    BY QuietStep
  <1>3. Structure /\ Quiet => RefusalsHaveAWinner
    <2> SUFFICES ASSUME Structure, Quiet, NEW c \in Calls, pc[c] \in {"refused", "reread"},
                        Undisturbed, ~(faults > 0)
                 PROVE  \E d \in Calls \ {c} : pc[d] = "ok"
      BY DEF RefusalsHaveAWinner
    <2>1. faults = 0
      BY DEF Structure, TypeOK
    <2>2. PICK d \in Calls : pc[d] = "ok"
      BY <2>1 DEF Quiet, Calm
    <2> QED
      BY <2>2
  <1> QED
    BY <1>1, <1>2, <1>3, StructureInvariant, WinnersInvariant, PTL DEF Spec

-------------------------------------------------------------------------------
(* The adapters that talk to one database implement an atomic compareAndSet.   *)

Cell == IF Promises THEN cell ELSE NoSession
Asks == [c \in Calls |-> IF Promises THEN request[c] ELSE NoRequest]
Results == [c \in Calls |-> IF Promises THEN Result(pc[c]) ELSE "pending"]
Contended == IF Promises THEN contended ELSE {}

\* What the refinement mapping yields for an adapter that promises anything.
LEMMA Mapping ==
  ASSUME Structure, Promises
  PROVE  /\ Cell = cell /\ Asks = request /\ Contended = contended
         /\ Results = [c \in Calls |-> Result(pc[c])]
         /\ Asking = {c \in Calls : request[c] # NoRequest /\ Result(pc[c]) = "pending"}
  <1>1. request = [c \in Calls |-> request[c]]
    BY DEF Structure, TypeOK
  <1>2. ASSUME NEW c \in Calls
        PROVE  c \in Asking <=> request[c] # NoRequest /\ Result(pc[c]) = "pending"
    <2>1. pc[c] \in Labels
      BY DEF Structure, TypeOK, Labels
    <2>2. request[c] = NoRequest <=> pc[c] \in {"read", "cas"}
      BY RequestLemma DEF Structure, Requested
    <2> QED
      BY <2>1, <2>2 DEF Asking, Result, Labels
  <1> QED
    BY <1>1, <1>2 DEF Cell, Asks, Contended, Results, Asking

\* A call goes on and the caller does not notice.
LEMMA Unnoticed ==
  ASSUME Structure, Promises, adapter' = adapter,
         UNCHANGED <<cell, request, contended>>,
         \A c \in Calls : Result(pc'[c]) = Result(pc[c])
  PROVE  UNCHANGED Cas!vars
  <1>1. Promises'
    BY DEF Promises
  <1>2. Results' = Results
    BY <1>1 DEF Results
  <1> QED
    BY <1>1, <1>2 DEF Cas!vars, Results, Promises

\* A call is answered.
LEMMA Answered ==
  ASSUME Structure, NEW c \in Calls, NEW label \in Labels, Goto(c, label)
  PROVE  [d \in Calls |-> Result(pc'[d])]
           = [[d \in Calls |-> Result(pc[d])] EXCEPT ![c] = Result(label)]
  BY GotoLemma

\* The same of the state after a step.
LEMMA MappingAfter ==
  ASSUME Structure', Promises, adapter' = adapter
  PROVE  /\ Cell' = cell' /\ Asks' = request' /\ Contended' = contended'
         /\ Results' = [c \in Calls |-> Result(pc'[c])]
  <1>0. Promises'
    BY DEF Promises
  <1>1. request' = [c \in Calls |-> request'[c]]
    BY DEF Structure, TypeOK
  <1>2. Results' = [c \in Calls |-> Result(pc'[c])]
    BY <1>0 DEF Results, Result
  <1> QED
    BY <1>0, <1>1, <1>2 DEF Cell, Asks, Contended

\* An answer of a database is what the promise allows: the write of an accepted call
\* happens at once, over a session of the version it expects; a refused call found
\* another one, or was disturbed.
LEMMA Decision ==
  ASSUME Structure, Structure', Promises, adapter' = adapter, request' = request,
         NEW c \in Calls, c \in Asking,
         \/ /\ CasOk(cell, request[c].expected)
            /\ Write(request[c].next, {c}) /\ Goto(c, "ok")
         \/ /\ ~CasOk(cell, request[c].expected) \/ c \in contended
            /\ NoWrite
            /\ Goto(c, "refused") \/ Goto(c, "reread")
  PROVE  Cas!Next
  <1>1. Results' = [Results EXCEPT ![c] = Result(pc'[c])]
    <2>1. PICK label \in Labels : Goto(c, label)
      BY DEF Labels
    <2>2. pc'[c] = label
      BY <2>1, GotoLemma
    <2> QED
      BY <2>1, <2>2, Answered, Mapping, MappingAfter
  <1>2. c \in Cas!Asking /\ Cas!Asking = Asking
    BY Mapping DEF Cas!Asking, Asks, Results
  <1>3. CASE /\ CasOk(cell, request[c].expected)
             /\ Write(request[c].next, {c}) /\ Goto(c, "ok")
    <2>1. pc'[c] = "ok"
      BY <1>3, GotoLemma
    <2>2. Results' = [Results EXCEPT ![c] = "ok"]
      BY <1>1, <2>1 DEF Result
    <2>3. cell' = request[c].next /\ contended' = contended \cup (Asking \ {c})
      BY <1>3 DEF Write
    <2>4. Cas!Accept(c)
      <3>1. CasOk(Cell, Asks[c].expected) /\ Cell' = Asks[c].next
        BY <1>3, <2>3, Mapping, MappingAfter
      <3>2. Contended' = Contended \cup (Cas!Asking \ {c})
        BY <1>2, <2>3, Mapping, MappingAfter
      <3>3. Asks' = Asks
        BY Mapping, MappingAfter
      <3> QED
        BY <1>2, <2>2, <3>1, <3>2, <3>3
           DEF Cas!Accept, Cell, Asks, Results, Contended, CasOk, Cas!CasOk
    <2> QED
      BY <2>4 DEF Cas!Next
  <1>4. CASE /\ ~CasOk(cell, request[c].expected) \/ c \in contended
             /\ NoWrite
             /\ Goto(c, "refused") \/ Goto(c, "reread")
    <2>1. pc'[c] \in {"refused", "reread"}
      BY <1>4, GotoLemma
    <2>2. Results' = [Results EXCEPT ![c] = "refused"]
      BY <1>1, <2>1 DEF Result
    <2>3. Cas!Refuse(c)
      <3>1. ~CasOk(Cell, Asks[c].expected) \/ c \in Contended
        BY <1>4, Mapping
      <3>2. Cell' = Cell /\ Asks' = Asks /\ Contended' = Contended
        BY <1>4, Mapping, MappingAfter DEF NoWrite
      <3> QED
        BY <1>2, <2>2, <3>1, <3>2
           DEF Cas!Refuse, Cell, Asks, Results, Contended, CasOk, Cas!CasOk
    <2> QED
      BY <2>3 DEF Cas!Next
  <1> QED
    BY <1>3, <1>4

\* set, delete and expiry.
LEMMA Overwritten ==
  ASSUME Structure, Structure', Promises, adapter' = adapter,
         UNCHANGED <<pc, request>>, NEW value, Write(value, {})
  PROVE  Cas!Next
  <1>1. Results' = Results
    BY Mapping, MappingAfter
  <1>2. Cas!Asking = Asking
    BY Mapping DEF Cas!Asking, Asks, Results
  <1>3. cell' \in Envelope \cup {NoSession} /\ contended' = contended \cup Asking
    BY SessionLemma DEF Structure, Write
  <1>4. Cas!Overwrite
    <2>1. Cell' \in Envelope \cup {NoSession} /\ Asks' = Asks
      BY <1>3, Mapping, MappingAfter
    <2>2. Contended' = Contended \cup Cas!Asking
      BY <1>2, <1>3, Mapping, MappingAfter
    <2> QED
      BY <1>1, <2>1, <2>2
         DEF Cas!Overwrite, Cell, Asks, Results, Contended, Envelope, Cas!Envelope
  <1> QED
    BY <1>4 DEF Cas!Next

LEMMA Asked ==
  ASSUME Structure, Structure', Promises, adapter' = adapter, NEW c \in Calls, Call(c)
  PROVE  Cas!Next
  <1> DEFINE r == [expected |-> Expected(c), next |-> NextValue(c)]
  <1>1. r \in Requests
    BY AskLemma DEF Structure
  <1> HIDE DEF r
  <1>2. request' = [request EXCEPT ![c] = r]
    BY DEF Call, Ask, r
  <1>3. request'[c] = r /\ request' = [request EXCEPT ![c] = request'[c]]
    BY <1>2 DEF Structure, TypeOK
  <1>4. request[c] = NoRequest
    BY DEF Call, Structure, Requested
  <1>5. Results' = Results
    <2>1. pc[c] = "cas" /\ pc'[c] = "send" /\ \A d \in Calls : d # c => pc'[d] = pc[d]
      BY GotoLemma DEF Call
    <2>2. \A d \in Calls : Result(pc'[d]) = Result(pc[d])
      BY <2>1 DEF Result
    <2> QED
      BY <2>2, Mapping, MappingAfter
  <1>6. cell' = cell /\ contended' = contended
    BY DEF Call, NoWrite
  <1>7. Cas!Ask(c)
    <2>1. Asks[c] = NoRequest /\ Asks'[c] \in Requests
      BY <1>1, <1>3, <1>4, Mapping, MappingAfter
    <2>2. Asks' = [Asks EXCEPT ![c] = Asks'[c]]
      BY <1>3, Mapping, MappingAfter
    <2>3. Cell' = Cell /\ Contended' = Contended
      BY <1>6, Mapping, MappingAfter
    <2> QED
      BY <1>5, <2>1, <2>2, <2>3
         DEF Cas!Ask, Cell, Asks, Results, Contended, Requests, Envelope, Cas!Envelope
  <1> QED
    BY <1>7 DEF Cas!Next

LEMMA CasStep ==
  ASSUME Structure, Structure', AllWatched, [Next]_vars
  PROVE  Cas!Next \/ UNCHANGED Cas!vars
  <1>0. adapter' = adapter
    BY DEF Next, Step, Read, Call, Eval, Watch, WatchedGet, Exec, Conditional, Reread,
       ReadFallback, CallFallback, EvalThrows, RetryDue, Delete, DeleteFallback,
       BridgeGet, BridgeSet, vars
  <1>1. CASE ~Promises
    BY <1>0, <1>1 DEF Cas!vars, Promises
  <1>2. CASE Promises
    <2>1. CASE UNCHANGED vars
      BY <1>0, <1>2, <2>1, Unnoticed DEF vars
    <2>2. ASSUME NEW c \in Calls, Step(c) PROVE Cas!Next \/ UNCHANGED Cas!vars
      <3>1. CASE Call(c)
        BY <1>0, <1>2, <3>1, Asked
      <3>2. CASE Read(c) \/ Watch(c) \/ Reread(c)
        <4>1. /\ \A d \in Calls : d # c => pc'[d] = pc[d]
              /\ \/ pc[c] = "read" /\ pc'[c] = "cas"
                 \/ pc[c] = "send" /\ pc'[c] = "get"
                 \/ pc[c] = "reread" /\ pc'[c] = "refused"
          BY <3>2, GotoLemma DEF Read, Watch, Reread
        <4>2. \A d \in Calls : Result(pc'[d]) = Result(pc[d])
          BY <4>1 DEF Result
        <4> QED
          BY <1>0, <1>2, <3>2, <4>2, Unnoticed DEF Read, Watch, Reread, NoWrite
      <3>3. CASE Eval(c)
        BY <1>0, <1>2, <3>3, Decision DEF Eval, Asking
      <3>4. CASE Conditional(c)
        BY <1>0, <1>2, <3>4, Decision DEF Conditional, Asking
      <3>5. CASE Exec(c)
        <4>1. IF c \notin touched THEN CasOk(cell, request[c].expected) ELSE c \in contended
          BY <3>5 DEF Exec, AllWatched, Watched
        <4> QED
          BY <1>0, <1>2, <3>5, <4>1, Decision DEF Exec, Asking
      <3>6. CASE WatchedGet(c) /\ ~CasOk(cell, request[c].expected)
        BY <1>0, <1>2, <3>6, Decision DEF WatchedGet, Asking
      <3>7. CASE WatchedGet(c) /\ CasOk(cell, request[c].expected)
        <4>1. pc[c] = "get" /\ pc'[c] = "exec" /\ \A d \in Calls : d # c => pc'[d] = pc[d]
          BY <3>7, GotoLemma DEF WatchedGet
        <4>2. \A d \in Calls : Result(pc'[d]) = Result(pc[d])
          BY <4>1 DEF Result
        <4> QED
          BY <1>0, <1>2, <3>7, <4>2, Unnoticed DEF WatchedGet, NoWrite
      <3>8. CASE ReadFallback(c) \/ CallFallback(c) \/ EvalThrows(c)
        BY <1>2, <3>8 DEF ReadFallback, CallFallback, EvalThrows, UsesPrimary, Structure,
           Promises
      <3> QED
        BY <2>2, <3>1, <3>2, <3>3, <3>4, <3>5, <3>6, <3>7, <3>8 DEF Step
    <2>3. CASE RetryDue \/ DeleteFallback
      BY <1>0, <1>2, <2>3, Unnoticed DEF RetryDue, DeleteFallback, NoWrite
    <2>4. CASE Delete
      BY <1>0, <1>2, <2>4, Overwritten DEF Delete
    <2>5. ASSUME NEW raw \in RawInitData, BridgeGet(raw) PROVE UNCHANGED Cas!vars
      BY <1>0, <1>2, <2>5, Unnoticed DEF BridgeGet, NoWrite
    <2>6. CASE BridgeSet
      BY <1>0, <1>2, <2>6, Overwritten DEF BridgeSet
    <2> QED
      BY <2>1, <2>2, <2>3, <2>4, <2>5, <2>6 DEF Next
  <1> QED
    BY <1>1, <1>2

\* Whatever commands an adapter needs, and however they interleave with those of
\* others, its callers cannot tell it from an atomic compareAndSet.
THEOREM AdaptersImplementCas == Spec => ImplementsCas
  <1>1. Init => Cas!Init
    <2> SUFFICES ASSUME Init PROVE Cas!Init
      OBVIOUS
    <2>1. Results = [c \in Calls |-> "pending"]
      BY DEF Init, Results, Result
    <2> QED
      BY <2>1 DEF Init, Cas!Init, Results
  <1>2. Structure /\ Structure' /\ AllWatched /\ [Next]_vars => [Cas!Next]_(Cas!vars)
    BY CasStep
  <1> QED
    BY <1>1, <1>2, StructureInvariant, WatchedInvariant, PTL DEF Spec, ImplementsCas, Cas!Spec

-------------------------------------------------------------------------------
(* No accepted write drops an update.                                      *)

\* `old` is `new`, or an earlier session than it.
Precedes(old, new) ==
  /\ Version(old) <= Version(new)
  /\ Version(old) = Version(new) => Updates(old) = Updates(new)

Working == {"cas", "send", "get", "exec"}
Store(c) == IF source[c] = "memory" THEN memory ELSE cell

\* A call works on what its store holds or has held, and asks for one update more.
Snapshots ==
  /\ \A c \in Calls :
       /\ pc[c] = "read" => source[c] = "database"
       /\ pc[c] \in {"send", "get", "exec"} =>
            /\ request[c].expected = Version(loaded[c])
            /\ request[c].next.log = Append(Updates(loaded[c]), c)
  /\ Undisturbed =>
       /\ Precedes(previous, cell)
       /\ \A c \in Calls : pc[c] \in Working => Precedes(loaded[c], Store(c))

\* Where what a call works on comes from.
LEMMA LoadedStep ==
  ASSUME Structure, Snapshots, [Next]_vars, NEW c \in Calls
  PROVE  /\ pc'[c] = "read" => source'[c] = "database"
         /\ pc'[c] \in Working =>
              \/ /\ pc[c] \in Working
                 /\ loaded'[c] = loaded[c] /\ source'[c] = source[c]
              \/ loaded'[c] \in {cell, previous} /\ source'[c] = "database"
              \/ loaded'[c] = memory /\ source'[c] = "memory"
         /\ pc'[c] \in {"send", "get", "exec"} =>
              /\ request'[c].expected = Version(loaded'[c])
              /\ request'[c].next.log = Append(Updates(loaded'[c]), c)
  <1> DEFINE P(d) ==
         /\ pc'[d] = "read" => source'[d] = "database"
         /\ pc'[d] \in Working =>
              \/ /\ pc[d] \in Working
                 /\ loaded'[d] = loaded[d] /\ source'[d] = source[d]
              \/ loaded'[d] \in {cell, previous} /\ source'[d] = "database"
              \/ loaded'[d] = memory /\ source'[d] = "memory"
         /\ pc'[d] \in {"send", "get", "exec"} =>
              /\ request'[d].expected = Version(loaded'[d])
              /\ request'[d].next.log = Append(Updates(loaded'[d]), d)
  \* Calls that do not move.
  <1>1. ASSUME NEW d \in Calls, pc'[d] = pc[d], loaded'[d] = loaded[d],
               source'[d] = source[d], request'[d] = request[d]
        PROVE  P(d)
    BY <1>1 DEF Snapshots
  <1>2. CASE UNCHANGED vars
    BY <1>1, <1>2 DEF vars, failsafe
  <1>3. ASSUME NEW e \in Calls, Step(e) PROVE P(c)
    <2>1. ASSUME NEW d \in Calls, d # e
          PROVE  /\ pc'[d] = pc[d] /\ loaded'[d] = loaded[d]
                 /\ source'[d] = source[d] /\ request'[d] = request[d]
      <3>1. \E label \in Labels : Goto(e, label)
        BY <1>3 DEF Step, Read, Call, Eval, Watch, WatchedGet, Exec, Conditional,
           Reread, ReadFallback, CallFallback, EvalThrows, MemoryCas, Labels
      <3>2. pc'[d] = pc[d]
        BY <2>1, <3>1, GotoLemma
      <3>3. loaded'[d] = loaded[d] /\ source'[d] = source[d]
        BY <1>3, <2>1 DEF Step, Read, Call, Eval, Watch, WatchedGet, Exec, Conditional,
           Reread, ReadFallback, CallFallback, EvalThrows, failsafe, Structure, TypeOK
      <3>4. request'[d] = request[d]
        BY <1>3, <2>1 DEF Step, Read, Call, Eval, Watch, WatchedGet, Exec, Conditional,
           Reread, ReadFallback, CallFallback, EvalThrows, Ask, Structure, TypeOK
      <3> QED
        BY <3>2, <3>3, <3>4
    <2>2. CASE c # e
      BY <1>1, <2>1, <2>2
    <2>3. P(e)
      <3>1. CASE Read(e)
        <4>1. loaded'[e] \in {cell, previous} /\ source'[e] = source[e]
          BY <3>1 DEF Read, Structure, TypeOK
        <4>2. pc[e] = "read" /\ pc'[e] = "cas"
          BY <3>1, GotoLemma DEF Read
        <4>3. source'[e] = "database"
          BY <4>1, <4>2 DEF Snapshots
        <4> QED
          BY <4>1, <4>2, <4>3
      <3>2. CASE ReadFallback(e)
        <4>1. loaded'[e] = memory /\ source'[e] = "memory"
          BY <3>2 DEF ReadFallback, Structure, TypeOK
        <4>2. pc'[e] = "cas"
          BY <3>2, GotoLemma DEF ReadFallback
        <4> QED
          BY <4>1, <4>2
      <3>3. CASE Call(e)
        <4>1. /\ request'[e] = [expected |-> Expected(e), next |-> NextValue(e)]
              /\ loaded' = loaded /\ source' = source
          BY <3>3 DEF Call, Ask, Structure, TypeOK
        <4>2. /\ request'[e].expected = Version(loaded[e])
              /\ request'[e].next.log = Append(Updates(loaded[e]), e)
          BY <4>1, AskLemma DEF Structure
        <4>3. pc[e] = "cas" /\ pc'[e] = "send"
          BY <3>3, GotoLemma DEF Call
        <4> QED
          BY <4>1, <4>2, <4>3 DEF Working
      <3>4. CASE Watch(e)
        <4>1. pc[e] = "send" /\ pc'[e] = "get" /\ UNCHANGED <<loaded, source, request>>
          BY <3>4, GotoLemma DEF Watch, failsafe
        <4> QED
          BY <4>1 DEF Snapshots, Working
      <3>5. CASE WatchedGet(e)
        <4>1. /\ pc[e] = "get" /\ pc'[e] \in {"exec", "refused"}
              /\ UNCHANGED <<loaded, source, request>>
          BY <3>5, GotoLemma DEF WatchedGet, failsafe
        <4> QED
          BY <4>1 DEF Snapshots, Working
      <3>6. CASE Eval(e) \/ Exec(e) \/ Conditional(e) \/ Reread(e) \/ CallFallback(e)
                 \/ EvalThrows(e)
        <4>1. pc'[e] \in {"ok", "refused", "reread"}
          BY <3>6, GotoLemma DEF Eval, Exec, Conditional, Reread, CallFallback,
             EvalThrows, MemoryCas
        <4> QED
          BY <4>1 DEF Working
      <3> QED
        BY <1>3, <3>1, <3>2, <3>3, <3>4, <3>5, <3>6 DEF Step
    <2> QED
      BY <2>2, <2>3
  <1>4. CASE RetryDue \/ Delete \/ DeleteFallback
    BY <1>1, <1>4 DEF RetryDue, Delete, DeleteFallback
  <1>5. ASSUME NEW raw \in RawInitData, BridgeGet(raw) PROVE P(c)
    BY <1>1, <1>5 DEF BridgeGet, failsafe
  <1>6. CASE BridgeSet
    BY <1>1, <1>6 DEF BridgeSet, failsafe
  <1> QED
    BY <1>2, <1>3, <1>4, <1>5, <1>6 DEF Next

LEMMA PrecedesLemma ==
  ASSUME NEW a, NEW b, NEW c, Numbered(a), Numbered(b), Numbered(c)
  PROVE  /\ Precedes(a, a)
         /\ Precedes(a, b) /\ Precedes(b, c) => Precedes(a, c)
         /\ Version(b) = Version(a) + 1 => Precedes(a, b)
  <1>1. Version(a) \in Nat /\ Version(b) \in Nat /\ Version(c) \in Nat
    BY SessionLemma
  <1> QED
    BY <1>1 DEF Precedes

LEMMA StoresAdvance ==
  ASSUME Structure, Structure', Winners, [Next]_vars, Undisturbed'
  PROVE  /\ Precedes(cell, cell') /\ Precedes(memory, memory')
         /\ previous' \in {previous, cell}
  <1>1. DatabaseStep /\ MemoryStep /\ Steady
    BY StoreSteps, SteadyLemma DEF Winners
  <1>2. Numbered(cell) /\ Numbered(cell') /\ Numbered(memory) /\ Numbered(memory')
    BY DEF Structure
  <1>3. Precedes(cell, cell')
    <2>1. CASE cell' = cell
      BY <1>2, <2>1, PrecedesLemma
    <2>2. ASSUME NEW c \in Calls, pc[c] \in {"send", "exec"},
                 Version(cell) = request[c].expected, cell' = request[c].next
          PROVE  Precedes(cell, cell')
      <3>1. Version(cell') = Version(cell) + 1
        BY <2>2, Effect, RequestLemma
      <3> QED
        BY <1>2, <3>1, PrecedesLemma
    <2> QED
      BY <1>1, <2>1, <2>2 DEF DatabaseStep
  <1>4. Precedes(memory, memory')
    <2>1. CASE memory' = memory
      BY <1>2, <2>1, PrecedesLemma
    <2>2. ASSUME NEW c \in Calls, pc'[c] = "ok",
                 Version(memory) = request'[c].expected, memory' = request'[c].next
          PROVE  Precedes(memory, memory')
      <3>1. request'[c] \in Requests /\ request'[c].next.version = request'[c].expected + 1
        BY <2>2 DEF Structure, Requested
      <3>2. Version(memory') = Version(memory) + 1
        BY <2>2, <3>1, RequestLemma
      <3> QED
        BY <1>2, <3>2, PrecedesLemma
    <2> QED
      BY <1>1, <2>1, <2>2 DEF MemoryStep
  <1>5. previous' \in {previous, cell}
    BY DEF Next, Step, Read, Call, Eval, Watch, WatchedGet, Exec, Conditional, Reread,
       ReadFallback, CallFallback, EvalThrows, RetryDue, Delete, DeleteFallback,
       BridgeGet, BridgeSet, vars, NoWrite, Write
  <1> QED
    BY <1>3, <1>4, <1>5

LEMMA SnapshotsStep ==
  ASSUME Structure, Structure', Winners, Snapshots, [Next]_vars
  PROVE  Snapshots'
  <1>1. \A c \in Calls :
          /\ pc'[c] = "read" => source'[c] = "database"
          /\ pc'[c] \in {"send", "get", "exec"} =>
               /\ request'[c].expected = Version(loaded'[c])
               /\ request'[c].next.log = Append(Updates(loaded'[c]), c)
    BY LoadedStep
  <1>2. ASSUME Undisturbed' PROVE Precedes(previous', cell')
    <2>1. Undisturbed
      BY <1>2, StoreSteps DEF Winners
    <2>2. Precedes(previous, cell) /\ Precedes(cell, cell') /\ previous' \in {previous, cell}
      BY <1>2, <2>1, StoresAdvance DEF Snapshots
    <2>3. Numbered(previous) /\ Numbered(cell) /\ Numbered(cell')
      BY DEF Structure
    <2> QED
      BY <2>2, <2>3, PrecedesLemma
  <1>3. ASSUME Undisturbed', NEW c \in Calls, pc'[c] \in Working
        PROVE  Precedes(loaded'[c], Store(c)')
    <2>1. Undisturbed
      BY <1>3, StoreSteps DEF Winners
    <2>2. /\ Precedes(previous, cell) /\ Precedes(cell, cell')
          /\ Precedes(memory, memory')
      BY <1>3, <2>1, StoresAdvance DEF Snapshots
    <2>3. /\ Numbered(previous) /\ Numbered(cell) /\ Numbered(cell')
          /\ Numbered(memory) /\ Numbered(memory') /\ Numbered(loaded[c])
      BY DEF Structure
    <2>4. CASE pc[c] \in Working /\ loaded'[c] = loaded[c] /\ source'[c] = source[c]
      <3>1. Precedes(loaded[c], Store(c))
        BY <2>1, <2>4 DEF Snapshots
      <3>2. CASE source[c] = "memory"
        BY <2>2, <2>3, <2>4, <3>1, <3>2, PrecedesLemma DEF Store
      <3>3. CASE source[c] # "memory"
        BY <2>2, <2>3, <2>4, <3>1, <3>3, PrecedesLemma DEF Store
      <3> QED
        BY <3>2, <3>3
    <2>5. CASE loaded'[c] \in {cell, previous} /\ source'[c] = "database"
      <3>1. Precedes(loaded'[c], cell')
        BY <2>2, <2>3, <2>5, PrecedesLemma
      <3> QED
        BY <2>5, <3>1 DEF Store
    <2>6. CASE loaded'[c] = memory /\ source'[c] = "memory"
      BY <2>2, <2>6 DEF Store
    <2> QED
      BY <1>3, <2>4, <2>5, <2>6, LoadedStep
  <1> QED
    BY <1>1, <1>2, <1>3 DEF Snapshots

LEMMA KeepsLemma ==
  ASSUME NEW old, NEW new, NEW c \in Calls, Numbered(old), new # NoSession,
         new.log = Append(Updates(old), c)
  PROVE  Keeps(old, new)
  <1>1. Updates(old) \in Seq(Calls)
    BY SessionLemma
  <1>2. Updates(new) = Append(Updates(old), c)
    BY DEF Updates
  <1>3. \A i \in DOMAIN Updates(old) :
          i \in DOMAIN Updates(new) /\ Updates(new)[i] = Updates(old)[i]
    BY <1>1, <1>2
  <1> QED
    BY <1>3 DEF Keeps

\* Only a call's own step answers it, and it disturbs nobody.
LEMMA EndsCalmly ==
  ASSUME Structure, [Next]_vars, NEW c \in Calls, pc'[c] # pc[c]
  PROVE  Undisturbed' <=> Undisturbed
  <1>1. \E e \in Calls : Step(e)
    BY DEF Next, vars, RetryDue, Delete, DeleteFallback, BridgeGet, BridgeSet
  <1> QED
    BY <1>1 DEF Undisturbed, Step, Read, Call, Eval, Watch, WatchedGet, Exec,
       Conditional, Reread, ReadFallback, CallFallback, EvalThrows

LEMMA KeptStep ==
  ASSUME Structure, Structure', Winners, Snapshots, [Next]_vars, NEW c \in Calls,
         pc'[c] = "ok", pc[c] # "ok", source[c] = decider'[c], Undisturbed
  PROVE  IF source[c] = "memory" THEN Keeps(memory, memory') ELSE Keeps(cell, cell')
  <1>0. DatabaseStep /\ MemoryStep /\ Steady
    <2>1. Undisturbed'
      BY EndsCalmly
    <2> QED
      BY <2>1, StoreSteps, SteadyLemma DEF Winners
  <1>1. /\ Numbered(cell) /\ Numbered(memory) /\ Numbered(loaded[c])
        /\ request'[c] \in Requests
    BY DEF Structure, Requested
  <1>2. request'[c].next # NoSession
    BY <1>1, RequestLemma DEF Structure, Requested
  <1>3. CASE source[c] = "memory"
    <2>1. /\ pc[c] \in {"cas", "send"}
          /\ Version(memory) = request'[c].expected /\ memory' = request'[c].next
      BY <1>0, <1>3 DEF MemoryStep
    <2>2. /\ request'[c].expected = Version(loaded[c])
          /\ request'[c].next.log = Append(Updates(loaded[c]), c)
      <3>1. CASE pc[c] = "send"
        BY <1>0, <3>1 DEF Steady, Snapshots
      <3>2. CASE pc[c] = "cas"
        <4>1. CallFallback(c)
          <5>1. \E e \in Calls : Step(e)
            BY DEF Next, vars, RetryDue, Delete, DeleteFallback, BridgeGet, BridgeSet
          <5>2. PICK e \in Calls : Step(e)
            BY <5>1
          <5>3. \E label \in Labels : Goto(e, label)
            BY <5>2 DEF Step, Read, Call, Eval, Watch, WatchedGet, Exec, Conditional,
               Reread, ReadFallback, CallFallback, EvalThrows, MemoryCas, Labels
          <5>4. e = c
            BY <5>3, GotoLemma
          <5> QED
            BY <3>2, <5>2, <5>4, GotoLemma DEF Step, Read, Call, Eval, Watch, WatchedGet,
               Exec, Conditional, Reread, ReadFallback, EvalThrows
        <4>2. request'[c] = [expected |-> Expected(c), next |-> NextValue(c)]
          BY <4>1 DEF CallFallback, Ask, Structure, TypeOK
        <4> QED
          BY <1>1, <4>2, AskLemma
      <3> QED
        BY <2>1, <3>1, <3>2
    <2>3. Precedes(loaded[c], memory)
      BY <1>3, <2>1 DEF Snapshots, Working, Store
    <2>4. Updates(loaded[c]) = Updates(memory)
      BY <2>1, <2>2, <2>3 DEF Precedes
    <2> QED
      BY <1>1, <1>2, <1>3, <2>1, <2>2, <2>4, KeepsLemma
  <1>4. CASE source[c] # "memory"
    <2>0. source[c] = "database"
      BY <1>4 DEF Structure, TypeOK
    <2>1. /\ pc[c] \in {"send", "exec"}
          /\ Version(cell) = request[c].expected /\ cell' = request[c].next
      BY <1>0, <2>0 DEF DatabaseStep
    <2>2. /\ request[c].expected = Version(loaded[c])
          /\ request[c].next.log = Append(Updates(loaded[c]), c)
          /\ request'[c] = request[c]
      BY <1>0, <2>1 DEF Snapshots, Steady
    <2>3. Precedes(loaded[c], cell)
      BY <2>0, <2>1 DEF Snapshots, Working, Store
    <2>4. Updates(loaded[c]) = Updates(cell)
      BY <2>1, <2>2, <2>3 DEF Precedes
    <2> QED
      BY <1>1, <1>2, <1>4, <2>1, <2>2, <2>4, KeepsLemma
  <1> QED
    BY <1>3, <1>4

\* No accepted compareAndSet drops an update of the session it replaces, for calls
\* that were answered by one store (RedisSessionAdapter and its siblings, and a
\* FailsafeSessionStorage that did not switch in between).
THEOREM NoUpdateOverwritten == Spec => UpdatesAreKept
  <1>1. Init => Snapshots
    <2>1. Precedes(NoSession, NoSession)
      BY PrecedesLemma DEF Numbered
    <2> QED
      BY <2>1 DEF Init, Snapshots, Working
  <1>2. Structure /\ Structure' /\ Winners /\ Snapshots /\ [Next]_vars => Snapshots'
    BY SnapshotsStep
  <1>3. Structure /\ Structure' /\ Winners /\ Snapshots /\ [Next]_vars =>
          [ \A c \in Calls :
              pc'[c] = "ok" /\ pc[c] # "ok" /\ source[c] = decider'[c] /\ Undisturbed =>
                IF source[c] = "memory" THEN Keeps(memory, memory') ELSE Keeps(cell, cell')
          ]_vars
    BY KeptStep
  <1> QED
    BY <1>1, <1>2, <1>3, StructureInvariant, WinnersInvariant, PTL DEF Spec, UpdatesAreKept

-------------------------------------------------------------------------------
(* The mini app's requests.                                                *)

\* Genuine compares the first hash with what computeInitDataHash computes.
LEMMA DigestLemma ==
  ASSUME NEW raw
  PROVE  Signature(raw, {i \in DOMAIN raw : raw[i][1] # "hash"}, BotToken)
           = Digest(raw, BotToken)
  <1>1. {i \in DOMAIN raw : raw[i][1] # "hash"} = DOMAIN raw \ Places(raw, "hash")
    BY DEF Places
  <1> QED
    BY <1>1 DEF Digest

\* A value that occurs once is the first and the last one.
LEMMA OnlyValue ==
  ASSUME NEW raw, NEW key, NEW i, i \in Int, Places(raw, key) = {i}
  PROVE  FirstValue(raw, key) = raw[i][2] /\ LastValue(raw, key) = raw[i][2]
  <1>1. (CHOOSE j \in Places(raw, key) : \A k \in Places(raw, key) : j <= k) = i
    OBVIOUS
  <1>2. (CHOOSE j \in Places(raw, key) : \A k \in Places(raw, key) : k <= j) = i
    OBVIOUS
  <1> QED
    BY <1>1, <1>2 DEF FirstValue, LastValue

\* What parseAndValidateInitData has checked of what it calls valid.
LEMMA ValidLemma ==
  ASSUME NEW raw
  PROVE  Verdict(raw, BotToken, Now) = "valid" <=>
           /\ raw # <<>>
           /\ Places(raw, "hash") # {} /\ Places(raw, "auth_date") # {}
           /\ FirstValue(raw, "auth_date") # <<>>
           /\ ~Expired(FirstValue(raw, "auth_date")[1], Now)
           /\ FirstValue(raw, "hash") = <<Digest(raw, BotToken)>>
  BY DEF Verdict

LEMMA PlacesLemma ==
  ASSUME NEW raw \in RawInitData, NEW key
  PROVE  Places(raw, key) \subseteq Nat /\ Places(raw, key) \subseteq DOMAIN raw
  <1>1. DOMAIN raw = 1 .. Len(raw) /\ Len(raw) \in Nat
    BY SessionAdaptersAssumption
  <1> QED
    BY <1>1 DEF Places

\* Whoever is authenticated has been signed for, recently.
LEMMA AuthenticatedIsGenuine ==
  ASSUME MaxAge > 0, NEW raw \in RawInitData, NEW user,
         AuthenticatedUser(<<raw>>, BotToken, Now) = <<user>>
  PROVE  Genuine(raw) /\ UsersOf(raw) = {<<user>>}
  <1>1. Verdict(raw, BotToken, Now) = "valid" /\ Parsed(raw).user = <<user>>
    BY DEF AuthenticatedUser
  <1>2. /\ Places(raw, "hash") # {} /\ Places(raw, "auth_date") # {}
        /\ FirstValue(raw, "auth_date") # <<>>
        /\ ~Expired(FirstValue(raw, "auth_date")[1], Now)
        /\ FirstValue(raw, "hash") = <<Digest(raw, BotToken)>>
    BY <1>1, ValidLemma
  <1>3. Places(raw, "user") # {} /\ LastValue(raw, "user") = <<user>>
    BY <1>1 DEF Parsed
  <1>4. PICK at, who \in DOMAIN raw :
          Places(raw, "auth_date") = {at} /\ Places(raw, "user") = {who}
    <2>1. /\ \A i, j \in Places(raw, "auth_date") : i = j
          /\ \A i, j \in Places(raw, "user") : i = j
      BY <1>2, SignedByTelegram
    <2>2. PICK at \in Places(raw, "auth_date") : TRUE
      BY <1>2
    <2>3. PICK who \in Places(raw, "user") : TRUE
      BY <1>3
    <2> QED
      BY <2>1, <2>2, <2>3, PlacesLemma
  <1>5. at \in Nat /\ who \in Nat
    BY <1>4, PlacesLemma
  <1>6. FirstValue(raw, "auth_date") = raw[at][2] /\ LastValue(raw, "user") = raw[who][2]
    BY <1>4, <1>5, OnlyValue
  <1>7. Now - raw[at][2][1] \in -Leeway .. MaxAge
    <2> DEFINE date == raw[at][2][1]
    <2>1. date \in Nat
      BY <1>2, <1>4, <1>6, SignedByTelegram
    <2>2. ~Expired(date, Now)
      BY <1>2, <1>6
    <2> HIDE DEF date
    <2>3. Now - date \in -Leeway .. MaxAge
      BY <2>1, <2>2, InitDataAssumption, SessionAdaptersAssumption DEF Expired
    <2> QED
      BY <2>3 DEF date
  <1>8. Genuine(raw)
    BY <1>2, <1>4, <1>6, <1>7, DigestLemma DEF Genuine
  <1>9. UsersOf(raw) = {<<user>>}
    BY <1>3, <1>4, <1>6 DEF UsersOf
  <1> QED
    BY <1>8, <1>9

\* And whoever has been signed for, recently, is authenticated.
LEMMA GenuineIsAuthenticated ==
  ASSUME NEW raw \in RawInitData, Genuine(raw)
  PROVE  UsersOf(raw) = {AuthenticatedUser(<<raw>>, BotToken, Now)}
  <1>1. PICK at, who \in DOMAIN raw :
          /\ Places(raw, "auth_date") = {at} /\ Places(raw, "user") = {who}
          /\ Places(raw, "hash") # {}
          /\ FirstValue(raw, "hash") =
               <<Signature(raw, {i \in DOMAIN raw : raw[i][1] # "hash"}, BotToken)>>
          /\ raw[at][2] # <<>>
          /\ Now - raw[at][2][1] \in -Leeway .. MaxAge
    BY DEF Genuine
  <1>2. at \in Nat /\ who \in Nat
    BY <1>1, PlacesLemma
  <1>3. FirstValue(raw, "auth_date") = raw[at][2] /\ LastValue(raw, "user") = raw[who][2]
    <2>1. Places(raw, "auth_date") = {at} /\ Places(raw, "user") = {who}
      BY <1>1
    <2>2. at \in Int /\ who \in Int
      BY <1>2
    <2> QED
      BY <2>1, <2>2, OnlyValue
  <1>4. FirstValue(raw, "hash") = <<Digest(raw, BotToken)>>
    BY <1>1, DigestLemma
  <1>5. ~Expired(raw[at][2][1], Now)
    <2> DEFINE date == raw[at][2][1]
    <2>1. date \in Nat
      BY <1>1, <1>4, SignedByTelegram
    <2>2. Now - date \in -Leeway .. MaxAge
      BY <1>1
    <2> HIDE DEF date
    <2>3. ~Expired(date, Now)
      BY <2>1, <2>2, InitDataAssumption, SessionAdaptersAssumption DEF Expired
    <2> QED
      BY <2>3 DEF date
  <1>6. raw # <<>>
    BY <1>1
  <1>7. Verdict(raw, BotToken, Now) = "valid"
    BY <1>1, <1>3, <1>4, <1>5, <1>6, ValidLemma
  <1>8. Parsed(raw).user = raw[who][2]
    BY <1>1, <1>3 DEF Parsed
  <1>9. AuthenticatedUser(<<raw>>, BotToken, Now) = raw[who][2]
    BY <1>6, <1>7, <1>8 DEF AuthenticatedUser
  <1> QED
    BY <1>1, <1>9 DEF UsersOf

\* What the bridge works on was authenticated for the user of the key.
Authenticated ==
  bridge # Idle =>
    /\ bridge.raw \in RawInitData
    /\ AuthenticatedUser(<<bridge.raw>>, BotToken, Now) = <<User>>

\* The mini app works on the session of the user for whom Telegram signed its
\* request, and no genuine request is turned away, for any init data, as long as
\* init data expires and HMAC is not forged (SignedByTelegram).
THEOREM RightUserServed ==
  ASSUME MaxAge > 0
  PROVE  Spec => []BridgeServesItsUser
  <1>1. Init => Authenticated
    BY DEF Init, Authenticated
  <1>2. Authenticated /\ [Next]_vars => Authenticated'
    <2> SUFFICES ASSUME Authenticated, [Next]_vars PROVE Authenticated'
      OBVIOUS
    <2>1. CASE bridge' = bridge
      BY <2>1 DEF Authenticated, Idle
    <2>2. ASSUME NEW raw \in RawInitData, BridgeGet(raw) PROVE Authenticated'
      <3>1. bridge'.raw = raw /\ AuthenticatedUser(<<raw>>, BotToken, Now) = <<User>>
        BY <2>2 DEF BridgeGet
      <3> QED
        BY <3>1 DEF Authenticated
    <2>3. CASE BridgeSet
      BY <2>3 DEF BridgeSet, Authenticated, Idle
    <2>4. ASSUME NEW c \in Calls, Step(c) PROVE bridge' = bridge
      BY <2>4 DEF Step, Read, Call, Eval, Watch, WatchedGet, Exec, Conditional, Reread,
                  ReadFallback, CallFallback, EvalThrows
    <2> QED
      BY <2>1, <2>2, <2>3, <2>4 DEF Next, vars, RetryDue, Delete, DeleteFallback
  <1>3. Authenticated => BridgeServesItsUser
    BY AuthenticatedIsGenuine, GenuineIsAuthenticated
       DEF Authenticated, BridgeServesItsUser
  <1> QED
    BY <1>1, <1>2, <1>3, PTL DEF Spec

===============================================================================
