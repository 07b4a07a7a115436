---------------------------- MODULE BotKernelProofs ----------------------------
(***************************************************************************)
(* What BotKernel and the router guarantee for any number of deliveries,   *)
(* any scenes and transition table, any routes and middlewares and any     *)
(* number of retries and scene changes.                                    *)
(***************************************************************************)
EXTENDS BotKernel, FiniteSetTheorems, SequenceTheorems, WellFoundedInduction, TLAPS

Anywhere == Scenes \cup {NoValue}
AnyMove == [from : Anywhere, to : Anywhere, by : Deliveries]
Frame == [at : Nat, nexts : Nat]
Stages == {"idle", "load", "dispatch", "pipe", "handler", "save",
           "saved", "rejected", "ignored"}
Jobs ==
  [pc : Stages, kind : Kinds \cup {"none"}, attempt : Nat, version : Nat,
   path : Seq(AnyMove), moves : Seq(AnyMove), route : Nat, index : Nat,
   stack : Seq(Frame), passed : SUBSET Nat, handled : BOOLEAN]

RouterOK ==
  /\ routes \in Seq(KnownRoutes)
  /\ middlewares \in MiddlewareTables
  /\ sorted \in {Unsorted, SortedPositions(routes)}

TypeOK ==
  /\ RouterOK
  /\ store \in [version : Nat, path : Seq(AnyMove)]
  /\ job \in [Deliveries -> Jobs]
  /\ fulfilled \in [Deliveries -> Nat] /\ answered \in [Deliveries -> Nat]
  /\ \A d \in Deliveries : job[d].route \in 0 .. Len(routes)

-------------------------------------------------------------------------------
(* The session.                                                            *)

HasClone(d) == job[d].pc \in {"dispatch", "pipe", "handler", "save"}

\* A sequence of scene changes without gaps, along allowed transitions, and none of
\* them untold.
Serial(path, told) ==
  \A i \in DOMAIN path :
    /\ path[i].from = IF i = 1 THEN NoValue ELSE path[i - 1].to
    /\ path[i].to # NoValue /\ path[i].from # NoValue =>
         Allowed(path[i].from, path[i].to)
    /\ path[i].to # NoValue => path[i] \in told

Told == announced \cup hookFailed

\* A clone is not newer than the stored session, and if it is not older either it
\* is the stored session and what its own runner has changed since.
CloneInv(d) ==
  HasClone(d) =>
    /\ job[d].version <= store.version
    /\ Serial(job[d].path, Told)
    /\ \A i \in DOMAIN job[d].moves : job[d].moves[i].by = d
    /\ job[d].version = store.version => job[d].path = store.path \o job[d].moves

Stored(d) ==
  CASE job[d].pc = "saved"    -> StoredAs(d, job[d].moves)
    [] job[d].pc = "rejected" -> StoredAs(d, job[d].moves) \/ StoredAs(d, <<>>)
    [] OTHER                  -> StoredAs(d, <<>>)

SessionInv ==
  /\ Serial(store.path, Told)
  /\ \A d \in Deliveries : CloneInv(d) /\ Stored(d)

-------------------------------------------------------------------------------
(* The pipeline.                                                           *)

InPipeline(d) == job[d].pc \in {"pipe", "handler"}

\* A run starts from nothing.
StartInv(d) ==
  job[d].pc = "dispatch" =>
    /\ job[d].index = 0 /\ job[d].stack = <<>> /\ job[d].passed = {}
    /\ job[d].handled = FALSE

\* The middleware on top has just been called: it is the last one that was.
TopOf(run) == run.stack[Len(run.stack)]
IsFresh(run) == run.pc = "pipe" /\ TopOf(run).nexts = 0

\* Everything below the top of the stack has called next, and so has the top when
\* the handler runs.  If nobody calls it twice then all that was called before has.
StackOK(run, chain) ==
  /\ run.stack # <<>> /\ run.index <= Len(chain)
  /\ \A k \in 1 .. Len(run.stack) :
       /\ run.stack[k].at <= run.index
       /\ k < Len(run.stack) => run.stack[k].nexts > 0
  /\ TopOf(run).nexts = 0 => run.pc = "pipe" /\ TopOf(run).at = run.index
  /\ run.pc = "handler" => run.index = Len(chain)
  /\ (\A i \in DOMAIN chain : chain[i] # "twice") =>
       /\ IsFresh(run) => 1 .. run.index - 1 \subseteq run.passed
       /\ run.pc = "handler" => 1 .. run.index \subseteq run.passed

StackInv(d) ==
  InPipeline(d) => job[d].route \in DOMAIN routes /\ StackOK(job[d], Chain(d))

-------------------------------------------------------------------------------
(* Payments.                                                               *)

\* The application has registered the payment middleware once at most on the way
\* to any handler.
OnePayment ==
  \A table \in MiddlewareTables, route \in KnownRoutes :
    LET chain == PipelineOf(table, route)
    IN  \A i, j \in DOMAIN chain :
          chain[i] = "payment" /\ chain[j] = "payment" => i = j

Payments(chain) == {p \in DOMAIN chain : chain[p] = "payment"}

\* Those that have not done their part in this run.
Due(run, chain) ==
  {p \in Payments(chain) : p > run.index \/ (IsFresh(run) /\ TopOf(run).at = p)}

Calls(d) == fulfilled[d] + answered[d]

\* Before the payment middleware has done its part in this run, there was at most
\* one call for each earlier run.
PayCount(d) ==
  /\ Calls(d) <= job[d].attempt
  /\ job[d].pc \in {"idle", "load", "dispatch"} => Calls(d) < job[d].attempt
  /\ InPipeline(d) /\ Payments(Chain(d)) \subseteq Due(job[d], Chain(d)) =>
       Calls(d) < job[d].attempt

PayDone(d) ==
  job[d].kind = "payment" =>
    /\ InPipeline(d) /\ Payments(Chain(d)) # Due(job[d], Chain(d)) => fulfilled[d] > 0
    /\ job[d].pc \in {"pipe", "handler", "save", "saved"} /\ job[d].handled
         /\ Payments(Chain(d)) # {} => fulfilled[d] > 0

RunInv(d) == StartInv(d) /\ StackInv(d) /\ PayDone(d)

IInv ==
  /\ TypeOK
  /\ SessionInv
  /\ \A d \in Deliveries : RunInv(d)

-------------------------------------------------------------------------------
(* The router.                                                             *)

LEMMA Least ==
  ASSUME NEW T \in SUBSET Nat, T # {}
  PROVE  \E n \in T : \A m \in T : n <= m
  <1>1. PICK n \in T : \A m \in T : <<m, n>> \notin OpToRel(<, Nat)
    BY NatLessThanWellFounded, WFMin
  <1>2. \A m, k \in Nat : m < k => <<m, k>> \in OpToRel(<, Nat)
    BY DEF OpToRel
  <1>3. \A m \in T : ~(m < n) /\ m \in Nat /\ n \in Nat
    BY <1>1, <1>2
  <1> QED
    BY <1>3

\* The number of entries ahead tells the place of an entry.
LEMMA AheadCounts ==
  ASSUME NEW entries, NEW N \in Nat, DOMAIN entries = 1 .. N,
         \A i \in 1 .. N : entries[i].priority \in Int
  PROVE  /\ \A i \in 1 .. N : Cardinality(Ahead(entries, i)) \in 0 .. N - 1
         /\ \A i, j \in 1 .. N :
              RunsBefore(entries, i, j) =>
                Cardinality(Ahead(entries, i)) < Cardinality(Ahead(entries, j))
  <1>1. IsFiniteSet(1 .. N) /\ Cardinality(1 .. N) = N
    <2>1. IsFiniteSet(1 .. N) /\ Cardinality(1 .. N) = IF 1 > N THEN 0 ELSE N - 1 + 1
      BY FS_Interval
    <2> QED
      BY <2>1
  <1>2. \A i \in 1 .. N : Ahead(entries, i) \subseteq 1 .. N /\ i \notin Ahead(entries, i)
    BY DEF Ahead, RunsBefore
  <1>3. \A i \in 1 .. N : IsFiniteSet(Ahead(entries, i)) /\ Cardinality(Ahead(entries, i)) \in Nat
    BY <1>1, <1>2, FS_Subset, FS_CardinalityType
  <1>4. ASSUME NEW i \in 1 .. N PROVE Cardinality(Ahead(entries, i)) < N
    <2>1. Ahead(entries, i) # 1 .. N
      BY <1>2
    <2> QED
      BY <1>1, <1>2, <1>3, <2>1, FS_Subset
  <1>5. ASSUME NEW i \in 1 .. N, NEW j \in 1 .. N, RunsBefore(entries, i, j)
        PROVE  Cardinality(Ahead(entries, i)) < Cardinality(Ahead(entries, j))
    <2>1. Ahead(entries, i) \subseteq Ahead(entries, j)
      BY <1>5 DEF Ahead, RunsBefore
    <2>2. i \in Ahead(entries, j)
      BY <1>5 DEF Ahead
    <2>3. Ahead(entries, i) # Ahead(entries, j)
      BY <1>2, <2>2
    <2>4. Cardinality(Ahead(entries, i)) <= Cardinality(Ahead(entries, j))
          /\ (Cardinality(Ahead(entries, i)) = Cardinality(Ahead(entries, j)) =>
                 Ahead(entries, i) = Ahead(entries, j))
      BY <1>3, <2>1, FS_Subset
    <2> QED
      BY <1>3, <2>3, <2>4
  <1> QED
    BY <1>3, <1>4, <1>5

\* SortedPositions lists every entry, and each before those it runs before.
LEMMA SortedLemma ==
  ASSUME NEW entries, NEW N \in Nat, DOMAIN entries = 1 .. N,
         \A i \in 1 .. N : entries[i].priority \in Int
  PROVE  LET positions == SortedPositions(entries)
         IN  /\ positions \in [1 .. N -> 1 .. N]
             /\ \A i \in 1 .. N : \E n \in 1 .. N : positions[n] = i
             /\ \A m, n \in 1 .. N :
                  m < n => RunsBefore(entries, positions[m], positions[n])
  <1> DEFINE positions == SortedPositions(entries)
             count == [i \in 1 .. N |-> Cardinality(Ahead(entries, i))]
  <1>1. count \in [1 .. N -> 0 .. N - 1]
    BY AheadCounts
  <1>2. \A i, j \in 1 .. N : i # j => RunsBefore(entries, i, j) \/ RunsBefore(entries, j, i)
    BY DEF RunsBefore
  <1>3. \A i, j \in 1 .. N : RunsBefore(entries, i, j) => count[i] < count[j]
    BY AheadCounts
  <1>4. \A i, j \in 1 .. N : count[i] = count[j] => i = j
    <2> SUFFICES ASSUME NEW i \in 1 .. N, NEW j \in 1 .. N, i # j PROVE count[i] # count[j]
      OBVIOUS
    <2>1. count[i] \in Int /\ count[j] \in Int
      BY <1>1
    <2>2. count[i] < count[j] \/ count[j] < count[i]
      BY <1>2, <1>3
    <2> QED
      BY <2>1, <2>2
  <1>5. \A c \in 0 .. N - 1 : \E i \in 1 .. N : count[i] = c
    <2> HIDE DEF count
    <2>1. count \in Injection(1 .. N, 0 .. N - 1)
      BY <1>1, <1>4 DEF Injection, IsInjective
    <2>2. /\ IsFiniteSet(1 .. N) /\ IsFiniteSet(0 .. N - 1)
          /\ Cardinality(1 .. N) = IF 1 > N THEN 0 ELSE N - 1 + 1
          /\ Cardinality(0 .. N - 1) = IF 0 > N - 1 THEN 0 ELSE N - 1 - 0 + 1
      BY FS_Interval
    <2>3. Cardinality(1 .. N) = Cardinality(0 .. N - 1)
      BY <2>2
    <2>4. count \in Surjection(1 .. N, 0 .. N - 1)
      BY <2>1, <2>2, <2>3, FS_Injection
    <2> QED
      BY <2>4 DEF Surjection
  <1>6. \A n \in 1 .. N : positions[n] \in 1 .. N /\ count[positions[n]] = n - 1
    <2> SUFFICES ASSUME NEW n \in 1 .. N
                 PROVE  positions[n] \in 1 .. N /\ count[positions[n]] = n - 1
      OBVIOUS
    <2>1. \E i \in 1 .. N : Cardinality(Ahead(entries, i)) = n - 1
      BY <1>5
    <2>2. positions[n] = CHOOSE i \in 1 .. N : Cardinality(Ahead(entries, i)) = n - 1
      BY DEF SortedPositions
    <2> QED
      BY <2>1, <2>2
  <1>7. positions \in [1 .. N -> 1 .. N]
    BY <1>6 DEF SortedPositions
  <1> HIDE DEF positions, count
  <1>8. ASSUME NEW i \in 1 .. N PROVE \E n \in 1 .. N : positions[n] = i
    <2>1. count[i] + 1 \in 1 .. N
      BY <1>1
    <2>2. count[positions[count[i] + 1]] = count[i] /\ positions[count[i] + 1] \in 1 .. N
      BY <1>1, <1>6, <2>1
    <2> QED
      BY <1>4, <2>1, <2>2
  <1>9. ASSUME NEW m \in 1 .. N, NEW n \in 1 .. N, m < n
        PROVE  RunsBefore(entries, positions[m], positions[n])
    <2>1. /\ positions[m] \in 1 .. N /\ positions[n] \in 1 .. N
          /\ count[positions[m]] = m - 1 /\ count[positions[n]] = n - 1
      BY <1>6
    <2>2. positions[m] # positions[n]
      BY <1>9, <2>1
    <2>3. ~RunsBefore(entries, positions[n], positions[m])
      BY <1>3, <1>9, <2>1
    <2> QED
      BY <1>2, <2>1, <2>2, <2>3
  <1> QED
    BY <1>7, <1>8, <1>9 DEF positions

\* What the loop of dispatch finds in the sorted list is the best match.
LEMMA FirstIsBest ==
  ASSUME NEW list \in Seq(KnownRoutes), NEW meta
  PROVE  LET first == FirstMatch(list, SortedPositions(list), meta)
         IN  /\ first \in 0 .. Len(list)
             /\ first # 0 => BestMatch(list, meta) = {first}
  <1> DEFINE N == Len(list)
             positions == SortedPositions(list)
             matching == {n \in DOMAIN positions : Matches(list[positions[n]], meta)}
             least == CHOOSE n \in matching : \A m \in matching : n <= m
  <1>1. N \in Nat /\ DOMAIN list = 1 .. N /\ \A i \in 1 .. N : list[i].priority \in Int
    BY BotKernelAssumption
  <1>2. /\ positions \in [1 .. N -> 1 .. N]
        /\ \A i \in 1 .. N : \E n \in 1 .. N : positions[n] = i
        /\ \A m, n \in 1 .. N : m < n => RunsBefore(list, positions[m], positions[n])
    <2> HIDE DEF N
    <2> QED
      BY <1>1, SortedLemma
  <1>3. CASE matching = {}
    BY <1>1, <1>3 DEF FirstMatch
  <1>4. CASE matching # {}
    <2>1. matching \in SUBSET Nat
      BY <1>1, <1>2
    <2>2. \E n \in matching : \A m \in matching : n <= m
      BY <1>4, <2>1, Least
    <2>3. least \in matching /\ \A m \in matching : least <= m
      BY <2>2
    <2>4. FirstMatch(list, positions, meta) = positions[least]
      BY <1>4 DEF FirstMatch
    <2> HIDE DEF least, N
    <2>5. /\ least \in 1 .. N /\ positions[least] \in 1 .. N
          /\ Matches(list[positions[least]], meta)
      BY <1>2, <2>3
    <2>6. ASSUME NEW j \in 1 .. N, Matches(list[j], meta)
          PROVE  j = positions[least] \/ RunsBefore(list, positions[least], j)
      <3>1. PICK m \in 1 .. N : positions[m] = j
        BY <1>2
      <3>2. m \in matching
        BY <1>2, <2>6, <3>1
      <3>3. least = m \/ least < m
        BY <2>3, <2>5, <3>2
      <3> QED
        BY <1>2, <2>5, <3>1, <3>3
    <2>7. positions[least] \in BestMatch(list, meta)
      BY <1>1, <2>5, <2>6 DEF BestMatch, RunsBefore
    <2>8. ASSUME NEW i \in BestMatch(list, meta) PROVE i = positions[least]
      <3>1. i \in 1 .. N /\ Matches(list[i], meta)
        BY <1>1 DEF BestMatch
      <3>2. \/ list[positions[least]].priority < list[i].priority
            \/ list[positions[least]].priority = list[i].priority /\ i <= positions[least]
        BY <1>1, <2>5 DEF BestMatch
      <3> QED
        BY <1>1, <2>5, <2>6, <3>1, <3>2 DEF RunsBefore
    <2> QED
      BY <1>1, <2>4, <2>5, <2>7, <2>8
  <1> QED
    BY <1>3, <1>4

\* A pipeline is a sequence of middlewares.
LEMMA PipelineLemma ==
  ASSUME NEW table \in MiddlewareTables, NEW route \in KnownRoutes
  PROVE  PipelineOf(table, route) \in Seq(Behaviours)
  <1> DEFINE N == Len(table)
             fns == [n \in DOMAIN SortedPositions(table) |-> table[SortedPositions(table)[n]].fn]
  <1>1. table \in Seq(GlobalMiddleware)
    BY BotKernelAssumption
  <1>2. /\ N \in Nat /\ DOMAIN table = 1 .. N
        /\ \A i \in 1 .. N : table[i].priority \in Int /\ table[i].fn \in Behaviours
    <2>1. N \in Nat /\ DOMAIN table = 1 .. N
      BY <1>1
    <2>2. \A i \in 1 .. N : table[i] \in GlobalMiddleware
      BY <1>1, <2>1
    <2> QED
      BY <2>1, <2>2 DEF GlobalMiddleware
  <1>3. SortedPositions(table) \in [1 .. N -> 1 .. N]
    <2> HIDE DEF N
    <2> QED
      BY <1>2, SortedLemma
  <1>4. fns \in [1 .. N -> Behaviours]
    BY <1>2, <1>3
  <1>5. PipelineOf(table, route) = fns \o route.middlewares
    BY DEF PipelineOf
  <1>6. fns \in Seq(Behaviours)
    <2> HIDE DEF N, fns
    <2> QED
      BY <1>2, <1>4
  <1>7. route.middlewares \in Seq(Behaviours)
    BY BotKernelAssumption
  <1> QED
    BY <1>5, <1>6, <1>7

-------------------------------------------------------------------------------
(* Types, and what a step leaves alone.                                    *)

\* A step of delivery d.
DeliveryStep(d) ==
  \/ Step(d) \/ Throw(d) \/ Leave(d)
  \/ \E to \in Scenes : Enter(d, to) \/ EnterHookThrows(d, to)

LEMMA StepKinds ==
  ASSUME [Next]_vars
  PROVE  \/ UNCHANGED vars
         \/ \E route \in LateRoutes : Register(route)
         \/ \E d \in Deliveries : DeliveryStep(d)
  BY DEF Next, DeliveryStep

\* What a delivery continues with is all that changes in job.
LEMMA GotoLemma ==
  ASSUME job \in [Deliveries -> Jobs], NEW d \in Deliveries, NEW r, Goto(d, r)
  PROVE  /\ job'[d] = r
         /\ \A e \in Deliveries : e # d => job'[e] = job[e]
         /\ r \in Jobs => job' \in [Deliveries -> Jobs]
  BY DEF Goto

\* A step of one delivery changes nothing of the others and nothing of the router
\* but its cache.
LEMMA Frames ==
  ASSUME TypeOK, NEW d \in Deliveries, DeliveryStep(d)
  PROVE  /\ routes' = routes /\ middlewares' = middlewares
         /\ \A e \in Deliveries :
              e # d => /\ job'[e] = job[e]
                       /\ fulfilled'[e] = fulfilled[e] /\ answered'[e] = answered[e]
         /\ sorted' = sorted \/ sorted' = SortedPositions(routes)
         /\ announced \subseteq announced' /\ hookFailed \subseteq hookFailed'
         /\ ~Save(d) => store' = store
  <1>1. /\ job \in [Deliveries -> Jobs]
        /\ fulfilled \in [Deliveries -> Nat] /\ answered \in [Deliveries -> Nat]
        /\ sorted = Unsorted \/ sorted = SortedPositions(routes)
    BY DEF TypeOK, RouterOK
  <1>2. \A e \in Deliveries : e # d => job'[e] = job[e]
    <2>1. \E r : Goto(d, r)
      <3>1. ASSUME NEW kind \in Kinds, Receive(d, kind) PROVE \E r : Goto(d, r)
        BY <3>1 DEF Receive
      <3>2. CASE Load(d) \/ HandlerReturns(d) \/ Return(d)
        BY <3>2 DEF Load, HandlerReturns, Return
      <3>3. CASE Dispatch(d)
        BY <3>3 DEF Dispatch, Go
      <3>4. CASE CallNext(d)
        BY <3>4 DEF CallNext
      <3>5. CASE Save(d)
        BY <3>5 DEF Save, End
      <3>6. CASE Throw(d)
        BY <3>6 DEF Throw, End
      <3>7. CASE Leave(d)
        BY <3>7 DEF Leave, Moved
      <3>8. ASSUME NEW to \in Scenes, Enter(d, to) \/ EnterHookThrows(d, to)
            PROVE  \E r : Goto(d, r)
        BY <3>8 DEF Enter, EnterHookThrows, Moved
      <3> QED
        BY <3>1, <3>2, <3>3, <3>4, <3>5, <3>6, <3>7, <3>8 DEF DeliveryStep, Step
    <2> QED
      BY <1>1, <2>1, GotoLemma
  <1>3. /\ routes' = routes /\ middlewares' = middlewares
        /\ sorted' = sorted \/ sorted' = SortedPositions(routes)
        /\ announced \subseteq announced' /\ hookFailed \subseteq hookFailed'
        /\ ~Save(d) => store' = store
    BY <1>1 DEF DeliveryStep, Step, Receive, Load, Dispatch, CallNext, Return, HandlerReturns,
       Save, Throw, Leave, Enter, EnterHookThrows, outside
  <1>4. \A e \in Deliveries :
          e # d => fulfilled'[e] = fulfilled[e] /\ answered'[e] = answered[e]
    BY <1>1 DEF DeliveryStep, Step, Receive, Load, Dispatch, CallNext, Return, HandlerReturns,
       Save, Throw, Leave, Enter, EnterHookThrows, outside
  <1> QED
    BY <1>2, <1>3, <1>4

\* Path elements are moves, also after one more.
LEMMA MoveLemma ==
  ASSUME TypeOK, NEW d \in Deliveries, NEW to \in Anywhere
  PROVE  /\ Move(d, to) \in AnyMove
         /\ Append(job[d].path, Move(d, to)) \in Seq(AnyMove)
         /\ Append(job[d].moves, Move(d, to)) \in Seq(AnyMove)
  <1>1. job[d].path \in Seq(AnyMove) /\ job[d].moves \in Seq(AnyMove)
    BY DEF TypeOK, Jobs
  <1>2. SceneAfter(job[d].path) \in Anywhere
    <2>1. CASE job[d].path = <<>>
      BY <2>1 DEF SceneAfter, Anywhere
    <2>2. CASE job[d].path # <<>>
      <3>1. job[d].path[Len(job[d].path)] \in AnyMove
        BY <1>1, <2>2
      <3> QED
        BY <2>2, <3>1 DEF SceneAfter, AnyMove
    <2> QED
      BY <2>1, <2>2
  <1>3. Move(d, to) \in AnyMove
    BY <1>2 DEF Move, AnyMove
  <1> QED
    BY <1>1, <1>3

LEMMA InitType == Init => TypeOK
  <1> SUFFICES ASSUME Init PROVE TypeOK
    OBVIOUS
  <1>1. routes \in Seq(KnownRoutes)
    BY BotKernelAssumption DEF Init
  <1>2. NewJob \in Jobs
    BY DEF NewJob, Jobs, Stages
  <1>3. job \in [Deliveries -> Jobs] /\ \A d \in Deliveries : job[d] = NewJob
    BY <1>2 DEF Init
  <1>4. \A d \in Deliveries : job[d].route = 0
    BY <1>3 DEF NewJob
  <1> QED
    BY <1>1, <1>3, <1>4 DEF Init, TypeOK, RouterOK

-------------------------------------------------------------------------------
(* What each step does to the record of its delivery, field by field.      *)

JobFields ==
  {"pc", "kind", "attempt", "version", "path", "moves", "route", "index", "stack",
   "passed", "handled"}

\* Record s has the fields of r, but for some of them other values.
Becomes(r, s, changed) ==
  /\ s = [f \in JobFields |-> s[f]]
  /\ \A f \in JobFields \ changed : s[f] = r[f]

LEMMA JobIsRecord ==
  ASSUME NEW r \in Jobs PROVE r = [f \in JobFields |-> r[f]]
  BY DEF Jobs, JobFields

LEMMA JobMade ==
  ASSUME NEW s, s = [f \in JobFields |-> s[f]],
         s.pc \in Stages, s.kind \in Kinds \cup {"none"}, s.attempt \in Nat,
         s.version \in Nat, s.path \in Seq(AnyMove), s.moves \in Seq(AnyMove),
         s.route \in Nat, s.index \in Nat, s.stack \in Seq(Frame), s.passed \in SUBSET Nat,
         s.handled \in BOOLEAN
  PROVE  s \in Jobs
  BY DEF Jobs, JobFields

FieldTypes ==
  [pc |-> Stages, kind |-> Kinds \cup {"none"}, attempt |-> Nat, version |-> Nat,
   path |-> Seq(AnyMove), moves |-> Seq(AnyMove), route |-> Nat, index |-> Nat,
   stack |-> Seq(Frame), passed |-> SUBSET Nat, handled |-> BOOLEAN]

LEMMA JobUpdated ==
  ASSUME NEW r \in Jobs, NEW s, NEW changed, Becomes(r, s, changed),
         \A f \in changed : s[f] \in FieldTypes[f]
  PROVE  s \in Jobs /\ ("route" \notin changed => s.route = r.route)
  <1>1. \A f \in JobFields : r[f] \in FieldTypes[f]
    BY DEF Jobs, JobFields, FieldTypes
  <1>2. \A f \in JobFields : s[f] \in FieldTypes[f]
    BY <1>1 DEF Becomes
  <1>3. s = [f \in JobFields |-> s[f]]
    BY DEF Becomes
  <1>4. /\ s.pc \in Stages /\ s.kind \in Kinds \cup {"none"} /\ s.attempt \in Nat
        /\ s.version \in Nat /\ s.path \in Seq(AnyMove) /\ s.moves \in Seq(AnyMove)
        /\ s.route \in Nat /\ s.index \in Nat /\ s.stack \in Seq(Frame)
        /\ s.passed \in SUBSET Nat /\ s.handled \in BOOLEAN
    BY <1>2 DEF JobFields, FieldTypes
  <1>5. s \in Jobs
    BY <1>3, <1>4, JobMade
  <1>6. "route" \notin changed => s.route = r.route
    BY DEF Becomes, JobFields
  <1> QED
    BY <1>5, <1>6

\* A field outside the changed ones keeps its value.
LEMMA Kept ==
  ASSUME NEW r, NEW s, NEW changed, Becomes(r, s, changed)
  PROVE  /\ "kind" \notin changed => s.kind = r.kind
         /\ "attempt" \notin changed => s.attempt = r.attempt
         /\ "version" \notin changed => s.version = r.version
         /\ "path" \notin changed => s.path = r.path
         /\ "moves" \notin changed => s.moves = r.moves
         /\ "route" \notin changed => s.route = r.route
         /\ "index" \notin changed => s.index = r.index
         /\ "stack" \notin changed => s.stack = r.stack
         /\ "passed" \notin changed => s.passed = r.passed
         /\ "handled" \notin changed => s.handled = r.handled
         /\ "pc" \notin changed => s.pc = r.pc
  BY DEF Becomes, JobFields

LEMMA ReceiveEffect ==
  ASSUME TypeOK, NEW d \in Deliveries, NEW kind \in Kinds, Receive(d, kind)
  PROVE  /\ job[d].pc = "idle"
         /\ Becomes(job[d], job'[d], {"pc", "kind"})
         /\ job'[d].pc \in {"load", "ignored"} /\ job'[d].kind = kind
  <1>1. job[d] \in Jobs /\ job[d] = [f \in JobFields |-> job[d][f]]
    BY JobIsRecord DEF TypeOK
  <1>2. job'[d] = [job[d] EXCEPT !.kind = kind,
                                 !.pc = IF kind = "keyless" THEN "ignored" ELSE "load"]
    BY GotoLemma DEF Receive, TypeOK
  <1>3. job'[d] = [f \in JobFields |-> job'[d][f]]
    BY <1>1, <1>2
  <1>4. /\ \A f \in JobFields \ {"pc", "kind"} : job'[d][f] = job[d][f]
        /\ job'[d].pc \in {"load", "ignored"} /\ job'[d].kind = kind
    BY <1>1, <1>2 DEF JobFields
  <1> QED
    BY <1>3, <1>4 DEF Becomes, Receive

LEMMA LoadEffect ==
  ASSUME TypeOK, NEW d \in Deliveries, Load(d)
  PROVE  /\ job[d].pc = "load"
         /\ Becomes(NewJob, job'[d], {"pc", "kind", "attempt", "version", "path"})
         /\ job'[d].pc = "dispatch" /\ job'[d].kind = job[d].kind
         /\ job'[d].attempt = job[d].attempt
         /\ job'[d].version = store.version /\ job'[d].path = store.path
  <1>1. NewJob = [f \in JobFields |-> NewJob[f]]
    BY DEF NewJob, JobFields
  <1>2. job'[d] = [NewJob EXCEPT !.pc = "dispatch", !.kind = job[d].kind,
                                 !.attempt = job[d].attempt,
                                 !.version = store.version, !.path = store.path]
    BY GotoLemma DEF Load, TypeOK
  <1>3. job'[d] = [f \in JobFields |-> job'[d][f]]
    BY <1>1, <1>2
  <1>4. /\ \A f \in JobFields \ {"pc", "kind", "attempt", "version", "path"} :
             job'[d][f] = NewJob[f]
        /\ job'[d].pc = "dispatch" /\ job'[d].kind = job[d].kind
        /\ job'[d].attempt = job[d].attempt
        /\ job'[d].version = store.version /\ job'[d].path = store.path
    BY <1>1, <1>2 DEF JobFields
  <1> QED
    BY <1>3, <1>4 DEF Becomes, Load

LEMMA DispatchEffect ==
  ASSUME TypeOK, NEW d \in Deliveries, Dispatch(d)
  PROVE  /\ job[d].pc = "dispatch"
         /\ \/ Becomes(job[d], job'[d], {"pc"}) /\ job'[d].pc = "save"
            \/ /\ Becomes(job[d], job'[d], {"pc", "route", "stack"})
               /\ job'[d].pc = "pipe" /\ job'[d].route \in DOMAIN routes
               /\ job'[d].stack = <<[at |-> 0, nexts |-> 0]>>
               /\ BestMatch(routes, Meta(d)) = {job'[d].route}
  <1> DEFINE chosen == FirstMatch(routes, sorted', Meta(d))
             first == [at |-> 0, nexts |-> 0]
  <1>1. job[d] \in Jobs /\ job[d] = [f \in JobFields |-> job[d][f]]
    BY JobIsRecord DEF TypeOK
  <1>2. sorted' = SortedPositions(routes) /\ routes \in Seq(KnownRoutes)
    BY DEF Dispatch, TypeOK, RouterOK
  <1>3. chosen \in 0 .. Len(routes) /\ (chosen # 0 => BestMatch(routes, Meta(d)) = {chosen})
    BY <1>2, FirstIsBest
  <1>4. CASE chosen = 0
    <2>1. job'[d] = [job[d] EXCEPT !.pc = "save"]
      BY <1>4, GotoLemma DEF Dispatch, Go, TypeOK
    <2>2. job'[d] = [f \in JobFields |-> job'[d][f]]
      BY <1>1, <2>1
    <2>3. (\A f \in JobFields \ {"pc"} : job'[d][f] = job[d][f]) /\ job'[d].pc = "save"
      BY <1>1, <2>1 DEF JobFields
    <2> QED
      BY <2>2, <2>3 DEF Becomes, Dispatch
  <1>5. CASE chosen # 0
    <2>1. job'[d] = [job[d] EXCEPT !.pc = "pipe", !.route = chosen, !.stack = <<first>>]
      BY <1>5, GotoLemma DEF Dispatch, TypeOK
    <2> HIDE DEF chosen, first
    <2>2. job'[d] = [f \in JobFields |-> job'[d][f]]
      BY <1>1, <2>1
    <2>3. /\ \A f \in JobFields \ {"pc", "route", "stack"} : job'[d][f] = job[d][f]
          /\ job'[d].pc = "pipe" /\ job'[d].route = chosen /\ job'[d].stack = <<first>>
      BY <1>1, <2>1 DEF JobFields
    <2>4. chosen \in DOMAIN routes
      BY <1>2, <1>3, <1>5
    <2>5. BestMatch(routes, Meta(d)) = {chosen}
      BY <1>3, <1>5
    <2> QED
      BY <2>2, <2>3, <2>4, <2>5 DEF Becomes, Dispatch, first
  <1> QED
    BY <1>4, <1>5

LEMMA EndEffect ==
  ASSUME TypeOK, NEW d \in Deliveries, NEW pc, End(d, pc)
  PROVE  /\ Becomes(job[d], job'[d], {"pc", "version", "path", "index", "stack", "passed"})
         /\ job'[d].pc = pc /\ job'[d].version = 0 /\ job'[d].path = <<>>
         /\ job'[d].index = 0 /\ job'[d].stack = <<>> /\ job'[d].passed = {}
  <1>1. job[d] \in Jobs /\ job[d] = [f \in JobFields |-> job[d][f]]
    BY JobIsRecord DEF TypeOK
  <1>2. job'[d] = [job[d] EXCEPT !.pc = pc, !.version = 0, !.path = <<>>,
                                 !.index = 0, !.stack = <<>>, !.passed = {}]
    BY GotoLemma DEF End, TypeOK
  <1>3. job'[d] = [f \in JobFields |-> job'[d][f]]
    BY <1>1, <1>2
  <1>4. /\ \A f \in JobFields \ {"pc", "version", "path", "index", "stack", "passed"} :
             job'[d][f] = job[d][f]
        /\ job'[d].pc = pc /\ job'[d].version = 0 /\ job'[d].path = <<>>
        /\ job'[d].index = 0 /\ job'[d].stack = <<>> /\ job'[d].passed = {}
    BY <1>1, <1>2 DEF JobFields
  <1> QED
    BY <1>3, <1>4 DEF Becomes

LEMMA SaveEffect ==
  ASSUME TypeOK, NEW d \in Deliveries, Save(d)
  PROVE  /\ job[d].pc = "save"
         /\ \/ /\ store.version = job[d].version
               /\ store' = [version |-> job[d].version + 1, path |-> job[d].path]
               /\ \E pc \in {"saved", "rejected"} : End(d, pc)
            \/ store' = store /\ End(d, "rejected")
            \/ /\ store' = store /\ job'[d].pc = "load"
               /\ Becomes(job[d], job'[d], {"pc", "attempt"})
               /\ job'[d].attempt = job[d].attempt + 1
  <1>1. job[d] \in Jobs /\ job[d] = [f \in JobFields |-> job[d][f]]
    BY JobIsRecord DEF TypeOK
  <1>2. ASSUME Goto(d, [job[d] EXCEPT !.attempt = @ + 1, !.pc = "load"])
        PROVE  /\ Becomes(job[d], job'[d], {"pc", "attempt"})
               /\ job'[d].pc = "load" /\ job'[d].attempt = job[d].attempt + 1
    <2>1. job'[d] = [job[d] EXCEPT !.attempt = @ + 1, !.pc = "load"]
      BY <1>2, GotoLemma DEF TypeOK
    <2>2. job'[d] = [f \in JobFields |-> job'[d][f]]
      BY <1>1, <2>1
    <2>3. /\ \A f \in JobFields \ {"pc", "attempt"} : job'[d][f] = job[d][f]
          /\ job'[d].pc = "load" /\ job'[d].attempt = job[d].attempt + 1
      BY <1>1, <2>1 DEF JobFields
    <2> QED
      BY <2>2, <2>3 DEF Becomes
  <1> QED
    BY <1>2 DEF Save

LEMMA ReplacedElement ==
  ASSUME NEW S, NEW s \in Seq(S), NEW i \in 1 .. Len(s), NEW x \in S,
         NEW t, t = [s EXCEPT ![i] = x]
  PROVE  /\ t \in Seq(S) /\ Len(t) = Len(s) /\ t[i] = x
         /\ \A k \in 1 .. Len(s) : k # i => t[k] = s[k]
  OBVIOUS

\* The top of the stack has called next.
LEMMA CalledLemma ==
  ASSUME NEW d \in Deliveries, job[d].stack \in Seq(Frame), job[d].stack # <<>>
  PROVE  /\ Len(job[d].stack) \in Nat \ {0}
         /\ Top(d) \in Frame /\ Top(d).at \in Nat /\ Top(d).nexts \in Nat
         /\ Called(d) \in Seq(Frame) /\ Len(Called(d)) = Len(job[d].stack)
         /\ \A k \in 1 .. Len(job[d].stack) :
              /\ Called(d)[k].at = job[d].stack[k].at
              /\ k < Len(job[d].stack) => Called(d)[k] = job[d].stack[k]
         /\ Called(d)[Len(job[d].stack)].nexts = Top(d).nexts + 1
  <1> DEFINE n == Len(job[d].stack)
  <1>1. n \in Nat \ {0} /\ n \in 1 .. n
    OBVIOUS
  <1>2. \A k \in 1 .. n : job[d].stack[k] \in Frame
    OBVIOUS
  <1>3. Top(d) \in Frame /\ Top(d) = job[d].stack[n]
    BY <1>1, <1>2 DEF Top
  <1>4. Top(d).at \in Nat /\ Top(d).nexts \in Nat
    BY <1>3 DEF Frame
  <1> DEFINE frame == job[d].stack[n]
             called == [frame EXCEPT !.nexts = @ + 1]
  <1>F. frame \in Frame
    BY <1>1, <1>2
  <1> HIDE DEF frame
  <1>5. called \in Frame
    BY <1>F DEF Frame
  <1> USE DEF frame
  <1>6. Called(d) = [job[d].stack EXCEPT ![n] = called]
    BY DEF Called
  <1> HIDE DEF n, frame, called
  <1>7. /\ Called(d) \in Seq(Frame) /\ Len(Called(d)) = Len(job[d].stack)
        /\ \A k \in 1 .. n : k # n => Called(d)[k] = job[d].stack[k]
        /\ Called(d)[n] = called
    <2>1. n \in 1 .. Len(job[d].stack) /\ job[d].stack \in Seq(Frame) /\ n = Len(job[d].stack)
      BY <1>1 DEF n
    <2> QED
      BY <1>5, <1>6, <2>1, ReplacedElement
  <1>8. Called(d)[n].nexts = Top(d).nexts + 1 /\ Called(d)[n].at = Top(d).at
    <2>1. Top(d) = frame
      BY <1>3 DEF frame
    <2> QED
      BY <1>F, <1>7, <2>1 DEF Frame, called
  <1>9. ASSUME NEW k \in 1 .. n
        PROVE  /\ Called(d)[k].at = job[d].stack[k].at
               /\ k < n => Called(d)[k] = job[d].stack[k]
    <2>1. CASE k = n
      BY <1>1, <1>3, <1>8, <2>1
    <2>2. CASE k # n
      <3>1. Called(d)[k] = job[d].stack[k]
        BY <1>7, <2>2
      <3> QED
        BY <3>1
    <2> QED
      BY <2>1, <2>2
  <1> USE DEF n
  <1>10. Called(d)[Len(job[d].stack)].nexts = Top(d).nexts + 1
    BY <1>8
  <1> QED
    BY <1>1, <1>3, <1>4, <1>7, <1>9, <1>10

LEMMA CallNextEffect ==
  ASSUME TypeOK, NEW d \in Deliveries, CallNext(d)
  PROVE  /\ job[d].pc = "pipe" /\ Top(d).nexts < MaxNexts(d)
         /\ job'[d].passed = Passed(d)
         /\ \/ /\ job[d].index + 1 <= Len(Pipeline(d))
               /\ Becomes(job[d], job'[d], {"index", "passed", "stack"})
               /\ job'[d].index = job[d].index + 1
               /\ job'[d].stack = Append(Called(d), [at |-> job[d].index + 1, nexts |-> 0])
            \/ /\ ~(job[d].index + 1 <= Len(Pipeline(d)))
               /\ Becomes(job[d], job'[d], {"pc", "passed", "stack"})
               /\ job'[d].pc = "handler" /\ job'[d].stack = Called(d)
  <1> DEFINE i == job[d].index + 1
             called == Append(Called(d), [at |-> i, nexts |-> 0])
  <1>1. job[d] \in Jobs /\ job[d] = [f \in JobFields |-> job[d][f]]
    BY JobIsRecord DEF TypeOK
  <1>2. CASE i <= Len(Pipeline(d))
    <2>1. job'[d] = [job[d] EXCEPT !.index = i, !.passed = Passed(d), !.stack = called]
      BY <1>2, GotoLemma DEF CallNext, TypeOK
    <2> HIDE DEF i, called
    <2>2. job'[d] = [f \in JobFields |-> job'[d][f]]
      BY <1>1, <2>1
    <2>3. /\ \A f \in JobFields \ {"index", "passed", "stack"} : job'[d][f] = job[d][f]
          /\ job'[d].index = i /\ job'[d].passed = Passed(d) /\ job'[d].stack = called
      BY <1>1, <2>1 DEF JobFields
    <2> QED
      BY <1>2, <2>2, <2>3 DEF Becomes, CallNext, i, called
  <1>3. CASE ~(i <= Len(Pipeline(d)))
    <2>1. job'[d] = [job[d] EXCEPT !.pc = "handler", !.passed = Passed(d), !.stack = Called(d)]
      BY <1>3, GotoLemma DEF CallNext, TypeOK
    <2> HIDE DEF i
    <2>2. job'[d] = [f \in JobFields |-> job'[d][f]]
      BY <1>1, <2>1
    <2>3. /\ \A f \in JobFields \ {"pc", "passed", "stack"} : job'[d][f] = job[d][f]
          /\ job'[d].pc = "handler" /\ job'[d].passed = Passed(d) /\ job'[d].stack = Called(d)
      BY <1>1, <2>1 DEF JobFields
    <2> QED
      BY <1>3, <2>2, <2>3 DEF Becomes, CallNext, i
  <1> QED
    BY <1>2, <1>3

\* What a call of next() leaves of a delivery, whichever way it goes.
LEMMA CallNextKeeps ==
  ASSUME TypeOK, NEW d \in Deliveries, CallNext(d)
  PROVE  /\ job'[d].kind = job[d].kind /\ job'[d].attempt = job[d].attempt
         /\ job'[d].version = job[d].version /\ job'[d].path = job[d].path
         /\ job'[d].moves = job[d].moves /\ job'[d].route = job[d].route
         /\ job'[d].handled = job[d].handled
         /\ IF job[d].index + 1 <= Len(Pipeline(d))
              THEN job'[d].index = job[d].index + 1 /\ job'[d].pc = "pipe"
              ELSE job'[d].index = job[d].index /\ job'[d].pc = "handler"
  <1>1. job[d].pc = "pipe"
    BY CallNextEffect
  <1>2. CASE job[d].index + 1 <= Len(Pipeline(d))
    <2>1. /\ Becomes(job[d], job'[d], {"index", "passed", "stack"})
          /\ job'[d].index = job[d].index + 1
      BY <1>2, CallNextEffect
    <2> QED
      BY <1>1, <1>2, <2>1, Kept
  <1>3. CASE ~(job[d].index + 1 <= Len(Pipeline(d)))
    <2>1. /\ Becomes(job[d], job'[d], {"pc", "passed", "stack"})
          /\ job'[d].pc = "handler"
      BY <1>3, CallNextEffect
    <2> QED
      BY <1>3, <2>1, Kept
  <1> QED
    BY <1>2, <1>3

LEMMA ReturnEffect ==
  ASSUME TypeOK, NEW d \in Deliveries, Return(d)
  PROVE  /\ job[d].pc = "pipe" /\ MayReturn(d)
         /\ Becomes(job[d], job'[d], {"pc", "stack"})
         /\ job'[d].pc = IF Len(job[d].stack) = 1 THEN "save" ELSE "pipe"
         /\ job'[d].stack = SubSeq(job[d].stack, 1, Len(job[d].stack) - 1)
  <1>1. job[d] \in Jobs /\ job[d] = [f \in JobFields |-> job[d][f]]
    BY JobIsRecord DEF TypeOK
  <1>2. job'[d] = [job[d] EXCEPT !.stack = SubSeq(@, 1, Len(@) - 1),
                                 !.pc = IF Len(job[d].stack) = 1 THEN "save" ELSE "pipe"]
    BY GotoLemma DEF Return, TypeOK
  <1>3. job'[d] = [f \in JobFields |-> job'[d][f]]
    BY <1>1, <1>2
  <1>4. /\ \A f \in JobFields \ {"pc", "stack"} : job'[d][f] = job[d][f]
        /\ job'[d].pc = IF Len(job[d].stack) = 1 THEN "save" ELSE "pipe"
        /\ job'[d].stack = SubSeq(job[d].stack, 1, Len(job[d].stack) - 1)
    BY <1>1, <1>2 DEF JobFields
  <1> QED
    BY <1>3, <1>4 DEF Becomes, Return

LEMMA MovedEffect ==
  ASSUME TypeOK, NEW d \in Deliveries, NEW to, Moved(d, to)
  PROVE  /\ Becomes(job[d], job'[d], {"path", "moves"})
         /\ job'[d].path = Append(job[d].path, Move(d, to))
         /\ job'[d].moves = Append(job[d].moves, Move(d, to))
  <1>1. job[d] \in Jobs /\ job[d] = [f \in JobFields |-> job[d][f]]
    BY JobIsRecord DEF TypeOK
  <1>2. job'[d] = [job[d] EXCEPT !.path = Append(@, Move(d, to)),
                                 !.moves = Append(@, Move(d, to))]
    BY GotoLemma DEF Moved, TypeOK
  <1>3. job'[d] = [f \in JobFields |-> job'[d][f]]
    BY <1>1, <1>2
  <1>4. /\ \A f \in JobFields \ {"path", "moves"} : job'[d][f] = job[d][f]
        /\ job'[d].path = Append(job[d].path, Move(d, to))
        /\ job'[d].moves = Append(job[d].moves, Move(d, to))
    BY <1>1, <1>2 DEF JobFields
  <1> QED
    BY <1>3, <1>4 DEF Becomes

LEMMA HandlerReturnsEffect ==
  ASSUME TypeOK, NEW d \in Deliveries, HandlerReturns(d)
  PROVE  /\ job[d].pc = "handler"
         /\ Becomes(job[d], job'[d], {"pc", "handled"})
         /\ job'[d].pc = "pipe" /\ job'[d].handled = TRUE
  <1>1. job[d] \in Jobs /\ job[d] = [f \in JobFields |-> job[d][f]]
    BY JobIsRecord DEF TypeOK
  <1>2. job'[d] = [job[d] EXCEPT !.pc = "pipe", !.handled = TRUE]
    BY GotoLemma DEF HandlerReturns, TypeOK
  <1>3. job'[d] = [f \in JobFields |-> job'[d][f]]
    BY <1>1, <1>2
  <1>4. /\ \A f \in JobFields \ {"pc", "handled"} : job'[d][f] = job[d][f]
        /\ job'[d].pc = "pipe" /\ job'[d].handled = TRUE
    BY <1>1, <1>2 DEF JobFields
  <1> QED
    BY <1>3, <1>4 DEF Becomes, HandlerReturns

\* What the return of a handler leaves of its delivery.
LEMMA HandlerReturnsKeeps ==
  ASSUME TypeOK, NEW d \in Deliveries, HandlerReturns(d)
  PROVE  /\ job'[d].kind = job[d].kind /\ job'[d].attempt = job[d].attempt
         /\ job'[d].version = job[d].version /\ job'[d].path = job[d].path
         /\ job'[d].moves = job[d].moves /\ job'[d].route = job[d].route
         /\ job'[d].index = job[d].index /\ job'[d].stack = job[d].stack
         /\ job'[d].passed = job[d].passed
  <1>1. Becomes(job[d], job'[d], {"pc", "handled"})
    BY HandlerReturnsEffect
  <1> QED
    BY <1>1, Kept

-------------------------------------------------------------------------------
(* Types.                                                                  *)

LEMMA JobType ==
  ASSUME TypeOK, NEW d \in Deliveries, DeliveryStep(d), StackInv(d)
  PROVE  job'[d] \in Jobs /\ job'[d].route \in 0 .. Len(routes)
  <1>0. /\ job \in [Deliveries -> Jobs] /\ job[d] \in Jobs /\ job[d].route \in 0 .. Len(routes)
        /\ routes \in Seq(KnownRoutes) /\ Len(routes) \in Nat
        /\ store.version \in Nat /\ store.path \in Seq(AnyMove)
    BY DEF TypeOK, RouterOK
  <1>T. /\ job[d].kind \in Kinds \cup {"none"} /\ job[d].attempt \in Nat
        /\ job[d].index \in Nat /\ job[d].stack \in Seq(Frame) /\ job[d].passed \in SUBSET Nat
    BY <1>0 DEF Jobs
  <1> DEFINE Good == job'[d] \in Jobs /\ job'[d].route = job[d].route
  <1>1. ASSUME NEW kind \in Kinds, Receive(d, kind) PROVE Good
    <2>1. job'[d].pc \in Stages /\ job'[d].kind \in Kinds \cup {"none"}
      BY <1>1, ReceiveEffect DEF Stages
    <2>2. \A f \in {"pc", "kind"} : job'[d][f] \in FieldTypes[f]
      BY <2>1 DEF FieldTypes
    <2> QED
      BY <1>0, <1>1, <2>2, ReceiveEffect, JobUpdated
  <1>2. ASSUME Load(d) PROVE job'[d] \in Jobs /\ job'[d].route = 0
    <2>1. NewJob \in Jobs /\ NewJob.route = 0
      BY DEF NewJob, Jobs, Stages
    <2>2. job'[d].pc \in Stages /\ job'[d].kind \in Kinds \cup {"none"}
      BY <1>T, <1>2, LoadEffect DEF Stages
    <2>3. /\ job'[d].attempt \in Nat /\ job'[d].version \in Nat
          /\ job'[d].path \in Seq(AnyMove)
      BY <1>0, <1>T, <1>2, LoadEffect
    <2>4. \A f \in {"pc", "kind", "attempt", "version", "path"} : job'[d][f] \in FieldTypes[f]
      BY <2>2, <2>3 DEF FieldTypes
    <2> QED
      BY <1>2, <2>1, <2>4, LoadEffect, JobUpdated
  <1>3. ASSUME Dispatch(d) PROVE job'[d] \in Jobs /\ job'[d].route \in 0 .. Len(routes)
    <2>1. CASE Becomes(job[d], job'[d], {"pc"}) /\ job'[d].pc = "save"
      <3>1. \A f \in {"pc"} : job'[d][f] \in FieldTypes[f]
        BY <2>1 DEF FieldTypes, Stages
      <3> QED
        BY <1>0, <2>1, <3>1, JobUpdated
    <2>2. CASE /\ Becomes(job[d], job'[d], {"pc", "route", "stack"})
               /\ job'[d].pc = "pipe" /\ job'[d].route \in DOMAIN routes
               /\ job'[d].stack = <<[at |-> 0, nexts |-> 0]>>
      <3>1. job'[d].stack \in Seq(Frame)
        BY <2>2 DEF Frame
      <3>2. job'[d].route \in 1 .. Len(routes)
        BY <1>0, <2>2
      <3>3. job'[d].pc \in Stages /\ job'[d].route \in Nat
        BY <1>0, <2>2, <3>2 DEF Stages
      <3>4. \A f \in {"pc", "route", "stack"} : job'[d][f] \in FieldTypes[f]
        BY <3>1, <3>3 DEF FieldTypes
      <3>5. job'[d] \in Jobs
        BY <1>0, <2>2, <3>4, JobUpdated
      <3> QED
        BY <1>0, <3>2, <3>5
    <2> QED
      BY <1>3, <2>1, <2>2, DispatchEffect
  <1>4. ASSUME NEW pc \in Stages, End(d, pc) PROVE Good
    <2> DEFINE changed == {"pc", "version", "path", "index", "stack", "passed"}
    <2>0. job'[d].path = <<>> /\ job'[d].stack = <<>>
      BY <1>4, EndEffect
    <2>1. job'[d].path \in Seq(AnyMove) /\ job'[d].stack \in Seq(Frame)
      BY <2>0
    <2>2. /\ job'[d].pc \in Stages /\ job'[d].version \in Nat /\ job'[d].index \in Nat
          /\ job'[d].passed \in SUBSET Nat
      BY <1>4, EndEffect
    <2>3. \A f \in changed : job'[d][f] \in FieldTypes[f]
      BY <2>1, <2>2 DEF FieldTypes
    <2>4. Becomes(job[d], job'[d], changed) /\ "route" \notin changed
      BY <1>4, EndEffect
    <2> HIDE DEF changed
    <2> QED
      BY <1>0, <2>3, <2>4, JobUpdated
  <1>5. ASSUME Save(d) PROVE Good
    <2>1. CASE \E pc \in {"saved", "rejected"} : End(d, pc)
      BY <1>4, <2>1 DEF Stages
    <2>2. CASE /\ job'[d].pc = "load" /\ Becomes(job[d], job'[d], {"pc", "attempt"})
               /\ job'[d].attempt = job[d].attempt + 1
      <3>1. job'[d].pc \in Stages /\ job'[d].attempt \in Nat
        BY <1>T, <2>2 DEF Stages
      <3>2. \A f \in {"pc", "attempt"} : job'[d][f] \in FieldTypes[f]
        BY <3>1 DEF FieldTypes
      <3> QED
        BY <1>0, <2>2, <3>2, JobUpdated
    <2> QED
      BY <1>5, <2>1, <2>2, SaveEffect
  <1>6. ASSUME Throw(d) PROVE Good
    BY <1>4, <1>6 DEF Throw, Stages
  <1>7. ASSUME CallNext(d) PROVE Good
    <2>1. job[d].pc = "pipe" /\ job[d].stack # <<>>
      BY <1>7, CallNextEffect DEF StackInv, StackOK, InPipeline
    <2>2. Called(d) \in Seq(Frame) /\ Top(d).at \in Nat
      BY <1>T, <2>1, CalledLemma
    <2>3. job'[d].passed \in SUBSET Nat
      <3>1. job'[d].passed = Passed(d)
        BY <1>7, CallNextEffect
      <3> QED
        BY <1>T, <2>2, <3>1 DEF Passed
    <2>4. CASE /\ Becomes(job[d], job'[d], {"index", "passed", "stack"})
               /\ job'[d].index = job[d].index + 1
               /\ job'[d].stack = Append(Called(d), [at |-> job[d].index + 1, nexts |-> 0])
      <3>1. [at |-> job[d].index + 1, nexts |-> 0] \in Frame
        BY <1>T DEF Frame
      <3>2. job'[d].stack \in Seq(Frame) /\ job'[d].index \in Nat
        BY <1>T, <2>2, <2>4, <3>1
      <3>3. \A f \in {"index", "passed", "stack"} : job'[d][f] \in FieldTypes[f]
        BY <2>3, <3>2 DEF FieldTypes
      <3>4. "route" \notin {"index", "passed", "stack"}
        OBVIOUS
      <3> QED
        BY <1>0, <2>4, <3>3, <3>4, JobUpdated, ZenonT(40)
    <2>5. CASE /\ Becomes(job[d], job'[d], {"pc", "passed", "stack"})
               /\ job'[d].pc = "handler" /\ job'[d].stack = Called(d)
      <3>1. job'[d].pc \in Stages /\ job'[d].stack \in Seq(Frame)
        BY <2>2, <2>5 DEF Stages
      <3>2. \A f \in {"pc", "passed", "stack"} : job'[d][f] \in FieldTypes[f]
        BY <2>3, <3>1 DEF FieldTypes
      <3> QED
        BY <1>0, <2>5, <3>2, JobUpdated
    <2> QED
      BY <1>7, <2>4, <2>5, CallNextEffect
  <1>8. ASSUME Return(d) PROVE Good
    <2>1. job[d].pc = "pipe" /\ job[d].stack # <<>>
      BY <1>8, ReturnEffect DEF StackInv, StackOK, InPipeline
    <2>2. SubSeq(job[d].stack, 1, Len(job[d].stack) - 1) \in Seq(Frame)
      BY <1>T, <2>1
    <2>3. job'[d].pc \in Stages /\ job'[d].stack \in Seq(Frame)
      BY <1>8, <2>2, ReturnEffect DEF Stages
    <2>4. \A f \in {"pc", "stack"} : job'[d][f] \in FieldTypes[f]
      BY <2>3 DEF FieldTypes
    <2>5. Becomes(job[d], job'[d], {"pc", "stack"}) /\ "route" \notin {"pc", "stack"}
      BY <1>8, ReturnEffect
    <2> QED
      BY <1>0, <2>4, <2>5, JobUpdated
  <1>9. ASSUME NEW to \in Anywhere, Moved(d, to) PROVE Good
    <2>1. job'[d].path \in Seq(AnyMove) /\ job'[d].moves \in Seq(AnyMove)
      BY <1>9, MovedEffect, MoveLemma
    <2>2. \A f \in {"path", "moves"} : job'[d][f] \in FieldTypes[f]
      BY <2>1 DEF FieldTypes
    <2>5. Becomes(job[d], job'[d], {"path", "moves"}) /\ "route" \notin {"path", "moves"}
      BY <1>9, MovedEffect
    <2> QED
      BY <1>0, <2>2, <2>5, JobUpdated
  <1>10. ASSUME HandlerReturns(d) PROVE Good
    <2>1. job'[d].pc \in Stages /\ job'[d].handled \in BOOLEAN
      BY <1>10, HandlerReturnsEffect DEF Stages
    <2>2. \A f \in {"pc", "handled"} : job'[d][f] \in FieldTypes[f]
      BY <2>1 DEF FieldTypes
    <2>5. Becomes(job[d], job'[d], {"pc", "handled"}) /\ "route" \notin {"pc", "handled"}
      BY <1>10, HandlerReturnsEffect
    <2> QED
      BY <1>0, <2>2, <2>5, JobUpdated
  <1>11. CASE Leave(d) \/ \E to \in Scenes : Enter(d, to) \/ EnterHookThrows(d, to)
    BY <1>0, <1>9, <1>11 DEF Leave, Enter, EnterHookThrows, Anywhere
  <1> QED
    BY <1>0, <1>1, <1>2, <1>3, <1>5, <1>6, <1>7, <1>8, <1>10, <1>11 DEF DeliveryStep, Step

LEMMA TypeStep ==
  ASSUME TypeOK, \A d \in Deliveries : StackInv(d), [Next]_vars
  PROVE  TypeOK'
  <1>0. /\ job \in [Deliveries -> Jobs] /\ routes \in Seq(KnownRoutes) /\ Len(routes) \in Nat
        /\ fulfilled \in [Deliveries -> Nat] /\ answered \in [Deliveries -> Nat]
        /\ store \in [version : Nat, path : Seq(AnyMove)]
        /\ \A d \in Deliveries : job[d].route \in 0 .. Len(routes)
    BY DEF TypeOK, RouterOK
  <1>1. CASE UNCHANGED vars
    BY <1>1 DEF vars, outside, TypeOK, RouterOK
  <1>2. ASSUME NEW route \in LateRoutes, Register(route) PROVE TypeOK'
    <2>1. route \in KnownRoutes
      BY DEF KnownRoutes
    <2>2. routes' \in Seq(KnownRoutes) /\ Len(routes') = Len(routes) + 1 /\ sorted' = Unsorted
      BY <1>0, <1>2, <2>1 DEF Register
    <2>3. UNCHANGED <<middlewares, store, job, fulfilled, answered>>
      BY <1>2 DEF Register, outside
    <2>4. \A d \in Deliveries : job'[d].route \in 0 .. Len(routes')
      BY <1>0, <2>2, <2>3
    <2> QED
      BY <2>2, <2>3, <2>4 DEF TypeOK, RouterOK
  <1>3. ASSUME NEW d \in Deliveries, DeliveryStep(d) PROVE TypeOK'
    <2>1. RouterOK'
      BY <1>3, Frames DEF TypeOK, RouterOK
    <2>2. job' \in [Deliveries -> Jobs]
      <3>1. job'[d] \in Jobs
        BY <1>3, JobType, SMTT(30)
      <3>2. \E r : job' = [job EXCEPT ![d] = r]
        BY <1>3 DEF DeliveryStep, Step, Receive, Load, Dispatch, CallNext, Return, HandlerReturns,
           Save, Throw, Leave, Enter, EnterHookThrows, End, Moved, Go, Goto
      <3> QED
        BY <1>0, <3>1, <3>2
    <2>3. \A e \in Deliveries : job'[e].route \in 0 .. Len(routes')
      BY <1>0, <1>3, Frames, JobType
    <2>4. store' \in [version : Nat, path : Seq(AnyMove)]
      <3>1. CASE store' = store
        BY <1>0, <3>1
      <3>2. CASE store' = [version |-> job[d].version + 1, path |-> job[d].path]
        <4>1. job[d].version \in Nat /\ job[d].path \in Seq(AnyMove)
          BY <1>0 DEF Jobs
        <4> QED
          BY <3>2, <4>1
      <3> QED
        BY <1>3, <3>1, <3>2, Frames, SaveEffect
    <2>5. fulfilled' \in [Deliveries -> Nat] /\ answered' \in [Deliveries -> Nat]
      <3>1. fulfilled' = fulfilled \/ fulfilled' = [fulfilled EXCEPT ![d] = @ + 1]
        BY <1>3 DEF DeliveryStep, Step, Receive, Load, Dispatch, CallNext, Return,
           HandlerReturns, Save, Throw, Leave, Enter, EnterHookThrows, outside
      <3>2. answered' = answered \/ answered' = [answered EXCEPT ![d] = @ + 1]
        BY <1>3 DEF DeliveryStep, Step, Receive, Load, Dispatch, CallNext, Return,
           HandlerReturns, Save, Throw, Leave, Enter, EnterHookThrows, outside
      <3>3. fulfilled[d] + 1 \in Nat /\ answered[d] + 1 \in Nat
        BY <1>0
      <3>4. fulfilled' \in [Deliveries -> Nat]
        BY <1>0, <3>1, <3>3
      <3>5. answered' \in [Deliveries -> Nat]
        BY <1>0, <3>2, <3>3
      <3> QED
        BY <3>4, <3>5
    <2> QED
      BY <2>1, <2>2, <2>3, <2>4, <2>5 DEF TypeOK
  <1> QED
    BY <1>1, <1>2, <1>3, StepKinds

-------------------------------------------------------------------------------
(* The session.                                                            *)

\* The moves of d in a path are these, one after the other.
Within(path, d, moves) ==
  \E n \in 0 .. Len(path) - Len(moves) :
    /\ \A i \in DOMAIN moves : path[n + i] = moves[i]
    /\ \A i \in DOMAIN path : path[i].by = d <=> i \in n + 1 .. n + Len(moves)

\* A clone that is the stored session and some moves stays so with one more.
LEMMA CloneGrows ==
  ASSUME NEW path \in Seq(AnyMove), NEW stored \in Seq(AnyMove), NEW moves \in Seq(AnyMove),
         NEW move \in AnyMove, path = stored \o moves
  PROVE  Append(path, move) = stored \o Append(moves, move)
  <1>1. Append(moves, move) = moves \o <<move>> /\ <<move>> \in Seq(AnyMove)
    BY AppendIsConcat
  <1>2. Append(path, move) = path \o <<move>>
    BY AppendIsConcat
  <1>3. (stored \o moves) \o <<move>> = stored \o (moves \o <<move>>)
    BY <1>1, ConcatAssociative
  <1> QED
    BY <1>1, <1>2, <1>3, Zenon

LEMMA SerialGrows ==
  ASSUME NEW path \in Seq(AnyMove), NEW told, Serial(path, told), NEW move \in AnyMove,
         move.from = SceneAfter(path),
         move.to # NoValue => Allowed(move.from, move.to) /\ move \in told
  PROVE  Serial(Append(path, move), told)
  <1> DEFINE new == Append(path, move)
  <1>1. /\ Len(path) \in Nat /\ DOMAIN path = 1 .. Len(path)
        /\ DOMAIN new = 1 .. Len(path) + 1
        /\ \A i \in 1 .. Len(path) : new[i] = path[i]
        /\ new[Len(path) + 1] = move
    OBVIOUS
  <1>2. SceneAfter(path) = IF Len(path) = 0 THEN NoValue ELSE path[Len(path)].to
    BY <1>1 DEF SceneAfter
  <1> HIDE DEF new
  <1> SUFFICES ASSUME NEW i \in DOMAIN new
               PROVE  /\ new[i].from = IF i = 1 THEN NoValue ELSE new[i - 1].to
                      /\ new[i].to # NoValue /\ new[i].from # NoValue =>
                           Allowed(new[i].from, new[i].to)
                      /\ new[i].to # NoValue => new[i] \in told
    BY DEF Serial, new
  <1>3. CASE i = Len(path) + 1
    <2>1. new[i] = move
      BY <1>1, <1>3
    <2>2. i # 1 => i - 1 \in 1 .. Len(path) /\ new[i - 1] = path[i - 1]
      BY <1>1, <1>3
    <2>3. move.from = IF i = 1 THEN NoValue ELSE new[i - 1].to
      BY <1>1, <1>2, <1>3, <2>2
    <2> QED
      BY <2>1, <2>3
  <1>4. CASE i \in 1 .. Len(path)
    <2>1. new[i] = path[i] /\ (i # 1 => i - 1 \in 1 .. Len(path) /\ new[i - 1] = path[i - 1])
      BY <1>1, <1>4
    <2> QED
      BY <1>1, <1>4, <2>1 DEF Serial
  <1> QED
    BY <1>1, <1>3, <1>4

\* What somebody adds does not move the moves of the others.
LEMMA WithinOthers ==
  ASSUME NEW path \in Seq(AnyMove), NEW moves \in Seq(AnyMove), NEW d,
         \A i \in DOMAIN moves : moves[i].by = d,
         NEW e, e # d, NEW own \in Seq(AnyMove), Within(path, e, own)
  PROVE  Within(path \o moves, e, own)
  <1> DEFINE new == path \o moves
  <1>1. /\ Len(path) \in Nat /\ Len(moves) \in Nat /\ Len(own) \in Nat
        /\ DOMAIN path = 1 .. Len(path) /\ DOMAIN moves = 1 .. Len(moves)
        /\ DOMAIN own = 1 .. Len(own)
        /\ Len(new) = Len(path) + Len(moves) /\ DOMAIN new = 1 .. Len(path) + Len(moves)
        /\ \A i \in 1 .. Len(path) : new[i] = path[i]
        /\ \A i \in 1 .. Len(moves) : new[Len(path) + i] = moves[i]
    OBVIOUS
  <1> HIDE DEF new
  <1>2. PICK n \in 0 .. Len(path) - Len(own) :
          /\ \A i \in DOMAIN own : path[n + i] = own[i]
          /\ \A i \in DOMAIN path : path[i].by = e <=> i \in n + 1 .. n + Len(own)
    BY DEF Within
  <1>3. n \in 0 .. Len(new) - Len(own)
    BY <1>1
  <1>4. \A i \in DOMAIN own : new[n + i] = own[i]
    BY <1>1, <1>2
  <1>5. ASSUME NEW i \in DOMAIN new
        PROVE  new[i].by = e <=> i \in n + 1 .. n + Len(own)
    <2>1. CASE i \in 1 .. Len(path)
      BY <1>1, <1>2, <2>1
    <2>2. CASE i \notin 1 .. Len(path)
      <3>1. i - Len(path) \in 1 .. Len(moves) /\ new[i] = moves[i - Len(path)]
        <4>1. i - Len(path) \in 1 .. Len(moves) /\ i = Len(path) + (i - Len(path))
          BY <1>1, <2>2
        <4> QED
          BY <1>1, <4>1
      <3>2. new[i].by = d
        BY <1>1, <3>1
      <3>3. i \notin n + 1 .. n + Len(own)
        BY <1>1, <2>2
      <3> QED
        BY <3>2, <3>3
    <2> QED
      BY <2>1, <2>2
  <1> QED
    BY <1>3, <1>4, <1>5 DEF Within, new

\* Who adds moves to a path that has none of his has them there.
LEMMA WithinOwn ==
  ASSUME NEW path \in Seq(AnyMove), NEW moves \in Seq(AnyMove), NEW d,
         \A i \in DOMAIN moves : moves[i].by = d, Within(path, d, <<>>)
  PROVE  Within(path \o moves, d, moves)
  <1> DEFINE new == path \o moves
  <1>1. /\ Len(path) \in Nat /\ Len(moves) \in Nat
        /\ DOMAIN path = 1 .. Len(path) /\ DOMAIN moves = 1 .. Len(moves)
        /\ Len(new) = Len(path) + Len(moves) /\ DOMAIN new = 1 .. Len(path) + Len(moves)
        /\ \A i \in 1 .. Len(path) : new[i] = path[i]
        /\ \A i \in 1 .. Len(moves) : new[Len(path) + i] = moves[i]
    OBVIOUS
  <1> HIDE DEF new
  <1>2. \A i \in 1 .. Len(path) : path[i].by # d
    BY <1>1 DEF Within
  <1>3. Len(path) \in 0 .. Len(new) - Len(moves)
    BY <1>1
  <1>4. ASSUME NEW i \in DOMAIN new
        PROVE  new[i].by = d <=> i \in Len(path) + 1 .. Len(path) + Len(moves)
    <2>1. CASE i \in 1 .. Len(path)
      BY <1>1, <1>2, <2>1
    <2>2. CASE i \notin 1 .. Len(path)
      <3>1. i - Len(path) \in 1 .. Len(moves) /\ i = Len(path) + (i - Len(path))
        BY <1>1, <2>2
      <3>2. new[i] = moves[i - Len(path)]
        BY <1>1, <3>1
      <3> QED
        BY <1>1, <2>2, <3>1, <3>2
    <2> QED
      BY <2>1, <2>2
  <1> QED
    BY <1>1, <1>3, <1>4 DEF Within, new

\* The others keep their clones and what they have stored.
LEMMA OthersKeep ==
  ASSUME TypeOK, SessionInv, NEW d \in Deliveries, DeliveryStep(d),
         NEW e \in Deliveries, e # d
  PROVE  CloneInv(e)' /\ Stored(e)'
  <1>0. /\ job'[e] = job[e] /\ Told \subseteq Told' /\ CloneInv(e) /\ Stored(e) /\ CloneInv(d)
        /\ Stored(d)
    BY Frames DEF SessionInv, Told
  <1>1. /\ job[d] \in Jobs /\ job[e] \in Jobs
        /\ store.version \in Nat /\ store.path \in Seq(AnyMove)
    BY DEF TypeOK
  <1>2. /\ job[d].version \in Nat /\ job[d].moves \in Seq(AnyMove)
        /\ job[e].version \in Nat /\ job[e].moves \in Seq(AnyMove)
    BY <1>1 DEF Jobs
  <1>3. CASE store' = store
    <2>1. CloneInv(e)'
      BY <1>0, <1>3, ZenonT(40) DEF CloneInv, HasClone, Serial
    <2>2. Stored(e)'
      BY <1>0, <1>3, ZenonT(40) DEF Stored, StoredAs
    <2> QED
      BY <2>1, <2>2
  <1>4. CASE store' # store
    <2>1. /\ job[d].pc = "save" /\ store.version = job[d].version
          /\ store' = [version |-> job[d].version + 1, path |-> job[d].path]
      BY <1>4, Frames, SaveEffect
    <2>2. /\ store'.version = store.version + 1
          /\ store'.path = store.path \o job[d].moves
          /\ \A i \in DOMAIN job[d].moves : job[d].moves[i].by = d
      BY <1>0, <2>1 DEF CloneInv, HasClone
    <2>3. CloneInv(e)'
      <3>1. SUFFICES ASSUME HasClone(e)'
                     PROVE  /\ job[e].version <= store'.version
                            /\ Serial(job[e].path, Told')
                            /\ \A i \in DOMAIN job[e].moves : job[e].moves[i].by = e
                            /\ job[e].version # store'.version
        BY <1>0 DEF CloneInv
      <3>2. HasClone(e)
        BY <1>0, <3>1 DEF HasClone
      <3>3. Serial(job[e].path, Told')
        BY <1>0, <3>2 DEF CloneInv, Serial
      <3>4. job[e].version <= store.version
        BY <1>0, <3>2 DEF CloneInv
      <3>5. job[e].version <= store'.version /\ job[e].version # store'.version
        BY <1>1, <1>2, <2>2, <3>4
      <3> QED
        BY <1>0, <3>2, <3>3, <3>5 DEF CloneInv
    <2>4. \A own \in Seq(AnyMove) : Within(store.path, e, own) => Within(store'.path, e, own)
      BY <1>1, <1>2, <2>2, WithinOthers
    <2>5. \A own \in Seq(AnyMove) : StoredAs(e, own) => StoredAs(e, own)'
      <3>1. \A own : StoredAs(e, own) <=> Within(store.path, e, own)
        BY DEF StoredAs, Within
      <3>2. \A own : StoredAs(e, own)' <=> Within(store'.path, e, own)
        BY DEF StoredAs, Within
      <3> QED
        BY <2>4, <3>1, <3>2
    <2>6. <<>> \in Seq(AnyMove)
      OBVIOUS
    <2>7. job'[e].moves = job[e].moves /\ job'[e].pc = job[e].pc
      BY <1>0
    <2>8. StoredAs(e, job[e].moves) => StoredAs(e, job[e].moves)'
      BY <1>2, <2>5, <2>7
    <2>9. Stored(e)'
      BY <1>0, <1>2, <2>5, <2>6, <2>7 DEF Stored
    <2> QED
      BY <2>3, <2>9
  <1> QED
    BY <1>3, <1>4

\* So does the delivery that steps.
LEMMA OwnKeeps ==
  ASSUME TypeOK, SessionInv, NEW d \in Deliveries, DeliveryStep(d)
  PROVE  CloneInv(d)' /\ Stored(d)'
  <1>0. /\ Told \subseteq Told' /\ CloneInv(d) /\ Stored(d) /\ Serial(store.path, Told)
        /\ ~Save(d) => store' = store
    BY Frames DEF SessionInv, Told
  <1>1. /\ job[d] \in Jobs /\ store.version \in Nat /\ store.path \in Seq(AnyMove)
        /\ store \in [version : Nat, path : Seq(AnyMove)]
    BY DEF TypeOK
  <1>2. job[d].version \in Nat /\ job[d].moves \in Seq(AnyMove) /\ job[d].path \in Seq(AnyMove)
    BY <1>1 DEF Jobs
  <1>P. store.path \in Seq(AnyMove)
    BY <1>1
  <1>3. ASSUME store' = store, ~HasClone(d)', StoredAs(d, <<>>),
               job'[d].pc # "saved"
        PROVE  CloneInv(d)' /\ Stored(d)'
    <2>1. StoredAs(d, <<>>)'
      BY <1>3 DEF StoredAs
    <2> QED
      BY <1>3, <2>1 DEF CloneInv, Stored
  <1>4. ASSUME job[d].pc \notin {"saved", "rejected"} PROVE StoredAs(d, <<>>)
    BY <1>0, <1>4 DEF Stored
  <1>5. ASSUME NEW kind \in Kinds, Receive(d, kind) PROVE CloneInv(d)' /\ Stored(d)'
    <2>1. store' = store /\ job[d].pc = "idle" /\ job'[d].pc \in {"load", "ignored"}
      BY <1>5, ReceiveEffect DEF Receive
    <2> QED
      BY <1>3, <1>4, <2>1 DEF HasClone
  <1>6. ASSUME Throw(d) PROVE CloneInv(d)' /\ Stored(d)'
    <2>1. store' = store /\ job[d].pc \in {"load", "pipe", "handler", "save"}
      BY <1>6 DEF Throw
    <2>2. job'[d].pc = "rejected"
      BY <1>6, EndEffect DEF Throw
    <2> QED
      BY <1>3, <1>4, <2>1, <2>2 DEF HasClone
  <1>7. ASSUME Load(d) PROVE CloneInv(d)' /\ Stored(d)'
    <2>1. /\ store' = store /\ job[d].pc = "load" /\ job'[d].pc = "dispatch"
          /\ job'[d].version = store.version /\ job'[d].path = store.path
      BY <1>7, LoadEffect DEF Load
    <2>2. job'[d].moves = <<>>
      <3>1. "moves" \in JobFields \ {"pc", "kind", "attempt", "version", "path"}
        BY DEF JobFields
      <3>2. job'[d].moves = NewJob.moves
        BY <1>7, <3>1, LoadEffect DEF Becomes
      <3> QED
        BY <3>2 DEF NewJob
    <2>3. Serial(store.path, Told')
      BY <1>0 DEF Serial
    <2>4. store.path = store.path \o <<>>
      BY <1>1
    <2>5. CloneInv(d)'
      BY <1>1, <2>1, <2>2, <2>3, <2>4 DEF CloneInv
    <2>6. StoredAs(d, <<>>)'
      BY <1>4, <2>1 DEF StoredAs
    <2> QED
      BY <2>1, <2>5, <2>6 DEF Stored
  <1>8. ASSUME store' = store, HasClone(d), HasClone(d)',
               job'[d].version = job[d].version, job'[d].path = job[d].path,
               job'[d].moves = job[d].moves
        PROVE  CloneInv(d)' /\ Stored(d)'
    <2>1. CloneInv(d)'
      BY <1>0, <1>8 DEF CloneInv, Serial
    <2>2. StoredAs(d, <<>>)
      BY <1>4, <1>8 DEF HasClone
    <2>3. StoredAs(d, <<>>)'
      BY <1>8, <2>2 DEF StoredAs
    <2> QED
      BY <1>8, <2>1, <2>3 DEF Stored, HasClone
  <1>9. CASE Dispatch(d) \/ CallNext(d) \/ Return(d) \/ HandlerReturns(d)
    <2>1. store' = store
      BY <1>9 DEF Dispatch, CallNext, Return, HandlerReturns
    <2>2. HasClone(d) /\ HasClone(d)'
      <3>1. CASE Dispatch(d)
        BY <3>1, DispatchEffect DEF HasClone
      <3>2. CASE CallNext(d)
        BY <3>2, CallNextEffect, CallNextKeeps DEF HasClone
      <3>3. CASE Return(d)
        BY <3>3, ReturnEffect DEF HasClone
      <3>4. CASE HandlerReturns(d)
        BY <3>4, HandlerReturnsEffect DEF HasClone
      <3> QED
        BY <1>9, <3>1, <3>2, <3>3, <3>4
    <2>3. /\ job'[d].version = job[d].version /\ job'[d].path = job[d].path
          /\ job'[d].moves = job[d].moves
      <3>1. CASE Dispatch(d)
        BY <3>1, DispatchEffect, Kept
      <3>2. CASE CallNext(d)
        BY <3>2, CallNextKeeps
      <3>3. CASE Return(d)
        BY <3>3, ReturnEffect, Kept
      <3>4. CASE HandlerReturns(d)
        BY <3>4, HandlerReturnsKeeps
      <3> QED
        BY <1>9, <3>1, <3>2, <3>3, <3>4
    <2> QED
      BY <1>8, <2>1, <2>2, <2>3
  <1>10. ASSUME Save(d) PROVE CloneInv(d)' /\ Stored(d)'
    <2>1. job[d].pc = "save"
      BY <1>10, SaveEffect
    <2>2. CASE store' = store /\ End(d, "rejected")
      BY <1>3, <1>4, <2>1, <2>2, EndEffect DEF HasClone
    <2>3. CASE store' = store /\ job'[d].pc = "load"
      BY <1>3, <1>4, <2>1, <2>3 DEF HasClone
    <2>4. CASE /\ store.version = job[d].version
               /\ store' = [version |-> job[d].version + 1, path |-> job[d].path]
               /\ \E pc \in {"saved", "rejected"} : End(d, pc)
      <3>1. /\ store'.path = store.path \o job[d].moves
            /\ \A i \in DOMAIN job[d].moves : job[d].moves[i].by = d
        BY <1>0, <2>1, <2>4 DEF CloneInv, HasClone
      <3>2. Within(store.path, d, <<>>)
        BY <1>4, <2>1 DEF StoredAs, Within
      <3>3. Within(store'.path, d, job[d].moves)
        BY <1>1, <1>2, <3>1, <3>2, WithinOwn
      <3>4. job'[d].pc \in {"saved", "rejected"} /\ job'[d].moves = job[d].moves
        BY <2>4, EndEffect, Kept
      <3>5. StoredAs(d, job[d].moves)'
        BY <3>3, <3>4 DEF StoredAs, Within
      <3> QED
        BY <3>4, <3>5 DEF CloneInv, HasClone, Stored
    <2> QED
      BY <1>10, <2>2, <2>3, <2>4, SaveEffect
  <1>11. ASSUME NEW to \in Anywhere, Moved(d, to), job[d].pc = "handler", store' = store,
                to # NoValue => Allowed(SceneAfter(job[d].path), to) /\ Move(d, to) \in Told'
         PROVE  CloneInv(d)' /\ Stored(d)'
    <2> DEFINE move == Move(d, to)
    <2>1. /\ job'[d].path = Append(job[d].path, move)
          /\ job'[d].moves = Append(job[d].moves, move)
          /\ job'[d].pc = "handler" /\ job'[d].version = job[d].version
      BY <1>11, MovedEffect, Kept
    <2>2. move \in AnyMove
      BY <1>11, MoveLemma
    <2>3. move.from = SceneAfter(job[d].path) /\ move.to = to /\ move.by = d
      BY DEF Move
    <2> HIDE DEF move
    <2>4. Serial(job[d].path, Told')
      BY <1>0, <1>11 DEF CloneInv, HasClone, Serial
    <2>5. Serial(job'[d].path, Told')
      BY <1>2, <1>11, <2>1, <2>2, <2>3, <2>4, SerialGrows DEF move
    <2>6. \A i \in DOMAIN job'[d].moves : job'[d].moves[i].by = d
      <3>1. \A i \in DOMAIN job[d].moves : job[d].moves[i].by = d
        BY <1>0, <1>11 DEF CloneInv, HasClone
      <3> QED
        BY <1>2, <2>1, <2>3, <3>1
    <2>7. job[d].version <= store.version
      BY <1>0, <1>11 DEF CloneInv, HasClone
    <2>8. ASSUME job[d].version = store.version
          PROVE  job'[d].path = store.path \o job'[d].moves
      <3>1. job[d].path = store.path \o job[d].moves
        BY <1>0, <1>11, <2>8 DEF CloneInv, HasClone
      <3>2. Append(job[d].path, move) = store.path \o Append(job[d].moves, move)
        BY <1>2, <1>P, <2>2, <3>1, CloneGrows
      <3> QED
        BY <2>1, <3>2
    <2>9. CloneInv(d)'
      BY <1>11, <2>1, <2>5, <2>6, <2>7, <2>8 DEF CloneInv
    <2>10. StoredAs(d, <<>>)'
      BY <1>4, <1>11 DEF StoredAs
    <2> QED
      BY <2>1, <2>9, <2>10 DEF Stored
  <1>12. ASSUME Leave(d) PROVE CloneInv(d)' /\ Stored(d)'
    BY <1>11, <1>12 DEF Leave, MayMove, Anywhere
  <1>13. ASSUME NEW to \in Scenes, Enter(d, to) \/ EnterHookThrows(d, to)
         PROVE  CloneInv(d)' /\ Stored(d)'
    <2>1. /\ Moved(d, to) /\ job[d].pc = "handler" /\ Allowed(SceneAfter(job[d].path), to)
          /\ store' = store /\ Move(d, to) \in Told' /\ to \in Anywhere
      BY <1>13 DEF Enter, EnterHookThrows, MayMove, Told, Anywhere
    <2> QED
      BY <1>11, <2>1
  <1> QED
    BY <1>5, <1>6, <1>7, <1>9, <1>10, <1>12, <1>13 DEF DeliveryStep, Step


LEMMA SessionInit == Init => SessionInv
  <1> SUFFICES ASSUME Init PROVE SessionInv
    OBVIOUS
  <1>1. store.path = <<>> /\ store.version = 1
    BY DEF Init
  <1>2. Serial(store.path, Told)
    BY <1>1 DEF Serial
  <1>3. ASSUME NEW d \in Deliveries PROVE CloneInv(d) /\ Stored(d)
    <2>1. job[d].pc = "idle"
      BY DEF Init, NewJob
    <2>2. StoredAs(d, <<>>)
      BY <1>1 DEF StoredAs
    <2> QED
      BY <2>1, <2>2 DEF CloneInv, HasClone, Stored
  <1> QED
    BY <1>2, <1>3 DEF SessionInv

LEMMA SessionStep ==
  ASSUME TypeOK, SessionInv, [Next]_vars
  PROVE  SessionInv'
  <1>1. ASSUME store' = store, job' = job, Told' = Told PROVE SessionInv'
    <2>1. Serial(store.path, Told)'
      BY <1>1 DEF SessionInv, Serial
    <2>2. ASSUME NEW d \in Deliveries PROVE CloneInv(d)' /\ Stored(d)'
      <3>1. CloneInv(d)'
        BY <1>1 DEF SessionInv, CloneInv, HasClone, Serial
      <3>2. Stored(d)'
        <4>1. Stored(d) /\ \A moves : StoredAs(d, moves)' <=> StoredAs(d, moves)
          BY <1>1 DEF SessionInv, StoredAs
        <4> QED
          BY <1>1, <4>1 DEF Stored
      <3> QED
        BY <3>1, <3>2
    <2> QED
      BY <2>1, <2>2 DEF SessionInv
  <1>2. CASE UNCHANGED vars
    BY <1>1, <1>2 DEF vars, outside, Told
  <1>3. ASSUME NEW route \in LateRoutes, Register(route) PROVE SessionInv'
    BY <1>1, <1>3 DEF Register, outside, Told
  <1>4. ASSUME NEW d \in Deliveries, DeliveryStep(d) PROVE SessionInv'
    <2>1. \A e \in Deliveries : CloneInv(e)' /\ Stored(e)'
      BY <1>4, OthersKeep, OwnKeeps
    <2>2. Told \subseteq Told'
      BY <1>4, Frames DEF Told
    <2>3. Serial(store'.path, Told')
      <3>1. CASE store' = store
        BY <2>2, <3>1 DEF SessionInv, Serial
      <3>2. CASE store'.path = job[d].path /\ job[d].pc = "save"
        <4>1. Serial(job[d].path, Told)
          BY <3>2 DEF SessionInv, CloneInv, HasClone
        <4> QED
          BY <2>2, <3>2, <4>1 DEF Serial
      <3> QED
        BY <1>4, <3>1, <3>2, Frames, SaveEffect
    <2> QED
      BY <2>1, <2>3 DEF SessionInv
  <1> QED
    BY <1>2, <1>3, <1>4, StepKinds

-------------------------------------------------------------------------------
(* The pipeline.                                                           *)

LEMMA ChainType ==
  ASSUME TypeOK, NEW d \in Deliveries
  PROVE  /\ Chain(d) \in Seq(Behaviours) /\ Len(Chain(d)) \in Nat
         /\ DOMAIN Chain(d) = 1 .. Len(Chain(d))
         /\ job[d].route # 0 => Chain(d) = Pipeline(d) /\ routes[job[d].route] \in KnownRoutes
  <1>1. CASE job[d].route = 0
    BY <1>1 DEF Chain
  <1>2. CASE job[d].route # 0
    <2>1. routes \in Seq(KnownRoutes) /\ job[d].route \in 1 .. Len(routes)
      BY <1>2 DEF TypeOK, RouterOK
    <2>2. routes[job[d].route] \in KnownRoutes
      BY <2>1
    <2>3. Pipeline(d) \in Seq(Behaviours)
      BY <2>2, PipelineLemma DEF Pipeline, TypeOK, RouterOK
    <2> QED
      BY <1>2, <2>2, <2>3 DEF Chain
  <1> QED
    BY <1>1, <1>2

\* Registering a route does not change the pipelines that run.
LEMMA ChainKept ==
  ASSUME TypeOK, NEW d \in Deliveries,
         \/ routes' = routes
         \/ \E route \in KnownRoutes : routes' = Append(routes, route),
         middlewares' = middlewares, job'[d].route = job[d].route
  PROVE  /\ Chain(d)' = Chain(d)
         /\ job[d].route \in DOMAIN routes => job'[d].route \in DOMAIN routes'
  <1>1. routes \in Seq(KnownRoutes) /\ job[d].route \in 0 .. Len(routes)
    BY DEF TypeOK, RouterOK
  <1>2. /\ job[d].route # 0 => routes'[job[d].route] = routes[job[d].route]
        /\ job[d].route \in DOMAIN routes => job'[d].route \in DOMAIN routes'
    <2>1. CASE routes' = routes
      BY <2>1
    <2>2. ASSUME NEW route \in KnownRoutes, routes' = Append(routes, route)
          PROVE  /\ job[d].route # 0 => routes'[job[d].route] = routes[job[d].route]
                 /\ job[d].route \in DOMAIN routes => job'[d].route \in DOMAIN routes'
      BY <1>1, <2>2
    <2> QED
      BY <2>1, <2>2
  <1> QED
    BY <1>2 DEF Chain, Pipeline

\* How often the middleware on top may call next.
LEMMA NextsLemma ==
  ASSUME TypeOK, NEW d \in Deliveries, InPipeline(d), StackInv(d)
  PROVE  /\ MaxNexts(d) \in {0, 1, 2}
         /\ (\A i \in DOMAIN Chain(d) : Chain(d)[i] # "twice") => MaxNexts(d) <= 1
         /\ Running(d) = "payment" =>
              /\ Top(d).at \in Payments(Chain(d))
              /\ MaxNexts(d) = IF job[d].kind = "checkout" THEN 0 ELSE 1
         /\ Top(d).at \in Payments(Chain(d)) => Running(d) = "payment"
  <1>1. /\ job[d].stack \in Seq(Frame) /\ job[d].stack # <<>> /\ job[d].index \in Nat
        /\ job[d].route # 0
    <2>1. job[d] \in Jobs /\ routes \in Seq(KnownRoutes)
      BY DEF TypeOK, RouterOK
    <2> QED
      BY <2>1 DEF StackInv, StackOK, Jobs
  <1>2. Top(d).at \in Nat /\ Len(job[d].stack) \in Nat \ {0}
    BY <1>1, CalledLemma
  <1>3. Top(d).at <= job[d].index /\ job[d].index <= Len(Chain(d))
    BY <1>2 DEF StackInv, StackOK, Top
  <1>4. /\ Len(Chain(d)) \in Nat /\ DOMAIN Chain(d) = 1 .. Len(Chain(d))
        /\ Chain(d) = Pipeline(d)
    BY <1>1, ChainType
  <1>5. Top(d).at = 0 \/ Top(d).at \in DOMAIN Chain(d)
    BY <1>1, <1>2, <1>3, <1>4
  <1>6. Running(d) = IF Top(d).at = 0 THEN "root" ELSE Chain(d)[Top(d).at]
    BY <1>4 DEF Running
  <1>7. 0 \notin DOMAIN Chain(d)
    BY <1>4
  <1>8. Running(d) = "payment" <=> Top(d).at \in Payments(Chain(d))
    BY <1>5, <1>6, <1>7 DEF Payments
  <1>9. (\A i \in DOMAIN Chain(d) : Chain(d)[i] # "twice") => Running(d) # "twice"
    BY <1>5, <1>6
  <1> QED
    BY <1>8, <1>9 DEF MaxNexts

\* The stack and the pipeline that a step of d finds.
LEMMA FoundLemma ==
  ASSUME TypeOK, NEW d \in Deliveries, InPipeline(d), StackInv(d)
  PROVE  /\ job[d].stack \in Seq(Frame) /\ job[d].stack # <<>> /\ job[d].index \in Nat
         /\ job[d].passed \in SUBSET Nat
         /\ StackOK(job[d], Chain(d)) /\ job[d].index <= Len(Chain(d))
         /\ Chain(d) = Pipeline(d) /\ Len(Chain(d)) \in Nat
         /\ DOMAIN Chain(d) = 1 .. Len(Chain(d)) /\ job[d].route \in DOMAIN routes
         /\ Top(d) = TopOf(job[d]) /\ Top(d).at \in Nat /\ Top(d).nexts \in Nat
         /\ Top(d).at <= job[d].index
  <1>1. /\ job[d].stack \in Seq(Frame) /\ job[d].stack # <<>> /\ job[d].index \in Nat
        /\ job[d].route # 0 /\ job[d].route \in DOMAIN routes /\ job[d].passed \in SUBSET Nat
    <2>1. job[d] \in Jobs /\ routes \in Seq(KnownRoutes)
      BY DEF TypeOK, RouterOK
    <2> QED
      BY <2>1 DEF StackInv, StackOK, Jobs
  <1>2. Top(d) = TopOf(job[d]) /\ StackOK(job[d], Chain(d))
    BY DEF Top, TopOf, StackInv
  <1>3. Top(d).at \in Nat /\ Top(d).nexts \in Nat /\ Len(job[d].stack) \in Nat \ {0}
    BY <1>1, CalledLemma
  <1>4. Top(d).at <= job[d].index /\ job[d].index <= Len(Chain(d))
    BY <1>2, <1>3 DEF StackOK, Top
  <1> QED
    BY <1>1, <1>2, <1>3, <1>4, ChainType

\* next() keeps the stack in order, and a fresh payment middleware that calls it has
\* done its part.
LEMMA StackCall ==
  ASSUME TypeOK, NEW d \in Deliveries, StackInv(d), CallNext(d)
  PROVE  /\ StackInv(d)' /\ Chain(d)' = Chain(d)
         /\ Due(job'[d], Chain(d)) = {p \in Payments(Chain(d)) : p > job[d].index}
         /\ Running(d) = "payment" =>
              Top(d).at \in Due(job[d], Chain(d)) \ Due(job'[d], Chain(d))
  <1> DEFINE stack == job[d].stack
             n == Len(stack)
             top == Top(d)
             chain == Chain(d)
             i == job[d].index + 1
  <1>1. InPipeline(d) /\ job[d].pc = "pipe" /\ top.nexts < MaxNexts(d)
    BY CallNextEffect DEF InPipeline
  <1>2. /\ stack \in Seq(Frame) /\ stack # <<>> /\ job[d].index \in Nat
        /\ StackOK(job[d], chain) /\ job[d].index <= Len(chain)
        /\ chain = Pipeline(d) /\ Len(chain) \in Nat /\ DOMAIN chain = 1 .. Len(chain)
        /\ job[d].route \in DOMAIN routes /\ top = TopOf(job[d])
        /\ top.at \in Nat /\ top.nexts \in Nat /\ top.at <= job[d].index
    BY <1>1, FoundLemma
  <1>3. /\ n \in Nat \ {0} /\ Called(d) \in Seq(Frame) /\ Len(Called(d)) = n
        /\ \A k \in 1 .. n : /\ Called(d)[k].at = stack[k].at
                             /\ k < n => Called(d)[k] = stack[k]
        /\ Called(d)[n].nexts = top.nexts + 1
    BY <1>2, CalledLemma
  <1>4. job'[d].route = job[d].route
    BY CallNextKeeps
  <1>5. Chain(d)' = chain /\ job'[d].route \in DOMAIN routes'
    <2>1. routes' = routes /\ middlewares' = middlewares
      BY Frames DEF DeliveryStep, Step
    <2> QED
      BY <1>2, <1>4, <2>1, ChainKept
  <1>6. \A k \in 1 .. n : /\ stack[k].at <= job[d].index
                          /\ k < n => stack[k].nexts > 0
    BY <1>2 DEF StackOK
  <1>7. top.nexts = 0 => top.at = job[d].index
    BY <1>2 DEF StackOK
  <1>8. job'[d].passed = job[d].passed \cup {top.at}
    BY CallNextEffect DEF Passed
  <1>9. (\A p \in DOMAIN chain : chain[p] # "twice") => 1 .. job[d].index \subseteq job'[d].passed
    <2> SUFFICES ASSUME \A p \in DOMAIN chain : chain[p] # "twice"
                 PROVE  1 .. job[d].index \subseteq job'[d].passed
      OBVIOUS
    <2>1. MaxNexts(d) \in {0, 1, 2} /\ MaxNexts(d) <= 1
      BY <1>1, NextsLemma
    <2>2. top.nexts = 0
      BY <1>1, <1>2, <2>1
    <2>3. 1 .. job[d].index - 1 \subseteq job[d].passed
      BY <1>1, <1>2, <2>2 DEF StackOK, IsFresh
    <2> QED
      BY <1>2, <1>7, <1>8, <2>2, <2>3
  <1>10. Due(job[d], chain) = {p \in Payments(chain) : p > job[d].index \/ (top.nexts = 0 /\ p = job[d].index)}
    BY <1>1, <1>2, <1>7 DEF Due, IsFresh
  <1>11. ASSUME i <= Len(chain)
         PROVE  /\ StackOK(job'[d], chain)
                /\ Due(job'[d], chain) = {p \in Payments(chain) : p > job[d].index}
    <2>1. /\ job'[d].index = i /\ job'[d].pc = "pipe"
          /\ job'[d].stack = Append(Called(d), [at |-> i, nexts |-> 0])
      BY <1>1, <1>2, <1>11, CallNextEffect, CallNextKeeps
    <2> DEFINE new == job'[d].stack
    <2>2. [at |-> i, nexts |-> 0] \in Frame
      BY <1>2 DEF Frame
    <2>3. /\ Len(new) = n + 1 /\ new # <<>>
          /\ new[n + 1] = [at |-> i, nexts |-> 0]
          /\ \A k \in 1 .. n : new[k] = Called(d)[k]
      BY <1>3, <2>1, <2>2
    <2> HIDE DEF new, n, stack, i, top, chain
    <2>4. TopOf(job'[d]) = [at |-> i, nexts |-> 0]
      BY <2>3 DEF TopOf, new
    <2>5. \A k \in 1 .. Len(new) : new[k].at <= i /\ (k < Len(new) => new[k].nexts > 0)
      <3> SUFFICES ASSUME NEW k \in 1 .. Len(new)
                   PROVE  new[k].at <= i /\ (k < Len(new) => new[k].nexts > 0)
        OBVIOUS
      <3>1. CASE k = n + 1
        BY <1>2, <1>3, <2>3, <3>1 DEF i
      <3>2. CASE k \in 1 .. n
        <4>1. new[k].at = stack[k].at /\ stack[k].at \in Nat
          <5>1. stack[k] \in Frame
            BY <1>2, <3>2 DEF n
          <5> QED
            BY <1>3, <2>3, <3>2, <5>1 DEF Frame
        <4>2. new[k].at <= i
          BY <1>2, <1>6, <3>2, <4>1 DEF i
        <4>3. CASE k < n
          BY <1>3, <1>6, <2>3, <3>2, <4>2, <4>3
        <4>4. CASE k = n
          BY <1>2, <1>3, <2>3, <3>2, <4>2, <4>4
        <4> QED
          BY <1>3, <3>2, <4>3, <4>4
      <3> QED
        BY <1>3, <2>3, <3>1, <3>2
    <2>6. StackOK(job'[d], chain)
      <3>1. /\ job'[d].stack # <<>> /\ job'[d].index <= Len(chain)
            /\ \A k \in 1 .. Len(job'[d].stack) :
                 /\ job'[d].stack[k].at <= job'[d].index
                 /\ k < Len(job'[d].stack) => job'[d].stack[k].nexts > 0
        BY <1>11, <2>1, <2>3, <2>5 DEF new
      <3>2. TopOf(job'[d]).at = job'[d].index /\ job'[d].pc = "pipe"
        BY <2>1, <2>4
      <3>3. job'[d].index - 1 = job[d].index
        BY <1>2, <2>1 DEF i
      <3> QED
        BY <1>9, <3>1, <3>2, <3>3 DEF StackOK
    <2>7. Due(job'[d], chain) = {p \in Payments(chain) : p > job[d].index}
      <3>1. Payments(chain) \subseteq Int
        BY <1>2 DEF Payments
      <3> QED
        BY <1>2, <2>1, <2>4, <3>1 DEF Due, IsFresh, i
    <2> QED
      BY <2>6, <2>7
  <1>12. ASSUME ~(i <= Len(chain))
         PROVE  /\ StackOK(job'[d], chain)
                /\ Due(job'[d], chain) = {p \in Payments(chain) : p > job[d].index}
    <2>1. /\ job'[d].index = job[d].index /\ job'[d].pc = "handler"
          /\ job'[d].stack = Called(d)
      <3>1. ~(job[d].index + 1 <= Len(Pipeline(d)))
        BY <1>2, <1>12
      <3> QED
        BY <1>1, <3>1, CallNextEffect, CallNextKeeps
    <2> HIDE DEF n, stack, top, chain
    <2>2. job[d].index = Len(chain)
      BY <1>2, <1>12
    <2>3. TopOf(job'[d]).nexts > 0
      <3>1. TopOf(job'[d]) = Called(d)[n]
        BY <1>3, <2>1 DEF TopOf
      <3> QED
        BY <1>2, <1>3, <3>1
    <2>4. /\ job'[d].stack # <<>>
          /\ \A k \in 1 .. Len(job'[d].stack) :
               /\ job'[d].stack[k].at <= job'[d].index
               /\ k < Len(job'[d].stack) => job'[d].stack[k].nexts > 0
      BY <1>3, <1>6, <2>1 DEF stack
    <2>5. StackOK(job'[d], chain)
      BY <1>2, <1>9, <2>1, <2>2, <2>3, <2>4 DEF StackOK, IsFresh
    <2>6. Due(job'[d], chain) = {p \in Payments(chain) : p > job[d].index}
      BY <2>1 DEF Due, IsFresh
    <2> QED
      BY <2>5, <2>6
  <1>13. ASSUME Running(d) = "payment",
                Due(job'[d], chain) = {p \in Payments(chain) : p > job[d].index}
         PROVE  top.at \in Due(job[d], chain) \ Due(job'[d], chain)
    <2>1. top.at \in Payments(chain) /\ MaxNexts(d) \in {0, 1}
      BY <1>1, <1>13, NextsLemma
    <2>2. top.nexts = 0
      BY <1>1, <1>2, <2>1
    <2> QED
      BY <1>2, <1>7, <1>10, <1>13, <2>1, <2>2
  <1>14. StackInv(d)'
    BY <1>5, <1>11, <1>12 DEF StackInv
  <1> QED
    BY <1>5, <1>11, <1>12, <1>13, <1>14

\* A middleware that returns leaves the ones below it as they were, and a fresh
\* payment middleware returns only if it has answered a pre-checkout query.
LEMMA StackReturn ==
  ASSUME TypeOK, NEW d \in Deliveries, StackInv(d), Return(d)
  PROVE  /\ StackInv(d)' /\ Chain(d)' = Chain(d)
         /\ Due(job'[d], Chain(d)) = {p \in Payments(Chain(d)) : p > job[d].index}
         /\ job[d].kind # "checkout" => Due(job[d], Chain(d)) = Due(job'[d], Chain(d))
         /\ job[d].kind = "checkout" /\ Running(d) = "payment" =>
              Top(d).at \in Due(job[d], Chain(d)) \ Due(job'[d], Chain(d))
  <1> DEFINE stack == job[d].stack
             n == Len(stack)
             top == Top(d)
             chain == Chain(d)
  <1>1. InPipeline(d) /\ job[d].pc = "pipe"
    BY ReturnEffect DEF InPipeline
  <1>2. /\ stack \in Seq(Frame) /\ stack # <<>> /\ job[d].index \in Nat
        /\ StackOK(job[d], chain) /\ job[d].index <= Len(chain)
        /\ chain = Pipeline(d) /\ Len(chain) \in Nat /\ DOMAIN chain = 1 .. Len(chain)
        /\ job[d].route \in DOMAIN routes /\ top = TopOf(job[d])
        /\ top.at \in Nat /\ top.nexts \in Nat /\ top.at <= job[d].index
    BY <1>1, FoundLemma
  <1>3. /\ job'[d].route = job[d].route /\ job'[d].index = job[d].index
        /\ job'[d].passed = job[d].passed
        /\ job'[d].stack = SubSeq(stack, 1, n - 1)
        /\ job'[d].pc = IF n = 1 THEN "save" ELSE "pipe"
    BY ReturnEffect, Kept
  <1>4. Chain(d)' = chain /\ job'[d].route \in DOMAIN routes'
    <2>1. routes' = routes /\ middlewares' = middlewares
      BY Frames DEF DeliveryStep, Step
    <2> QED
      BY <1>2, <1>3, <2>1, ChainKept
  <1>5. n \in Nat \ {0}
    BY <1>2
  <1> DEFINE new == job'[d].stack
  <1>6. Len(new) = n - 1 /\ \A k \in 1 .. n - 1 : new[k] = stack[k]
    BY <1>2, <1>3, <1>5
  <1> HIDE DEF new, stack, n, top, chain
  <1>7. \A k \in 1 .. n - 1 : new[k].at <= job[d].index /\ new[k].nexts > 0
    <2>1. \A k \in 1 .. n : /\ stack[k].at <= job[d].index
                            /\ k < n => stack[k].nexts > 0
      BY <1>2 DEF StackOK, n, stack
    <2> SUFFICES ASSUME NEW k \in 1 .. n - 1
                 PROVE  new[k].at <= job[d].index /\ new[k].nexts > 0
      OBVIOUS
    <2>2. k \in 1 .. n /\ k < n
      BY <1>5
    <2> QED
      BY <1>6, <2>1, <2>2
  <1>8. n # 1 => TopOf(job'[d]).nexts > 0 /\ new # <<>>
    BY <1>5, <1>6, <1>7 DEF TopOf, new
  <1>9. n # 1 => ~(TopOf(job'[d]).nexts = 0)
    BY <1>8
  <1>10. ~IsFresh(job'[d])
    BY <1>3, <1>9 DEF IsFresh
  <1>11. StackInv(d)'
    <2>1. CASE n = 1
      BY <1>3, <2>1 DEF StackInv, InPipeline
    <2>2. CASE n # 1
      <3>1. /\ job'[d].stack # <<>> /\ job'[d].index <= Len(chain)
            /\ \A k \in 1 .. Len(job'[d].stack) :
                 /\ job'[d].stack[k].at <= job'[d].index
                 /\ k < Len(job'[d].stack) => job'[d].stack[k].nexts > 0
        BY <1>2, <1>3, <1>5, <1>6, <1>7, <1>8, <2>2 DEF new
      <3>2. job'[d].pc = "pipe"
        BY <1>3, <2>2
      <3>3. StackOK(job'[d], chain)
        BY <1>9, <1>10, <2>2, <3>1, <3>2 DEF StackOK
      <3> QED
        BY <1>4, <3>3 DEF StackInv
    <2> QED
      BY <2>1, <2>2
  <1>12. Due(job'[d], chain) = {p \in Payments(chain) : p > job[d].index}
    BY <1>3, <1>10 DEF Due
  <1>13. top.nexts = 0 => top.at = job[d].index
    BY <1>2 DEF StackOK
  <1>14. Payments(chain) \subseteq Int
    BY <1>2 DEF Payments
  <1>15. job[d].kind # "checkout" => Due(job[d], chain) = Due(job'[d], chain)
    <2> SUFFICES ASSUME job[d].kind # "checkout", NEW p \in Payments(chain),
                        IsFresh(job[d]), TopOf(job[d]).at = p
                 PROVE  FALSE
      BY <1>12 DEF Due
    <2>1. Running(d) = "payment" /\ top.nexts = 0
      BY <1>1, <1>2, NextsLemma DEF IsFresh, chain, top
    <2>2. MaxNexts(d) = 1
      BY <1>1, <2>1, NextsLemma
    <2>3. Running(d) \in {"gate", "twice"} \/ top.nexts = MaxNexts(d)
      BY ReturnEffect DEF MayReturn, top
    <2> QED
      BY <2>1, <2>2, <2>3
  <1>16. ASSUME job[d].kind = "checkout", Running(d) = "payment"
         PROVE  top.at \in Due(job[d], chain) \ Due(job'[d], chain)
    <2>1. top.at \in Payments(chain) /\ MaxNexts(d) = 0
      BY <1>1, <1>16, NextsLemma DEF top, chain
    <2>2. Running(d) \in {"gate", "twice"} \/ top.nexts = MaxNexts(d)
      BY ReturnEffect DEF MayReturn, top
    <2>3. top.nexts = 0
      BY <1>16, <2>1, <2>2
    <2>4. top.at \in Due(job[d], chain)
      BY <1>1, <1>2, <2>1, <2>3 DEF Due, IsFresh
    <2>5. top.at \notin Due(job'[d], chain)
      BY <1>2, <1>12, <1>13, <2>3
    <2> QED
      BY <2>4, <2>5
  <1> QED
    BY <1>4, <1>11, <1>12, <1>15, <1>16 DEF top, chain

\* A handler works below a stack on which everybody has called next.
LEMMA StackHandler ==
  ASSUME TypeOK, NEW d \in Deliveries, StackInv(d), job[d].pc = "handler",
         InPipeline(d)', routes' = routes, middlewares' = middlewares,
         job'[d].route = job[d].route, job'[d].index = job[d].index,
         job'[d].stack = job[d].stack, job'[d].passed = job[d].passed
  PROVE  /\ StackInv(d)' /\ Chain(d)' = Chain(d)
         /\ Due(job[d], Chain(d)) = {} /\ Due(job'[d], Chain(d)) = {}
  <1>1. InPipeline(d)
    BY DEF InPipeline
  <1>2. /\ StackOK(job[d], Chain(d)) /\ job[d].route \in DOMAIN routes
        /\ Len(Chain(d)) \in Nat /\ DOMAIN Chain(d) = 1 .. Len(Chain(d))
    BY <1>1, FoundLemma
  <1>3. Chain(d)' = Chain(d) /\ job'[d].route \in DOMAIN routes'
    BY <1>2, ChainKept
  <1>4. TopOf(job'[d]) = TopOf(job[d]) /\ TopOf(job[d]).nexts # 0
    BY <1>2 DEF StackOK, TopOf
  <1>5. job[d].index = Len(Chain(d))
    BY <1>2 DEF StackOK
  <1>6. ~IsFresh(job[d]) /\ ~IsFresh(job'[d])
    BY <1>4 DEF IsFresh
  <1>7. StackOK(job'[d], Chain(d))
    BY <1>2, <1>4, <1>5, <1>6 DEF StackOK
  <1>8. \A p \in Payments(Chain(d)) : ~(p > job[d].index)
    BY <1>2, <1>5 DEF Payments
  <1>9. Due(job[d], Chain(d)) = {} /\ Due(job'[d], Chain(d)) = {}
    BY <1>6, <1>8 DEF Due
  <1> QED
    BY <1>3, <1>7, <1>9 DEF StackInv

\* A pipeline starts with nothing passed and everything due.
LEMMA StackStart ==
  ASSUME TypeOK, NEW d \in Deliveries, StartInv(d), Dispatch(d)
  PROVE  /\ StackInv(d)' /\ job'[d].handled = FALSE
         /\ job'[d].pc = "pipe" => Payments(Chain(d)') = Due(job'[d], Chain(d)')
  <1>1. /\ job[d].pc = "dispatch" /\ job[d].index = 0 /\ job[d].handled = FALSE
    BY DispatchEffect DEF StartInv
  <1>2. job'[d].index = 0 /\ job'[d].handled = FALSE
    BY <1>1, DispatchEffect, Kept
  <1>3. CASE job'[d].pc = "save"
    BY <1>2, <1>3 DEF StackInv, InPipeline
  <1>4. CASE /\ job'[d].pc = "pipe" /\ job'[d].route \in DOMAIN routes
             /\ job'[d].stack = <<[at |-> 0, nexts |-> 0]>>
    <2>1. /\ routes' = routes /\ middlewares' = middlewares /\ routes \in Seq(KnownRoutes)
          /\ middlewares \in MiddlewareTables
      BY Frames DEF DeliveryStep, Step, TypeOK, RouterOK
    <2>2. routes[job'[d].route] \in KnownRoutes /\ job'[d].route \in Nat \ {0}
      BY <1>4, <2>1
    <2> DEFINE chain == PipelineOf(middlewares, routes[job'[d].route])
    <2>3. chain \in Seq(Behaviours)
      BY <2>1, <2>2, PipelineLemma
    <2>4. Chain(d)' = chain
      BY <2>1, <2>2 DEF Chain, Pipeline
    <2> HIDE DEF chain
    <2>5. Len(chain) \in Nat /\ DOMAIN chain = 1 .. Len(chain)
      BY <2>3
    <2>6. Len(job'[d].stack) = 1 /\ job'[d].stack[1] = [at |-> 0, nexts |-> 0]
      BY <1>4
    <2>7. TopOf(job'[d]) = [at |-> 0, nexts |-> 0]
      BY <2>6 DEF TopOf
    <2>8. StackOK(job'[d], chain)
      <3>1. job'[d].stack # <<>> /\ job'[d].index <= Len(chain)
        BY <1>2, <2>5, <2>6
      <3>2. \A k \in 1 .. Len(job'[d].stack) :
              /\ job'[d].stack[k].at <= job'[d].index
              /\ k < Len(job'[d].stack) => job'[d].stack[k].nexts > 0
        BY <1>2, <2>6
      <3>3. 1 .. job'[d].index - 1 = {}
        BY <1>2
      <3> QED
        BY <1>2, <1>4, <2>7, <3>1, <3>2, <3>3 DEF StackOK
    <2>9. Payments(chain) = Due(job'[d], chain)
      BY <1>2, <2>5 DEF Payments, Due
    <2>10. job'[d].route \in DOMAIN routes'
      BY <1>4, <2>1
    <2> QED
      BY <1>2, <2>4, <2>8, <2>9, <2>10 DEF StackInv
  <1> QED
    BY <1>2, <1>3, <1>4, DispatchEffect

\* Nothing changes for a delivery that does not step, nor when a route is registered.
LEMMA RunsKeep ==
  ASSUME TypeOK, NEW e \in Deliveries, job'[e] = job[e],
         fulfilled'[e] = fulfilled[e], answered'[e] = answered[e],
         \/ routes' = routes
         \/ \E route \in KnownRoutes : routes' = Append(routes, route),
         middlewares' = middlewares
  PROVE  /\ RunInv(e) => RunInv(e)'
         /\ PayCount(e) => PayCount(e)'
  <1>1. /\ Chain(e)' = Chain(e)
        /\ job[e].route \in DOMAIN routes => job'[e].route \in DOMAIN routes'
    BY ChainKept
  <1>2. InPipeline(e)' = InPipeline(e)
    BY DEF InPipeline
  <1>3. StartInv(e) => StartInv(e)'
    BY DEF StartInv
  <1>4. StackInv(e) => StackInv(e)'
    BY <1>1, <1>2 DEF StackInv
  <1>5. PayDone(e) => PayDone(e)'
    BY <1>1, <1>2 DEF PayDone
  <1>6. PayCount(e) => PayCount(e)'
    BY <1>1, <1>2 DEF PayCount, Calls
  <1> QED
    BY <1>3, <1>4, <1>5, <1>6 DEF RunInv

\* What a step outside of the pipeline does to what the delivery has counted.
LEMMA CountsKeep ==
  ASSUME TypeOK, NEW d \in Deliveries, DeliveryStep(d)
  PROVE  /\ ~CallNext(d) => fulfilled' = fulfilled
         /\ ~Return(d) => answered' = answered
         /\ CallNext(d) =>
              /\ answered' = answered
              /\ fulfilled'[d] = IF Running(d) = "payment" /\ job[d].kind = "payment"
                                   THEN fulfilled[d] + 1 ELSE fulfilled[d]
         /\ Return(d) =>
              /\ fulfilled' = fulfilled
              /\ answered'[d] = IF Running(d) = "payment" /\ job[d].kind = "checkout"
                                  THEN answered[d] + 1 ELSE answered[d]
  <1>1. fulfilled \in [Deliveries -> Nat] /\ answered \in [Deliveries -> Nat]
    BY DEF TypeOK
  <1>2. ~CallNext(d) => fulfilled' = fulfilled
    BY DEF DeliveryStep, Step, Receive, Load, Dispatch, Return, HandlerReturns,
       Save, Throw, Leave, Enter, EnterHookThrows, outside
  <1>3. ~Return(d) => answered' = answered
    BY DEF DeliveryStep, Step, Receive, Load, Dispatch, CallNext, HandlerReturns,
       Save, Throw, Leave, Enter, EnterHookThrows, outside
  <1>4. CallNext(d) =>
          /\ answered' = answered
          /\ fulfilled'[d] = IF Running(d) = "payment" /\ job[d].kind = "payment"
                               THEN fulfilled[d] + 1 ELSE fulfilled[d]
    BY <1>1 DEF CallNext
  <1>5. Return(d) =>
          /\ fulfilled' = fulfilled
          /\ answered'[d] = IF Running(d) = "payment" /\ job[d].kind = "checkout"
                              THEN answered[d] + 1 ELSE answered[d]
    BY <1>1 DEF Return
  <1> QED
    BY <1>2, <1>3, <1>4, <1>5

\* A step of a handler.
LEMMA HandlerSteps ==
  ASSUME TypeOK, NEW d \in Deliveries, DeliveryStep(d)
  PROVE  \/ job[d].pc # "handler"
         \/ Throw(d)
         \/ HandlerReturns(d)
         \/ /\ Becomes(job[d], job'[d], {"path", "moves"})
            /\ ~CallNext(d) /\ ~Return(d)
  <1> SUFFICES ASSUME job[d].pc = "handler", ~Throw(d), ~HandlerReturns(d)
               PROVE  /\ Becomes(job[d], job'[d], {"path", "moves"})
                      /\ ~CallNext(d) /\ ~Return(d)
    OBVIOUS
  <1>1. ~CallNext(d) /\ ~Return(d)
    BY DEF CallNext, Return
  <1>2. \E to : Moved(d, to)
    BY <1>1 DEF DeliveryStep, Step, Receive, Load, Dispatch, Save, Leave, Enter, EnterHookThrows
  <1> QED
    BY <1>1, <1>2, MovedEffect

LEMMA RunOwn ==
  ASSUME TypeOK, NEW d \in Deliveries, DeliveryStep(d), RunInv(d)
  PROVE  RunInv(d)'
  <1>0. /\ StartInv(d) /\ StackInv(d) /\ PayDone(d)
        /\ routes' = routes /\ middlewares' = middlewares
        /\ fulfilled[d] \in Nat /\ answered[d] \in Nat
    BY Frames DEF RunInv, TypeOK
  <1>1. ASSUME job'[d].pc \in {"load", "ignored", "rejected"} PROVE RunInv(d)'
    BY <1>1 DEF RunInv, StartInv, StackInv, PayDone, InPipeline
  <1>2. ASSUME NEW kind \in Kinds, Receive(d, kind) PROVE RunInv(d)'
    BY <1>1, <1>2, ReceiveEffect
  <1>3. CASE Throw(d)
    BY <1>1, <1>3, EndEffect DEF Throw
  <1>4. CASE Load(d)
    <2>1. job'[d].pc = "dispatch"
      BY <1>4, LoadEffect
    <2>2. /\ job'[d].index = 0 /\ job'[d].stack = <<>> /\ job'[d].passed = {}
          /\ job'[d].handled = FALSE
      <3>1. Becomes(NewJob, job'[d], {"pc", "kind", "attempt", "version", "path"})
        BY <1>4, LoadEffect
      <3>2. /\ job'[d].index = NewJob.index /\ job'[d].stack = NewJob.stack
            /\ job'[d].passed = NewJob.passed /\ job'[d].handled = NewJob.handled
        BY <3>1, Kept
      <3> QED
        BY <3>2 DEF NewJob
    <2> QED
      BY <2>1, <2>2 DEF RunInv, StartInv, StackInv, PayDone, InPipeline
  <1>5. CASE Dispatch(d)
    <2>1. /\ StackInv(d)' /\ job'[d].handled = FALSE
          /\ job'[d].pc = "pipe" => Payments(Chain(d)') = Due(job'[d], Chain(d)')
      BY <1>0, <1>5, StackStart
    <2>2. job'[d].pc \in {"save", "pipe"}
      BY <1>5, DispatchEffect
    <2> QED
      BY <2>1, <2>2 DEF RunInv, StartInv, PayDone, InPipeline
  <1>6. CASE CallNext(d)
    <2>1. /\ StackInv(d)' /\ Chain(d)' = Chain(d) /\ InPipeline(d)
          /\ Due(job'[d], Chain(d)) = {p \in Payments(Chain(d)) : p > job[d].index}
      BY <1>0, <1>6, StackCall, CallNextEffect DEF InPipeline
    <2>2. /\ job'[d].kind = job[d].kind /\ job'[d].handled = job[d].handled
          /\ job[d].pc = "pipe" /\ job'[d].pc \in {"pipe", "handler"}
      BY <1>6, CallNextEffect, CallNextKeeps
    <2>3. fulfilled'[d] = IF Running(d) = "payment" /\ job[d].kind = "payment"
                            THEN fulfilled[d] + 1 ELSE fulfilled[d]
      BY <1>6, CountsKeep
    <2>4. ASSUME job[d].kind = "payment", Payments(Chain(d)) # Due(job'[d], Chain(d))
          PROVE  fulfilled'[d] > 0
      <3>1. CASE Payments(Chain(d)) # Due(job[d], Chain(d))
        BY <1>0, <2>1, <2>3, <2>4, <3>1 DEF PayDone
      <3>2. CASE Payments(Chain(d)) = Due(job[d], Chain(d))
        <4>1. PICK p \in Payments(Chain(d)) : p \in Due(job[d], Chain(d)) /\ ~(p > job[d].index)
          BY <2>1, <2>4, <3>2
        <4>2. TopOf(job[d]).at = p
          BY <4>1 DEF Due
        <4>3. Running(d) = "payment"
          BY <1>0, <2>1, <4>2, NextsLemma, FoundLemma
        <4> QED
          BY <1>0, <2>3, <2>4, <4>3
      <3> QED
        BY <3>1, <3>2
    <2>5. ASSUME job[d].kind = "payment", job[d].handled, Payments(Chain(d)) # {}
          PROVE  fulfilled'[d] > 0
      <3>1. fulfilled[d] > 0
        BY <1>0, <2>2, <2>5 DEF PayDone
      <3> QED
        BY <1>0, <2>3, <3>1
    <2>6. PayDone(d)'
      BY <2>1, <2>2, <2>4, <2>5 DEF PayDone
    <2> QED
      BY <2>1, <2>2, <2>6 DEF RunInv, StartInv
  <1>7. CASE Return(d)
    <2>1. /\ StackInv(d)' /\ Chain(d)' = Chain(d) /\ InPipeline(d)
          /\ job[d].kind # "checkout" => Due(job[d], Chain(d)) = Due(job'[d], Chain(d))
      BY <1>0, <1>7, StackReturn, ReturnEffect DEF InPipeline
    <2>2. /\ job'[d].kind = job[d].kind /\ job'[d].handled = job[d].handled
          /\ job[d].pc = "pipe" /\ job'[d].pc \in {"pipe", "save"} /\ fulfilled' = fulfilled
      BY <1>7, ReturnEffect, CountsKeep, Kept
    <2>3. PayDone(d)'
      BY <1>0, <2>1, <2>2 DEF PayDone
    <2> QED
      BY <2>1, <2>2, <2>3 DEF RunInv, StartInv
  <1>8. CASE job[d].pc = "handler" /\ ~Throw(d)
    <2>1. /\ job'[d].route = job[d].route /\ job'[d].index = job[d].index
          /\ job'[d].stack = job[d].stack /\ job'[d].passed = job[d].passed
          /\ job'[d].kind = job[d].kind /\ job'[d].pc \in {"pipe", "handler"}
      <3>1. CASE HandlerReturns(d)
        BY <3>1, HandlerReturnsEffect, HandlerReturnsKeeps
      <3>2. CASE Becomes(job[d], job'[d], {"path", "moves"})
        BY <1>8, <3>2, Kept
      <3> QED
        BY <1>8, <3>1, <3>2, HandlerSteps
    <2>2. fulfilled' = fulfilled
      BY <1>8, CountsKeep DEF CallNext
    <2>3. /\ StackInv(d)' /\ Chain(d)' = Chain(d)
          /\ Due(job[d], Chain(d)) = {} /\ Due(job'[d], Chain(d)) = {}
      BY <1>0, <1>8, <2>1, StackHandler DEF InPipeline
    <2>4. job[d].kind = "payment" /\ Payments(Chain(d)) # {} => fulfilled[d] > 0
      BY <1>0, <1>8, <2>3 DEF PayDone, InPipeline
    <2>5. PayDone(d)'
      BY <2>1, <2>2, <2>3, <2>4 DEF PayDone
    <2> QED
      BY <2>1, <2>3, <2>5 DEF RunInv, StartInv
  <1>9. CASE Save(d)
    <2>1. CASE job'[d].pc = "load"
      BY <1>1, <2>1
    <2>2. ASSUME NEW pc \in {"saved", "rejected"}, End(d, pc) PROVE RunInv(d)'
      <3>1. /\ job'[d].route = job[d].route /\ job'[d].kind = job[d].kind
            /\ job'[d].handled = job[d].handled /\ job'[d].pc = pc
        BY <2>2, EndEffect, Kept
      <3>2. Chain(d)' = Chain(d) /\ fulfilled' = fulfilled /\ job[d].pc = "save"
        BY <1>0, <1>9, <3>1, ChainKept DEF Save, outside
      <3>3. PayDone(d)'
        BY <1>0, <3>1, <3>2 DEF PayDone, InPipeline
      <3> QED
        BY <3>1, <3>3 DEF RunInv, StartInv, StackInv, InPipeline
    <2> QED
      BY <1>9, <2>1, <2>2, SaveEffect
  <1> QED
    BY <1>2, <1>3, <1>4, <1>5, <1>6, <1>7, <1>8, <1>9 DEF DeliveryStep, Step,
       HandlerReturns, Leave, Enter, EnterHookThrows, MayMove

\* Two payment middlewares of one pipeline are one.
LEMMA OneLemma ==
  ASSUME OnePayment, TypeOK, NEW d \in Deliveries,
         NEW p \in Payments(Chain(d)), NEW q \in Payments(Chain(d))
  PROVE  p = q
  <1>1. job[d].route # 0
    BY DEF Payments, Chain
  <1>2. Chain(d) = PipelineOf(middlewares, routes[job[d].route])
        /\ routes[job[d].route] \in KnownRoutes /\ middlewares \in MiddlewareTables
    BY <1>1, ChainType DEF Pipeline, TypeOK, RouterOK
  <1>3. \A i, j \in DOMAIN Chain(d) :
          Chain(d)[i] = "payment" /\ Chain(d)[j] = "payment" => i = j
    BY <1>2 DEF OnePayment
  <1> QED
    BY <1>3 DEF Payments

LEMMA CountOwn ==
  ASSUME OnePayment, TypeOK, NEW d \in Deliveries, DeliveryStep(d), RunInv(d), PayCount(d)
  PROVE  PayCount(d)'
  <1>0. /\ StartInv(d) /\ StackInv(d) /\ PayCount(d)
        /\ routes' = routes /\ middlewares' = middlewares
        /\ fulfilled[d] \in Nat /\ answered[d] \in Nat /\ job[d].attempt \in Nat
    <2>1. job[d] \in Jobs
      BY DEF TypeOK
    <2> QED
      BY <2>1, Frames DEF RunInv, TypeOK, Jobs
  <1>1. ASSUME Calls(d)' = Calls(d), job'[d].attempt = job[d].attempt,
               job'[d].pc \in {"idle", "load", "dispatch"} =>
                 job[d].pc \in {"idle", "load", "dispatch"},
               InPipeline(d)' => Calls(d) < job[d].attempt
        PROVE  PayCount(d)'
    BY <1>0, <1>1 DEF PayCount
  <1>2. ~CallNext(d) /\ ~Return(d) => Calls(d)' = Calls(d)
    BY CountsKeep DEF Calls
  <1>3. ASSUME NEW kind \in Kinds, Receive(d, kind) PROVE PayCount(d)'
    <2>1. /\ job[d].pc = "idle" /\ job'[d].pc \in {"load", "ignored"}
          /\ Becomes(job[d], job'[d], {"pc", "kind"})
      BY <1>3, ReceiveEffect
    <2>3. job'[d].attempt = job[d].attempt
      BY <2>1, Kept
    <2>2. Calls(d)' = Calls(d)
      BY <1>2, <1>3 DEF Receive, CallNext, Return
    <2> QED
      BY <1>1, <2>1, <2>2, <2>3 DEF InPipeline
  <1>4. ASSUME NEW pc \in {"saved", "rejected"}, End(d, pc), ~CallNext(d), ~Return(d)
        PROVE  PayCount(d)'
    <2>1. job'[d].pc = pc /\ job'[d].attempt = job[d].attempt
      BY <1>4, EndEffect, Kept
    <2> QED
      BY <1>1, <1>2, <1>4, <2>1 DEF InPipeline
  <1>5. CASE Throw(d)
    <2>1. UNCHANGED <<fulfilled, answered>> /\ End(d, "rejected")
      BY <1>5 DEF Throw, outside
    <2>2. Calls(d)' = Calls(d)
      BY <2>1 DEF Calls
    <2>3. job'[d].pc = "rejected" /\ job'[d].attempt = job[d].attempt
      BY <2>1, EndEffect, Kept
    <2> QED
      BY <1>1, <2>2, <2>3 DEF InPipeline
  <1>6. CASE Load(d)
    <2>1. /\ job[d].pc = "load" /\ job'[d].pc = "dispatch" /\ job'[d].attempt = job[d].attempt
      BY <1>6, LoadEffect
    <2>2. Calls(d)' = Calls(d)
      BY <1>6 DEF Load, Calls, outside
    <2> QED
      BY <1>1, <2>1, <2>2 DEF InPipeline
  <1>7. CASE Dispatch(d)
    <2>1. /\ job[d].pc = "dispatch" /\ job'[d].pc \in {"save", "pipe"}
          /\ job'[d].attempt = job[d].attempt
      BY <1>7, DispatchEffect, Kept
    <2>2. Calls(d)' = Calls(d)
      BY <1>7 DEF Dispatch, Calls, outside
    <2>3. Calls(d) < job[d].attempt
      BY <1>0, <2>1 DEF PayCount
    <2> QED
      BY <1>1, <2>1, <2>2, <2>3
  <1>8. CASE CallNext(d)
    <2>1. /\ Chain(d)' = Chain(d) /\ InPipeline(d)
          /\ Due(job'[d], Chain(d)) = {p \in Payments(Chain(d)) : p > job[d].index}
          /\ Running(d) = "payment" =>
               Top(d).at \in Due(job[d], Chain(d)) \ Due(job'[d], Chain(d))
      BY <1>0, <1>8, StackCall, CallNextEffect DEF InPipeline
    <2>2. /\ job'[d].attempt = job[d].attempt
          /\ job[d].pc = "pipe" /\ job'[d].pc \in {"pipe", "handler"}
      BY <1>8, CallNextEffect, CallNextKeeps
    <2>3. Due(job'[d], Chain(d)) \subseteq Due(job[d], Chain(d))
      BY <2>1 DEF Due
    <2>4. CASE Running(d) = "payment" /\ job[d].kind = "payment"
      <3>1. Calls(d)' = Calls(d) + 1
        BY <1>0, <1>8, <2>4, CountsKeep DEF Calls
      <3>2. Top(d).at \in Payments(Chain(d)) /\ Top(d).at \in Due(job[d], Chain(d))
        BY <2>1, <2>4 DEF Due
      <3>3. Payments(Chain(d)) \subseteq Due(job[d], Chain(d))
        BY <3>2, OneLemma
      <3>4. Calls(d) < job[d].attempt /\ Calls(d) \in Nat
        BY <1>0, <2>1, <3>3 DEF PayCount, Calls
      <3>5. ~(Payments(Chain(d)) \subseteq Due(job'[d], Chain(d)))
        BY <2>1, <2>4, <3>2
      <3> QED
        BY <1>0, <2>1, <2>2, <3>1, <3>4, <3>5 DEF PayCount
    <2>5. CASE ~(Running(d) = "payment" /\ job[d].kind = "payment")
      <3>1. Calls(d)' = Calls(d)
        BY <1>0, <1>8, <2>5, CountsKeep DEF Calls
      <3> QED
        BY <1>0, <2>1, <2>2, <2>3, <3>1 DEF PayCount
    <2> QED
      BY <2>4, <2>5
  <1>9. CASE Return(d)
    <2>1. /\ Chain(d)' = Chain(d) /\ InPipeline(d)
          /\ Due(job'[d], Chain(d)) = {p \in Payments(Chain(d)) : p > job[d].index}
          /\ job[d].kind = "checkout" /\ Running(d) = "payment" =>
               Top(d).at \in Due(job[d], Chain(d)) \ Due(job'[d], Chain(d))
      BY <1>0, <1>9, StackReturn, ReturnEffect DEF InPipeline
    <2>2. /\ job'[d].attempt = job[d].attempt
          /\ job[d].pc = "pipe" /\ job'[d].pc \in {"pipe", "save"}
      BY <1>9, ReturnEffect, Kept
    <2>3. Due(job'[d], Chain(d)) \subseteq Due(job[d], Chain(d))
      BY <2>1 DEF Due
    <2>4. CASE Running(d) = "payment" /\ job[d].kind = "checkout"
      <3>1. Calls(d)' = Calls(d) + 1
        BY <1>0, <1>9, <2>4, CountsKeep DEF Calls
      <3>2. Top(d).at \in Payments(Chain(d)) /\ Top(d).at \in Due(job[d], Chain(d))
        BY <2>1, <2>4 DEF Due
      <3>3. Payments(Chain(d)) \subseteq Due(job[d], Chain(d))
        BY <3>2, OneLemma
      <3>4. Calls(d) < job[d].attempt /\ Calls(d) \in Nat
        BY <1>0, <2>1, <3>3 DEF PayCount, Calls
      <3>5. ~(Payments(Chain(d)) \subseteq Due(job'[d], Chain(d)))
        BY <2>1, <2>4, <3>2
      <3> QED
        BY <1>0, <2>1, <2>2, <3>1, <3>4, <3>5 DEF PayCount
    <2>5. CASE ~(Running(d) = "payment" /\ job[d].kind = "checkout")
      <3>1. Calls(d)' = Calls(d)
        BY <1>0, <1>9, <2>5, CountsKeep DEF Calls
      <3> QED
        BY <1>0, <2>1, <2>2, <2>3, <3>1 DEF PayCount
    <2> QED
      BY <2>4, <2>5
  <1>10. CASE job[d].pc = "handler" /\ ~Throw(d)
    <2>1. /\ job'[d].route = job[d].route /\ job'[d].index = job[d].index
          /\ job'[d].stack = job[d].stack /\ job'[d].passed = job[d].passed
          /\ job'[d].attempt = job[d].attempt /\ job'[d].pc \in {"pipe", "handler"}
      <3>1. CASE HandlerReturns(d)
        BY <3>1, HandlerReturnsEffect, HandlerReturnsKeeps
      <3>2. CASE Becomes(job[d], job'[d], {"path", "moves"})
        BY <1>10, <3>2, Kept
      <3> QED
        BY <1>10, <3>1, <3>2, HandlerSteps
    <2>2. Calls(d)' = Calls(d)
      BY <1>2, <1>10 DEF CallNext, Return
    <2>3. /\ Chain(d)' = Chain(d)
          /\ Due(job[d], Chain(d)) = {} /\ Due(job'[d], Chain(d)) = {}
      BY <1>0, <1>10, <2>1, StackHandler DEF InPipeline
    <2> QED
      BY <1>0, <1>10, <2>1, <2>2, <2>3 DEF PayCount, InPipeline
  <1>11. CASE Save(d)
    <2>1. ~CallNext(d) /\ ~Return(d)
      BY <1>11 DEF Save, CallNext, Return
    <2>2. CASE job'[d].pc = "load" /\ job'[d].attempt = job[d].attempt + 1
      <3>1. Calls(d) <= job[d].attempt /\ Calls(d) \in Nat
        BY <1>0 DEF PayCount, Calls
      <3>2. Calls(d)' < job'[d].attempt /\ Calls(d)' <= job'[d].attempt
        BY <1>0, <1>2, <2>1, <2>2, <3>1
      <3> QED
        BY <2>2, <3>2 DEF PayCount, InPipeline
    <2> QED
      BY <1>4, <1>11, <2>1, <2>2, SaveEffect
  <1> QED
    BY <1>3, <1>5, <1>6, <1>7, <1>8, <1>9, <1>10, <1>11 DEF DeliveryStep, Step,
       HandlerReturns, Leave, Enter, EnterHookThrows, MayMove

-------------------------------------------------------------------------------
(* The invariant and what it says.                                         *)

LEMMA RunInit ==
  ASSUME Init, NEW d \in Deliveries
  PROVE  RunInv(d) /\ PayCount(d)
  <1>1. /\ job[d].pc = "idle" /\ job[d].attempt = 1 /\ job[d].kind = "none"
        /\ fulfilled[d] = 0 /\ answered[d] = 0
    BY DEF Init, NewJob
  <1> QED
    BY <1>1 DEF RunInv, StartInv, StackInv, PayDone, PayCount, Calls, InPipeline

LEMMA RunStep ==
  ASSUME TypeOK, [Next]_vars, NEW e \in Deliveries, RunInv(e)
  PROVE  RunInv(e)' /\ (OnePayment /\ PayCount(e) => PayCount(e)')
  <1>1. CASE UNCHANGED vars
    BY <1>1, RunsKeep DEF vars, outside
  <1>2. ASSUME NEW route \in LateRoutes, Register(route)
        PROVE  RunInv(e)' /\ (PayCount(e) => PayCount(e)')
    BY <1>2, RunsKeep DEF Register, outside, KnownRoutes
  <1>3. ASSUME NEW d \in Deliveries, DeliveryStep(d)
        PROVE  RunInv(e)' /\ (OnePayment /\ PayCount(e) => PayCount(e)')
    <2>1. CASE e = d
      BY <1>3, <2>1, RunOwn, CountOwn
    <2>2. CASE e # d
      BY <1>3, <2>2, RunsKeep, Frames
    <2> QED
      BY <2>1, <2>2
  <1> QED
    BY <1>1, <1>2, <1>3, StepKinds

\* The invariant of the kernel.  None of its parts is inductive alone: the types need
\* the stack, the stack needs the state a run starts in, and the payments need both.
THEOREM Invariance == Spec => []IInv
  <1>1. Init => IInv
    BY InitType, SessionInit, RunInit DEF IInv
  <1>2. IInv /\ [Next]_vars => IInv'
    <2> SUFFICES ASSUME IInv, [Next]_vars PROVE IInv'
      OBVIOUS
    <2>1. TypeOK /\ SessionInv /\ \A d \in Deliveries : RunInv(d) /\ StackInv(d)
      BY DEF IInv, RunInv
    <2>2. TypeOK'
      BY <2>1, TypeStep
    <2>3. SessionInv'
      BY <2>1, SessionStep
    <2>4. \A d \in Deliveries : RunInv(d)'
      BY <2>1, RunStep
    <2> QED
      BY <2>2, <2>3, <2>4 DEF IInv
  <1> QED
    BY <1>1, <1>2, PTL DEF Spec

\* The scene after a part of a path.
LEMMA SceneLemma ==
  ASSUME NEW path \in Seq(AnyMove), NEW i \in DOMAIN path
  PROVE  SceneAfter(SubSeq(path, 1, i - 1)) = IF i = 1 THEN NoValue ELSE path[i - 1].to
  <1> DEFINE part == SubSeq(path, 1, i - 1)
  <1>1. /\ Len(path) \in Nat /\ i \in 1 .. Len(path)
        /\ Len(part) = i - 1 /\ \A k \in 1 .. i - 1 : part[k] = path[k]
    OBVIOUS
  <1>2. part = <<>> <=> i = 1
    <2>1. part \in Seq(AnyMove)
      BY <1>1
    <2> QED
      BY <1>1, <2>1, EmptySeq
  <1> HIDE DEF part
  <1> QED
    BY <1>1, <1>2 DEF SceneAfter, part

\* The scene changes of concurrent updates are serialized: the stored session goes
\* from scene to scene along allowed transitions without a gap, and holds the changes
\* of a saved update once, in order and unmixed, although runners are run again.
THEOREM Serialized == Spec => []ScenesSerialized
  <1>1. IInv => ScenesSerialized
    <2> SUFFICES ASSUME IInv PROVE ScenesSerialized
      OBVIOUS
    <2>1. store.path \in Seq(AnyMove) /\ Serial(store.path, Told)
      BY DEF IInv, TypeOK, SessionInv
    <2>2. ASSUME NEW i \in DOMAIN store.path
          PROVE  /\ store.path[i].from = SceneAfter(SubSeq(store.path, 1, i - 1))
                 /\ store.path[i].to # NoValue /\ store.path[i].from # NoValue
                      /\ store.path[i].from \in DOMAIN Transitions =>
                         store.path[i].to \in Transitions[store.path[i].from]
      <3>1. store.path[i].from = SceneAfter(SubSeq(store.path, 1, i - 1))
        BY <2>1, SceneLemma DEF Serial
      <3>2. store.path[i].to # NoValue /\ store.path[i].from # NoValue =>
              Allowed(store.path[i].from, store.path[i].to)
        BY <2>1 DEF Serial
      <3> QED
        BY <3>1, <3>2 DEF Allowed
    <2>3. \A d \in Deliveries : Stored(d)
      BY DEF IInv, SessionInv
    <2> QED
      BY <2>2, <2>3 DEF ScenesSerialized, Stored
  <1> QED
    BY <1>1, Invariance, PTL

\* onTransition has been told of every scene change that is stored, or a hook threw.
THEOREM Announced == Spec => []TransitionsAnnounced
  <1>1. IInv => TransitionsAnnounced
    BY DEF IInv, SessionInv, Serial, Told, TransitionsAnnounced
  <1> QED
    BY <1>1, Invariance, PTL

\* A handler runs only behind middlewares that have all called next, if none of them
\* calls it twice.
THEOREM Gated == Spec => []GatesHold
  <1>1. IInv => GatesHold
    <2> SUFFICES ASSUME IInv, NEW d \in Deliveries, job[d].pc = "handler", ~Holds(d, "twice")
                 PROVE  DOMAIN Chain(d) \subseteq job[d].passed
      BY DEF GatesHold
    <2>1. TypeOK /\ InPipeline(d) /\ StackInv(d)
      BY DEF IInv, RunInv, InPipeline
    <2>2. StackOK(job[d], Chain(d)) /\ DOMAIN Chain(d) = 1 .. Len(Chain(d))
      BY <2>1, FoundLemma
    <2> QED
      BY <2>2 DEF StackOK, Holds
  <1> QED
    BY <1>1, Invariance, PTL

\* A payment that reached its handler was fulfilled, and once for each run of the
\* runner at most, if the payment middleware is registered once.
THEOREM Fulfilled ==
  ASSUME OnePayment
  PROVE  Spec => []PaymentsFulfilled
  <1> DEFINE Counted == \A d \in Deliveries : PayCount(d)
  <1>1. Init => Counted
    BY RunInit
  <1>2. IInv /\ Counted /\ [Next]_vars => Counted'
    BY RunStep DEF IInv
  <1>3. IInv /\ Counted => PaymentsFulfilled
    <2> SUFFICES ASSUME IInv, Counted, NEW d \in Deliveries
                 PROVE  /\ fulfilled[d] + answered[d] <= job[d].attempt
                        /\ job[d].kind = "payment" /\ job[d].pc = "saved" /\ job[d].handled
                             /\ Holds(d, "payment") => fulfilled[d] >= 1
      BY DEF PaymentsFulfilled
    <2>1. fulfilled[d] \in Nat /\ PayDone(d) /\ PayCount(d)
      BY DEF IInv, TypeOK, RunInv
    <2>2. Holds(d, "payment") => Payments(Chain(d)) # {}
      BY DEF Holds, Payments
    <2> QED
      BY <2>1, <2>2 DEF PayDone, PayCount, Calls
  <1> HIDE DEF Counted
  <1> QED
    BY <1>1, <1>2, <1>3, Invariance, PTL DEF Spec

\* Every update is dispatched to the best of all the routes registered by then.
THEOREM BestDispatched == Spec => DispatchesBest
  <1>1. IInv /\ [Next]_vars =>
          [\A d \in Deliveries :
             job[d].pc = "dispatch" /\ job'[d].pc = "pipe" =>
               BestMatch(routes, Meta(d)) = {job'[d].route}]_job
    <2> SUFFICES ASSUME IInv, [Next]_vars, NEW e \in Deliveries,
                        job[e].pc = "dispatch", job'[e].pc = "pipe"
                 PROVE  BestMatch(routes, Meta(e)) = {job'[e].route}
      OBVIOUS
    <2>1. TypeOK /\ job'[e] # job[e]
      BY DEF IInv
    <2>2. PICK d \in Deliveries : DeliveryStep(d)
      BY <2>1, StepKinds DEF vars, Register
    <2>3. e = d
      BY <2>1, <2>2, Frames
    <2>4. CASE Dispatch(e)
      BY <2>1, <2>4, DispatchEffect
    <2>5. CASE Throw(e)
      BY <2>5 DEF Throw
    <2> QED
      BY <2>2, <2>3, <2>4, <2>5 DEF DeliveryStep, Step, Receive, Load, CallNext, Return,
         HandlerReturns, Save, Leave, Enter, EnterHookThrows, MayMove
  <1> QED
    BY <1>1, Invariance, PTL DEF Spec, DispatchesBest

===============================================================================
