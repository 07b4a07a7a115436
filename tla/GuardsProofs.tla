----------------------------- MODULE GuardsProofs -----------------------------
(***************************************************************************)
(* What keeps load away from a bot, and a bot from Telegram, for any number *)
(* of callers, slots, queue places, retries, failures and probes, any      *)
(* capacity, refill rate, cooldown and disagreement of clocks: what the    *)
(* concurrency queue guarantees on its own, that it keeps it behind a      *)
(* limiter, that the limiters give away no more than they may, and what    *)
(* the circuit breaker guarantees to the API calls that share it.          *)
(***************************************************************************)
EXTENDS Guards, ApiClient, FiniteSetTheorems, TLAPS

-------------------------------------------------------------------------------
(* The concurrency queue.                                                  *)

\* The callers with and without a slot are finite sets, of a size in Nat.
LEMMA CallersFinite ==
  /\ IsFiniteSet(Holders) /\ Cardinality(Holders) \in Nat
  /\ IsFiniteSet(Waiting) /\ Cardinality(Waiting) \in Nat
  <1>1. Holders \subseteq Clients /\ Waiting \subseteq Clients
    BY DEF Holders, Waiting
  <1>2. IsFiniteSet(Holders) /\ IsFiniteSet(Waiting)
    BY <1>1, FS_Subset, BoundedConcurrencyAssumption
  <1> QED
    BY <1>2, FS_CardinalityType

\* Removing the head of a queue without repetitions removes exactly that caller.
LEMMA HeadRemoved ==
  ASSUME NEW S, NEW w \in Seq(S), w # <<>>,
         \A i, j \in 1 .. Len(w) : w[i] = w[j] => i = j
  PROVE  /\ Tail(w) \in Seq(S)
         /\ Len(Tail(w)) = Len(w) - 1
         /\ Head(w) = w[1]
         /\ 1 \in 1 .. Len(w)
         /\ \A i, j \in 1 .. Len(Tail(w)) : Tail(w)[i] = Tail(w)[j] => i = j
         /\ {Tail(w)[i] : i \in 1 .. Len(Tail(w))}
              = {w[i] : i \in 1 .. Len(w)} \ {w[1]}
  <1>1. Len(w) \in Nat /\ Len(w) > 0
    OBVIOUS
  <1>2. Len(Tail(w)) = Len(w) - 1 /\ Tail(w) \in Seq(S) /\ Head(w) = w[1]
    OBVIOUS
  <1>3. \A i \in 1 .. Len(Tail(w)) : Tail(w)[i] = w[i + 1] /\ i + 1 \in 1 .. Len(w)
    BY <1>1, <1>2
  <1>4. \A i, j \in 1 .. Len(Tail(w)) : Tail(w)[i] = Tail(w)[j] => i = j
    BY <1>1, <1>2, <1>3
  <1>5. 1 \in 1 .. Len(w)
    BY <1>1
  <1>6. ASSUME NEW i \in 1 .. Len(Tail(w))
        PROVE  Tail(w)[i] \in {w[k] : k \in 1 .. Len(w)} \ {w[1]}
    BY <1>1, <1>2, <1>3, <1>5
  <1>7. ASSUME NEW k \in 1 .. Len(w), w[k] # w[1]
        PROVE  w[k] \in {Tail(w)[i] : i \in 1 .. Len(Tail(w))}
    <2>1. k # 1 /\ k - 1 \in 1 .. Len(Tail(w))
      BY <1>1, <1>2, <1>7
    <2>2. Tail(w)[k - 1] = w[k]
      BY <2>1, <1>3
    <2> QED
      BY <2>1, <2>2
  <1> QED
    BY <1>2, <1>4, <1>5, <1>6, <1>7

\* Joining the end of a queue one is not in.
LEMMA TailJoined ==
  ASSUME NEW S, NEW w \in Seq(S), NEW c \in S,
         \A i, j \in 1 .. Len(w) : w[i] = w[j] => i = j,
         \A i \in 1 .. Len(w) : w[i] # c
  PROVE  /\ Append(w, c) \in Seq(S)
         /\ Len(Append(w, c)) = Len(w) + 1
         /\ \A i, j \in 1 .. Len(Append(w, c)) :
              Append(w, c)[i] = Append(w, c)[j] => i = j
         /\ {Append(w, c)[i] : i \in 1 .. Len(Append(w, c))}
              = {w[i] : i \in 1 .. Len(w)} \cup {c}
  <1>1. Append(w, c) \in Seq(S) /\ Len(Append(w, c)) = Len(w) + 1 /\ Len(w) \in Nat
    OBVIOUS
  <1>2. \A i \in 1 .. Len(w) : Append(w, c)[i] = w[i]
    OBVIOUS
  <1>3. Append(w, c)[Len(w) + 1] = c
    OBVIOUS
  <1>4. \A i \in 1 .. Len(w) + 1 : i \in 1 .. Len(w) \/ i = Len(w) + 1
    BY <1>1
  <1>5. 1 .. Len(w) \subseteq 1 .. Len(w) + 1 /\ Len(w) + 1 \in 1 .. Len(w) + 1
    BY <1>1
  <1> QED
    BY <1>1, <1>2, <1>3, <1>4, <1>5

\* The inductive invariant holds: the counter, the queue and the callers agree.
THEOREM Invariance == Spec => []IInv
  <1> USE BoundedConcurrencyAssumption
  <1>1. Init => IInv
    <2> SUFFICES ASSUME Init PROVE IInv
      OBVIOUS
    <2>1. Holders = {} /\ Waiting = {} /\ Len(waiters) = 0
      BY DEF Init, Holders, Waiting
    <2>2. Cardinality({}) = 0
      BY FS_EmptySet
    <2>3. TypeOK
      BY DEF Init, TypeOK
    <2>4. waiters = <<>> /\ running = 0
      BY DEF Init
    <2> QED
      BY <2>1, <2>2, <2>3, <2>4
      DEF IInv, SlotsAccounted, WaitersQueued, NobodyWaitsInVain, QueuedOnce
  <1>2. IInv /\ [Next]_vars => IInv'
    <2> SUFFICES ASSUME IInv, [Next]_vars PROVE IInv'
      OBVIOUS
    <2> USE DEF IInv
    <2>t. /\ running \in Nat /\ waiters \in Seq(Clients)
          /\ pc \in [Clients -> {"idle", "admitted", "working", "waiting", "refused"}]
          /\ MaxConcurrency \in Nat /\ MaxQueue \in Nat
      BY DEF TypeOK
    <2>1. CASE UNCHANGED vars
      <3>1. running' = running /\ waiters' = waiters /\ pc' = pc
        BY <2>1 DEF vars
      <3>2. Holders' = Holders /\ Waiting' = Waiting
        BY <3>1 DEF Holders, Waiting
      <3>3. TypeOK' /\ SlotsAccounted' /\ NobodyWaitsInVain' /\ QueuedOnce'
        BY <3>1, <3>2 DEF TypeOK, SlotsAccounted, NobodyWaitsInVain, QueuedOnce
      <3>4. WaitersQueued'
        BY <3>1, <3>2 DEF WaitersQueued
      <3> QED
        BY <3>3, <3>4
    <2>2. ASSUME NEW c \in Clients, Admit(c) PROVE IInv'
      <3>1. Holders' = Holders \cup {c} /\ c \notin Holders /\ Waiting' = Waiting
        BY <2>2, <2>t DEF Admit, Holders, Waiting
      <3>2. Cardinality(Holders') = Cardinality(Holders) + 1
        BY <3>1, CallersFinite, FS_AddElement
      <3>3. TypeOK'
        BY <2>2, <2>t DEF Admit, TypeOK
      <3>4. SlotsAccounted'
        BY <2>2, <2>t, <3>2 DEF Admit, SlotsAccounted
      <3>5. WaitersQueued' /\ QueuedOnce'
        BY <2>2, <3>1 DEF Admit, WaitersQueued, QueuedOnce
      <3>6. NobodyWaitsInVain'
        BY <2>2, <2>t DEF Admit, NobodyWaitsInVain
      <3> QED
        BY <3>3, <3>4, <3>5, <3>6
    <2>3. ASSUME NEW c \in Clients, Enqueue(c) PROVE IInv'
      <3>1. Holders' = Holders /\ Waiting' = Waiting \cup {c} /\ c \notin Waiting
        BY <2>3, <2>t DEF Enqueue, Holders, Waiting
      <3>2. Cardinality(Waiting') = Cardinality(Waiting) + 1
        BY <3>1, CallersFinite, FS_AddElement
      <3>3. \A i \in 1 .. Len(waiters) : waiters[i] # c
        BY <3>1 DEF WaitersQueued
      <3>4. /\ Append(waiters, c) \in Seq(Clients)
            /\ Len(Append(waiters, c)) = Len(waiters) + 1
            /\ \A i, j \in 1 .. Len(Append(waiters, c)) :
                 Append(waiters, c)[i] = Append(waiters, c)[j] => i = j
            /\ {Append(waiters, c)[i] : i \in 1 .. Len(Append(waiters, c))}
                 = {waiters[i] : i \in 1 .. Len(waiters)} \cup {c}
        BY <2>t, <3>3, TailJoined DEF QueuedOnce
      <3>5. waiters' = Append(waiters, c) /\ running' = running
        BY <2>3 DEF Enqueue
      <3>6. TypeOK'
        BY <2>3, <2>t, <3>4 DEF Enqueue, TypeOK
      <3>7. SlotsAccounted'
        BY <3>1, <3>5 DEF SlotsAccounted
      <3>8. QueuedOnce'
        BY <3>4, <3>5 DEF QueuedOnce
      <3>9. WaitersQueued'
        <4>1. Len(waiters') <= MaxQueue
          BY <2>3, <2>t, <3>4 DEF Enqueue, QueuePlace
        <4> QED
          BY <4>1, <3>1, <3>2, <3>4, <3>5 DEF WaitersQueued
      <3>10. NobodyWaitsInVain'
        BY <2>3, <2>t DEF Enqueue, NobodyWaitsInVain, SlotsAccounted
      <3> QED
        BY <3>6, <3>7, <3>8, <3>9, <3>10
    <2>4. ASSUME NEW c \in Clients, Refuse(c) \/ Recover(c) PROVE IInv'
      <3>1. Holders' = Holders /\ Waiting' = Waiting /\ running' = running /\ waiters' = waiters
        BY <2>4, <2>t DEF Refuse, Recover, Holders, Waiting
      <3>2. TypeOK'
        BY <2>4, <2>t DEF Refuse, Recover, TypeOK
      <3> QED
        BY <3>1, <3>2 DEF SlotsAccounted, WaitersQueued, NobodyWaitsInVain, QueuedOnce
    <2>5. ASSUME NEW c \in Clients, Start(c) PROVE IInv'
      <3>1. Holders' = Holders /\ Waiting' = Waiting /\ running' = running /\ waiters' = waiters
        BY <2>5, <2>t DEF Start, Holders, Waiting
      <3>2. TypeOK'
        BY <2>5, <2>t DEF Start, TypeOK
      <3> QED
        BY <3>1, <3>2 DEF SlotsAccounted, WaitersQueued, NobodyWaitsInVain, QueuedOnce
    <2>6. ASSUME NEW c \in Clients, Finish(c) PROVE IInv'
      <3>0. c \in Holders /\ pc[c] = "working"
        BY <2>6 DEF Finish, Holders
      <3>1. running # 0 /\ Freed = running - 1
        <4>1. Cardinality(Holders) # 0
          BY <3>0, CallersFinite, FS_EmptySet
        <4> QED
          BY <4>1, <2>t DEF SlotsAccounted, Freed
      <3>2. CASE waiters = <<>>
        <4>0. running' = running - 1 /\ waiters' = waiters /\ pc' = [pc EXCEPT ![c] = "idle"]
          BY <2>6, <3>1, <3>2 DEF Finish
        <4>1. Holders' = Holders \ {c} /\ Waiting' = Waiting
          BY <4>0, <3>0, <2>t DEF Holders, Waiting
        <4>2. Cardinality(Holders') = Cardinality(Holders) - 1
          BY <4>1, <3>0, CallersFinite, FS_RemoveElement
        <4>3. TypeOK'
          BY <4>0, <3>1, <2>t DEF TypeOK
        <4>4. SlotsAccounted'
          BY <4>0, <4>2, <2>t DEF SlotsAccounted
        <4>5. WaitersQueued'
          BY <4>0, <4>1 DEF WaitersQueued
        <4>6. QueuedOnce'
          BY <4>0 DEF QueuedOnce
        <4>7. NobodyWaitsInVain'
          BY <4>0, <3>2 DEF NobodyWaitsInVain
        <4> QED
          BY <4>3, <4>4, <4>5, <4>6, <4>7
      <3>3. CASE waiters # <<>>
        <4> DEFINE h == waiters[1]
        <4>1. /\ Tail(waiters) \in Seq(Clients)
              /\ Len(Tail(waiters)) = Len(waiters) - 1
              /\ Head(waiters) = h
              /\ 1 \in 1 .. Len(waiters)
              /\ \A i, j \in 1 .. Len(Tail(waiters)) :
                   Tail(waiters)[i] = Tail(waiters)[j] => i = j
              /\ {Tail(waiters)[i] : i \in 1 .. Len(Tail(waiters))}
                   = {waiters[i] : i \in 1 .. Len(waiters)} \ {h}
          BY <2>t, <3>3, HeadRemoved DEF QueuedOnce
        <4>2. h \in Waiting
          BY <4>1 DEF WaitersQueued
        <4> HIDE DEF h
        <4>3. h \in Clients /\ pc[h] = "waiting" /\ h # c /\ h \notin Holders
          BY <4>2, <3>0 DEF Waiting, Holders
        <4>4. /\ running' = running
              /\ waiters' = Tail(waiters)
              /\ pc' = [pc EXCEPT ![c] = "idle", ![h] = "admitted"]
          BY <2>6, <2>t, <3>1, <3>3, <4>1 DEF Finish
        <4>5. Holders' = (Holders \ {c}) \cup {h} /\ Waiting' = Waiting \ {h}
          BY <4>3, <4>4, <3>0, <2>t DEF Holders, Waiting
        <4>6. /\ IsFiniteSet(Holders \ {c})
              /\ Cardinality(Holders \ {c}) = Cardinality(Holders) - 1
          BY <3>0, CallersFinite, FS_RemoveElement
        <4>7. Cardinality(Holders') = Cardinality(Holders \ {c}) + 1
          BY <4>3, <4>5, <4>6, FS_AddElement
        <4>8. Cardinality(Waiting') = Cardinality(Waiting) - 1
          BY <4>2, <4>5, CallersFinite, FS_RemoveElement
        <4>9. TypeOK'
          BY <4>1, <4>3, <4>4, <2>t DEF TypeOK
        <4>10. SlotsAccounted'
          BY <4>4, <4>6, <4>7, CallersFinite DEF SlotsAccounted
        <4>11. WaitersQueued'
          <5>1. Len(waiters') = Cardinality(Waiting')
            BY <4>1, <4>4, <4>8 DEF WaitersQueued
          <5>2. Len(waiters') <= MaxQueue
            <6>1. Len(waiters) \in Nat
              BY <2>t
            <6>2. Len(waiters) <= MaxQueue
              BY Zenon DEF WaitersQueued
            <6>3. Len(waiters') = Len(waiters) - 1
              BY <4>1, <4>4
            <6> QED
              BY <6>1, <6>2, <6>3, <2>t
          <5>3. Waiting' = {waiters'[i] : i \in 1 .. Len(waiters')}
            BY <4>1, <4>4, <4>5 DEF WaitersQueued
          <5> QED
            BY <5>1, <5>2, <5>3 DEF WaitersQueued
        <4>12. QueuedOnce'
          BY <4>1, <4>4 DEF QueuedOnce
        <4>13. NobodyWaitsInVain'
          BY <3>3, <4>4 DEF NobodyWaitsInVain
        <4> QED
          BY <4>9, <4>10, <4>11, <4>12, <4>13
      <3> QED
        BY <3>2, <3>3
    <2> QED
      BY <2>1, <2>2, <2>3, <2>4, <2>5, <2>6 DEF Next
  <1> QED
    BY <1>1, <1>2, PTL DEF Spec

\* The counter is exact and bounded for any number of callers.
THEOREM SlotBound == Spec => []SlotsAccounted
  BY Invariance, PTL DEF IInv

\* No wake-up is ever lost.
THEOREM NoLostWakeUp == Spec => []NobodyWaitsInVain
  BY Invariance, PTL DEF IInv

\* A newcomer never overtakes a waiting caller.
THEOREM FirstComeFirstServed == Spec => NoBarging
  <1>1. IInv /\ [Next]_vars =>
          [\A c \in Clients :
             pc[c] = "idle" /\ pc'[c] = "admitted" => Waiting = {}]_vars
    <2> SUFFICES ASSUME IInv, Next, NEW c \in Clients,
                        pc[c] = "idle", pc'[c] = "admitted"
                 PROVE  Waiting = {}
      BY DEF vars
    <2>t. /\ running \in Nat /\ waiters \in Seq(Clients) /\ MaxConcurrency \in Nat
          /\ pc \in [Clients -> {"idle", "admitted", "working", "waiting", "refused"}]
          /\ NobodyWaitsInVain /\ WaitersQueued
      BY BoundedConcurrencyAssumption DEF IInv, TypeOK
    <2>1. ASSUME NEW d \in Clients, Finish(d) PROVE Waiting = {}
      <3>1. CASE waiters = <<>>
        BY <3>1, <2>t DEF WaitersQueued
      <3>2. CASE waiters # <<>>
        <4>1. Head(waiters) = waiters[1] /\ 1 \in 1 .. Len(waiters)
          BY <3>2, <2>t
        <4>2. pc[Head(waiters)] = "waiting"
          BY <4>1, <2>t DEF WaitersQueued, Waiting
        <4> QED
          BY <2>1, <3>2, <4>2, <2>t DEF Finish
      <3> QED
        BY <3>1, <3>2
    <2>2. ASSUME NEW d \in Clients, Admit(d) PROVE Waiting = {}
      <3>1. waiters = <<>>
        BY <2>2, <2>t DEF Admit, NobodyWaitsInVain
      <3> QED
        BY <3>1, <2>t DEF WaitersQueued
    <2>3. ASSUME NEW d \in Clients, Enqueue(d) \/ Refuse(d) \/ Recover(d) \/ Start(d)
          PROVE  FALSE
      BY <2>3, <2>t DEF Enqueue, Refuse, Recover, Start
    <2> QED
      BY <2>1, <2>2, <2>3 DEF Next
  <1> QED
    BY <1>1, Invariance, PTL DEF Spec, NoBarging

\* A refusal means that every slot and every queue place is taken.
THEOREM RefusalsAreHonest == Spec => RefusedOnlyWhenFull
  <1>1. IInv /\ [Next]_vars =>
          [\A c \in Clients :
             pc[c] = "idle" /\ pc'[c] = "refused" =>
               Cardinality(Holders \cup Waiting) = MaxConcurrency + MaxQueue]_vars
    <2> SUFFICES ASSUME IInv, Next, NEW c \in Clients,
                        pc[c] = "idle", pc'[c] = "refused"
                 PROVE  Cardinality(Holders \cup Waiting) = MaxConcurrency + MaxQueue
      BY DEF vars
    <2>t. /\ running \in Nat /\ waiters \in Seq(Clients)
          /\ MaxConcurrency \in Nat /\ MaxQueue \in Nat
          /\ pc \in [Clients -> {"idle", "admitted", "working", "waiting", "refused"}]
          /\ SlotsAccounted /\ WaitersQueued
      BY BoundedConcurrencyAssumption DEF IInv, TypeOK
    <2>1. Refuse(c)
      BY <2>t DEF Next, Admit, Enqueue, Refuse, Recover, Start, Finish
    <2>2. Cardinality(Holders) = MaxConcurrency /\ Cardinality(Waiting) = MaxQueue
      <3>1. running >= MaxConcurrency /\ running <= MaxConcurrency /\ running = Cardinality(Holders)
        BY <2>1, <2>t DEF Refuse, SlotsAccounted
      <3>2. Len(waiters) <= MaxQueue /\ Len(waiters) = Cardinality(Waiting)
        BY <2>t, Zenon DEF WaitersQueued
      <3>4. ~(Len(waiters) < MaxQueue)
        BY <2>1 DEF Refuse, QueuePlace
      <3>3. Len(waiters) \in Nat
        BY <2>t
      <3> QED
        BY <3>1, <3>2, <3>3, <3>4, <2>t
    <2>3. Holders \cap Waiting = {}
      BY DEF Holders, Waiting
    <2>4. Cardinality(Holders \cup Waiting) =
            Cardinality(Holders) + Cardinality(Waiting) - Cardinality({})
      BY <2>3, CallersFinite, FS_Union
    <2> QED
      BY <2>2, <2>4, <2>t, FS_EmptySet
  <1> QED
    BY <1>1, Invariance, PTL DEF Spec, RefusedOnlyWhenFull

-------------------------------------------------------------------------------
(* The queue behind a limiter.                                             *)


\* The limiter in front of the queue and the clock add no behaviour to the queue.
LEMMA GuardsRefineQueue == GuardsSpec => Spec
  <1>1. GuardsInit => Init
    BY DEF GuardsInit
  <1>2. [GuardsNext]_guardVars => [Next]_vars
    <2> SUFFICES ASSUME [GuardsNext]_guardVars PROVE [Next]_vars
      OBVIOUS
    <2>1. CASE UNCHANGED guardVars
      BY <2>1 DEF guardVars
    <2>2. ASSUME NEW c \in Clients, Arrive(c) \/ Work(c) PROVE Next
      BY <2>2 DEF Arrive, Work, Next
    <2>3. ASSUME NEW c \in Clients, Drop(c) \/ Ask(c) PROVE UNCHANGED vars
      BY <2>3 DEF Drop, Ask
    <2>4. CASE AskElsewhere \/ GetInfo \/ Reset \/ Tick
      BY <2>4 DEF AskElsewhere, GetInfo, Reset, Tick
    <2> QED
      BY <2>1, <2>2, <2>3, <2>4 DEF GuardsNext
  <1> QED
    BY <1>1, <1>2, PTL DEF GuardsSpec, Spec

\* No wake-up is lost behind the limiter: nobody waits in the queue while a slot is
\* free, whatever the limiter drops and whenever the clock jumps.
THEOREM NoLostWakeUpBehindLimiter == GuardsSpec => []NobodyWaitsInVain
  BY GuardsRefineQueue, NoLostWakeUp, PTL

\* An update that got a token is refused by the queue only when the queue is full.
THEOREM RefusalsBehindLimiter == GuardsSpec => RefusedOnlyWhenFull
  BY GuardsRefineQueue, RefusalsAreHonest, PTL

-------------------------------------------------------------------------------
(* The token bucket.                                                       *)

\* What the bucket gave away since `since' and still has, seen at the time of its
\* last refill, is a full bucket and the time that has passed.  The time of the
\* first call may be Skew earlier than `since', and a later one may take tokens away,
\* but no more than the real clock gives back.
BucketInv ==
  \/ bucket = <<>> /\ spent = 0
  \/ \E tokens, last \in Int :
       /\ bucket = <<tokens, last>>
       /\ tokens <= Capacity /\ last <= now /\ tokens + (now - last) >= 0
       /\ \/ spent = 0
          \/ now >= since /\ spent + tokens - last <= Capacity + Skew - since

ClockInv == now \in Nat /\ since \in Nat /\ spent \in Nat

\* The bucket after a refill.
LEMMA RefillLemma ==
  ASSUME NEW at \in Int, bucket = <<>> \/ \E tokens, last \in Int : bucket = <<tokens, last>>
  PROVE  /\ Refilled(at) \in Int /\ Refilled(at) <= Capacity
         /\ bucket = <<>> => Refilled(at) = Capacity
         /\ \A tokens, last \in Int :
              bucket = <<tokens, last>> =>
                /\ Refilled(at) <= tokens + (at - last)
                /\ Refilled(at) = Capacity \/ Refilled(at) = tokens + (at - last)
  <1>0. Capacity \in Nat
    BY GuardsAssumption
  <1>1. CASE bucket = <<>>
    <2>1. \A tokens, last \in Int : bucket # <<tokens, last>>
      BY <1>1
    <2> QED
      BY <1>0, <1>1, <2>1 DEF Refilled
  <1>2. ASSUME NEW tokens \in Int, NEW last \in Int, bucket = <<tokens, last>>
        PROVE  /\ Refilled(at) \in Int /\ Refilled(at) <= Capacity
               /\ Refilled(at) <= tokens + (at - last)
               /\ Refilled(at) = Capacity \/ Refilled(at) = tokens + (at - last)
    <2>1. bucket # <<>> /\ bucket[1] = tokens /\ bucket[2] = last
      BY <1>2
    <2>2. Refilled(at) = IF tokens + (at - last) < Capacity THEN tokens + (at - last)
                         ELSE Capacity
      BY <2>1 DEF Refilled
    <2> QED
      BY <1>0, <2>2
  <1> QED
    BY <1>1, <1>2

\* A call that refills the bucket at time `at' and takes `cost' of it.
LEMMA CallLemma ==
  ASSUME ClockInv, BucketInv, NEW at \in ReadClock, NEW cost \in Nat,
         bucket' = <<Refilled(at) - cost, at>>,
         now' = now, since' = since,
         cost > 0 => Refilled(at) >= cost,
         spent' = IF now >= since THEN spent + cost ELSE spent
  PROVE  ClockInv' /\ BucketInv'
  <1>0. /\ Skew \in Nat /\ Capacity \in Nat /\ now \in Nat /\ since \in Nat /\ spent \in Nat
        /\ at \in Int /\ at <= now /\ at >= now - Skew
    BY GuardsAssumption DEF ClockInv, ReadClock
  <1>1. ClockInv'
    BY <1>0 DEF ClockInv
  <1>2. /\ Refilled(at) \in Int /\ Refilled(at) <= Capacity
        /\ bucket = <<>> => Refilled(at) = Capacity
        /\ \A tokens, last \in Int :
             bucket = <<tokens, last>> =>
               /\ Refilled(at) <= tokens + (at - last)
               /\ Refilled(at) = Capacity \/ Refilled(at) = tokens + (at - last)
    BY <1>0, RefillLemma DEF BucketInv
  <1> DEFINE r == Refilled(at)
  <1>3. r - cost \in Int /\ r - cost <= Capacity
    BY <1>0, <1>2
  <1>4. (r - cost) + (now - at) >= 0
    <2>1. CASE cost > 0
      BY <1>0, <1>2, <2>1
    <2>2. CASE cost = 0
      <3>1. CASE r = Capacity
        BY <1>0, <2>2, <3>1
      <3>2. CASE r # Capacity
        <4>1. PICK tokens, last \in Int :
                bucket = <<tokens, last>> /\ tokens + (now - last) >= 0
          BY <1>2, <3>2 DEF BucketInv
        <4>2. r = tokens + (at - last)
          BY <1>2, <3>2, <4>1
        <4> QED
          BY <1>0, <2>2, <4>1, <4>2
      <3> QED
        BY <3>1, <3>2
    <2> QED
      BY <1>0, <2>1, <2>2
  <1>5. (spent' = 0 \/ (now >= since /\ spent' + (r - cost) - at <= Capacity + Skew - since))
    <2>1. CASE spent = 0
      <3>1. CASE now >= since
        <4>1. spent' = cost
          BY <1>0, <2>1, <3>1
        <4>2. at >= since - Skew
          BY <1>0, <3>1
        <4>3. spent' + (r - cost) - at = r - at
          BY <1>0, <1>2, <4>1
        <4>4. r - at <= Capacity + Skew - since
          BY <1>0, <1>2, <4>2
        <4> QED
          BY <3>1, <4>3, <4>4
      <3>2. CASE ~(now >= since)
        <4>1. spent' = spent
          BY <3>2
        <4> QED
          BY <2>1, <4>1
      <3> QED
        BY <3>1, <3>2
    <2>2. CASE spent # 0
      <3>1. PICK tokens, last \in Int :
              /\ bucket = <<tokens, last>>
              /\ now >= since /\ spent + tokens - last <= Capacity + Skew - since
        BY <2>2 DEF BucketInv
      <3>2. r <= tokens + (at - last)
        BY <1>2, <3>1
      <3>3. spent' = spent + cost
        BY <3>1
      <3> QED
        BY <1>0, <1>2, <3>1, <3>2, <3>3
    <2> QED
      BY <2>1, <2>2
  <1> HIDE DEF r
  <1>6. bucket' = <<r - cost, at>>
    BY DEF r
  <1> QED
    BY <1>0, <1>1, <1>3, <1>4, <1>5, <1>6 DEF BucketInv

LEMMA BucketStep ==
  ASSUME ClockInv, BucketInv, [GuardsNext]_guardVars PROVE ClockInv' /\ BucketInv'
  <1>1. CASE UNCHANGED <<now, bucket, since, spent>>
    BY <1>1 DEF ClockInv, BucketInv
  <1>2. ASSUME NEW c \in Clients, Arrive(c) PROVE ClockInv' /\ BucketInv'
    <2>1. now' = now /\ \E at \in ReadClock : PassLimiter(at)
      BY <1>2 DEF Arrive
    <2>2. PICK at \in ReadClock : PassLimiter(at)
      BY <2>1
    <2>3. CASE kind = "bucket"
      <3>1. /\ Refilled(at) >= Cost /\ bucket' = <<Refilled(at) - Cost, at>>
            /\ spent' = (IF now >= since THEN spent + Cost ELSE spent) /\ since' = since
        BY <2>2, <2>3 DEF PassLimiter
      <3>2. Cost \in Nat
        BY GuardsAssumption
      <3> QED
        BY <2>1, <3>1, <3>2, CallLemma
    <2>4. CASE kind # "bucket"
      BY <1>1, <2>1, <2>2, <2>4 DEF PassLimiter, limits
    <2> QED
      BY <2>3, <2>4
  <1>3. ASSUME NEW c \in Clients, Drop(c) PROVE ClockInv' /\ BucketInv'
    <2>1. PICK at \in ReadClock : bucket' = <<Refilled(at), at>>
      BY <1>3 DEF Drop
    <2>2. now' = now /\ since' = since /\ spent' = spent /\ spent \in Nat
      BY <1>3 DEF Drop, ClockInv
    <2>3. Refilled(at) \in Int /\ at \in Int
      <3>1. at \in Int
        BY GuardsAssumption DEF ReadClock, ClockInv
      <3> QED
        BY <3>1, RefillLemma DEF BucketInv
    <2>4. bucket' = <<Refilled(at) - 0, at>>
      BY <2>1, <2>3
    <2>5. spent' = IF now >= since THEN spent + 0 ELSE spent
      BY <2>2
    <2>6. 0 \in Nat /\ (0 > 0 => Refilled(at) >= 0)
      OBVIOUS
    <2> QED
      BY <2>2, <2>4, <2>5, <2>6, CallLemma
  <1>4. CASE Tick
    <2>1. now' = now + 1 /\ UNCHANGED <<bucket, since, spent>>
      BY <1>4 DEF Tick
    <2>2. ClockInv'
      BY <2>1 DEF ClockInv
    <2>3. CASE bucket = <<>> /\ spent = 0
      BY <2>1, <2>2, <2>3 DEF BucketInv
    <2>4. CASE \E tokens, last \in Int :
                 /\ bucket = <<tokens, last>>
                 /\ tokens <= Capacity /\ last <= now /\ tokens + (now - last) >= 0
                 /\ \/ spent = 0
                    \/ now >= since /\ spent + tokens - last <= Capacity + Skew - since
      <3>1. PICK tokens, last \in Int :
              /\ bucket = <<tokens, last>>
              /\ tokens <= Capacity /\ last <= now /\ tokens + (now - last) >= 0
              /\ \/ spent = 0
                 \/ now >= since /\ spent + tokens - last <= Capacity + Skew - since
        BY <2>4
      <3>2. /\ last <= now' /\ tokens + (now' - last) >= 0
            /\ \/ spent' = 0
               \/ now' >= since' /\ spent' + tokens - last <= Capacity + Skew - since'
        BY <2>1, <3>1 DEF ClockInv
      <3> QED
        BY <2>1, <2>2, <3>1, <3>2 DEF BucketInv
    <2> QED
      BY <2>2, <2>3, <2>4 DEF BucketInv
  <1>5. ASSUME NEW c \in Clients, Work(c) \/ Ask(c) PROVE UNCHANGED <<now, bucket, since, spent>>
    BY <1>5 DEF Work, Ask, limits, Check, CheckBlocked, CheckAllowed, CheckRefused
  <1>6. CASE AskElsewhere \/ GetInfo \/ Reset \/ UNCHANGED guardVars
    BY <1>1, <1>6 DEF AskElsewhere, GetInfo, Reset, guardVars, limits, Check, CheckBlocked,
       CheckAllowed, CheckRefused
  <1> QED
    BY <1>1, <1>2, <1>3, <1>4, <1>5, <1>6 DEF GuardsNext

\* However the clock of the process jumps about within Skew, from any moment on the
\* bucket gives away no more than a full bucket and what time has refilled.
THEOREM BucketBound == GuardsSpec => []BucketBounded
  <1>1. GuardsInit => ClockInv /\ BucketInv
    BY GuardsAssumption DEF GuardsInit, ClockInv, BucketInv
  <1>2. ClockInv /\ BucketInv => BucketBounded
    <2> SUFFICES ASSUME ClockInv, BucketInv, now >= since
                 PROVE  spent <= Capacity + (now - since) + Skew
      BY DEF BucketBounded
    <2>0. now \in Nat /\ since \in Nat /\ spent \in Nat /\ Capacity \in Nat /\ Skew \in Nat
      BY GuardsAssumption DEF ClockInv
    <2>1. CASE spent = 0
      BY <2>0, <2>1
    <2>2. CASE spent # 0
      <3>1. PICK tokens, last \in Int :
              /\ tokens + (now - last) >= 0
              /\ spent + tokens - last <= Capacity + Skew - since
        BY <2>2 DEF BucketInv
      <3> QED
        BY <2>0, <3>1
    <2> QED
      BY <2>1, <2>2
  <1>3. ClockInv /\ BucketInv /\ [GuardsNext]_guardVars => (ClockInv /\ BucketInv)'
    BY BucketStep
  <1> QED
    BY <1>1, <1>2, <1>3, PTL DEF GuardsSpec

-------------------------------------------------------------------------------
(* The window.                                                             *)

Since(entries, score) == {entry \in entries : entry[1] >= score}

EntriesOK(entries) ==
  /\ IsFiniteSet(entries)
  /\ \A entry \in entries :
       entry[1] \in Int /\ entry[2] \in Int /\ entry[2] < Numbered(entries, entry[1])

\* The callers that were let in a short while ago still have their entries, which no
\* clock that is at most Skew behind prunes and no expiry drops; an entry is worth
\* one caller, so that Limit bounds them.
WindowInv ==
  /\ now \in Nat /\ EntriesOK(scores)
  /\ expires \in Int /\ granted \in Seq(Int)
  /\ \A i \in 1 .. Len(granted) :
       /\ granted[i] <= now /\ granted[i] + Window <= expires
       /\ now - granted[i] < Window - Skew =>
            Cardinality(Since(scores, granted[i] - Skew)) >= Len(granted) - i + 1
  /\ WindowBounded

LEMMA CountLemma ==
  ASSUME NEW entries, IsFiniteSet(entries), NEW score
  PROVE  /\ IsFiniteSet(Since(entries, score))
         /\ Cardinality(Since(entries, score)) \in Nat /\ Cardinality(entries) \in Nat
         /\ Cardinality(Since(entries, score)) <= Cardinality(entries)
         /\ Numbered(entries, score) \in Nat
         /\ IsFiniteSet({entry \in entries : entry[1] = score})
  <1>1. /\ Since(entries, score) \subseteq entries
        /\ {entry \in entries : entry[1] = score} \subseteq entries
    BY DEF Since
  <1> QED
    BY <1>1, FS_Subset, FS_CardinalityType DEF Numbered

\* Pruning removes all the entries of a score or none, and none that is young.
LEMMA PruneLemma ==
  ASSUME EntriesOK(scores), NEW at \in Int
  PROVE  /\ EntriesOK(Pruned(at))
         /\ \A score \in Int :
              score > at - Window => Since(Pruned(at), score) = Since(scores, score)
  <1>0. Window \in Nat
    BY GuardsAssumption
  <1>1. IsFiniteSet(Pruned(at))
    <2>1. Pruned(at) \subseteq scores
      BY DEF Pruned
    <2> QED
      BY <2>1, FS_Subset DEF EntriesOK
  <1>2. ASSUME NEW entry \in Pruned(at)
        PROVE  /\ entry[1] \in Int /\ entry[2] \in Int
               /\ entry[2] < Numbered(Pruned(at), entry[1])
    <2>1. entry \in scores /\ entry[1] > at - Window
      BY DEF Pruned
    <2>2. {e \in Pruned(at) : e[1] = entry[1]} = {e \in scores : e[1] = entry[1]}
      BY <2>1 DEF Pruned
    <2> QED
      BY <2>1, <2>2 DEF EntriesOK, Numbered
  <1>3. ASSUME NEW score \in Int, score > at - Window
        PROVE  Since(Pruned(at), score) = Since(scores, score)
    <2>1. \A entry \in scores : entry[1] >= score => entry[1] > at - Window
      BY <1>0, <1>3 DEF EntriesOK
    <2> QED
      BY <2>1 DEF Since, Pruned
  <1> QED
    BY <1>1, <1>2, <1>3 DEF EntriesOK

\* Adding an entry adds one.
Adds(entries, at, more) == more = entries \cup {<<at, Numbered(entries, at)>>}

LEMMA AddLemma ==
  ASSUME NEW entries, EntriesOK(entries), NEW at \in Int,
         NEW more, Adds(entries, at, more)
  PROVE  /\ EntriesOK(more)
         /\ \A score \in Int :
              score <= at =>
                Cardinality(Since(more, score)) = Cardinality(Since(entries, score)) + 1
  <1> DEFINE new == <<at, Numbered(entries, at)>>
             same == {entry \in entries : entry[1] = at}
  <1>1. Numbered(entries, at) \in Nat /\ IsFiniteSet(same) /\ Numbered(entries, at) = Cardinality(same)
    BY CountLemma DEF EntriesOK, Numbered
  <1>2. new[1] = at /\ new[2] = Numbered(entries, at) /\ new \notin entries
    BY <1>1 DEF EntriesOK
  <1>3. more = entries \cup {new}
    BY DEF Adds
  <1> HIDE DEF new
  <1>4. IsFiniteSet(more)
    BY <1>3, FS_AddElement DEF EntriesOK
  <1>5. Numbered(more, at) = Numbered(entries, at) + 1
    <2>1. {entry \in more : entry[1] = at} = same \cup {new} /\ new \notin same
      BY <1>2, <1>3
    <2> HIDE DEF same
    <2>2. Cardinality(same \cup {new}) = Cardinality(same) + 1
      BY <1>1, <2>1, FS_AddElement
    <2> QED
      BY <1>1, <2>1, <2>2 DEF Numbered
  <1>6. ASSUME NEW entry \in more
        PROVE  /\ entry[1] \in Int /\ entry[2] \in Int
               /\ entry[2] < Numbered(more, entry[1])
    <2>1. CASE entry = new
      BY <1>1, <1>2, <1>5, <2>1
    <2>2. CASE entry # new
      <3>1. /\ entry \in entries /\ entry[1] \in Int /\ entry[2] \in Int
            /\ entry[2] < Numbered(entries, entry[1])
        BY <1>3, <2>2 DEF EntriesOK
      <3>2. CASE entry[1] = at
        <4>1. entry[2] < Numbered(entries, at)
          BY <3>1, <3>2
        <4>2. entry[2] < Numbered(entries, at) + 1
          BY <1>1, <3>1, <4>1
        <4> QED
          BY <1>5, <3>1, <3>2, <4>2
      <3>3. CASE entry[1] # at
        <4>1. {e \in more : e[1] = entry[1]} = {e \in entries : e[1] = entry[1]}
          BY <1>2, <1>3, <3>3
        <4> QED
          BY <3>1, <4>1 DEF Numbered
      <3> QED
        BY <3>2, <3>3
    <2> QED
      BY <2>1, <2>2
  <1>7. ASSUME NEW score \in Int, score <= at
        PROVE  Cardinality(Since(more, score)) = Cardinality(Since(entries, score)) + 1
    <2>1. Since(more, score) = Since(entries, score) \cup {new} /\ new \notin Since(entries, score)
      BY <1>2, <1>3, <1>7 DEF Since
    <2>2. IsFiniteSet(Since(entries, score))
      BY CountLemma DEF EntriesOK
    <2> QED
      BY <2>1, <2>2, FS_AddElement
  <1> QED
    BY <1>4, <1>6, <1>7 DEF EntriesOK

\* Old grants are forgotten, and the present one is remembered.
Remembers(s, k, t, r) == r = Append(SubSeq(s, k + 1, Len(s)), t)

Remembered(s, k, t, r, n) ==
  /\ r \in Seq(Int) /\ Len(r) = n + 1 /\ r[n + 1] = t
  /\ \A i \in 1 .. n : i + k \in 1 .. Len(s) /\ r[i] = s[i + k]
  /\ \A i \in 1 .. n + 1 : i = n + 1 \/ i \in 1 .. n

LEMMA RememberLemma ==
  ASSUME NEW s, s \in Seq(Int), NEW k, k \in 0 .. Len(s), NEW t, t \in Int,
         NEW r, Remembers(s, k, t, r)
  PROVE  Remembered(s, k, t, r, Len(s) - k)
  <1> DEFINE rest == SubSeq(s, k + 1, Len(s))
             n == Len(s) - k
  <1>0. Len(s) \in Nat /\ k \in Nat /\ k <= Len(s) /\ n \in Nat
    OBVIOUS
  <1>1. /\ rest \in Seq(Int) /\ Len(rest) = n
        /\ \A i \in 1 .. n : i + k \in 1 .. Len(s) /\ rest[i] = s[i + k]
    BY <1>0
  <1> HIDE DEF rest, n
  <1>2. r = Append(rest, t)
    BY DEF rest, Remembers
  <1>3. r \in Seq(Int) /\ Len(r) = n + 1
    BY <1>0, <1>1, <1>2
  <1>4. r[n + 1] = t /\ \A i \in 1 .. n : r[i] = rest[i]
    BY <1>0, <1>1, <1>2
  <1>5. \A i \in 1 .. n + 1 : i = n + 1 \/ i \in 1 .. n
    BY <1>0
  <1>6. \A i \in 1 .. n : i + k \in 1 .. Len(s) /\ r[i] = s[i + k]
    BY <1>1, <1>4
  <1>7. Remembered(s, k, t, r, n)
    BY <1>3, <1>4, <1>5, <1>6 DEF Remembered
  <1> QED
    BY <1>7 DEF n

LEMMA OutdatedLemma ==
  ASSUME granted \in Seq(Int) PROVE Outdated \in 0 .. Len(granted)
  <1>1. Len(granted) \in Nat /\ DOMAIN granted = 1 .. Len(granted)
    OBVIOUS
  <1>2. IsFiniteSet(1 .. Len(granted)) /\ Cardinality(1 .. Len(granted)) = Len(granted)
    <2> DEFINE n == Len(granted)
    <2>1. n \in Nat
      BY <1>1
    <2> HIDE DEF n
    <2>2. IsFiniteSet(1 .. n) /\ Cardinality(1 .. n) = n
      BY <2>1, FS_Interval
    <2> QED
      BY <2>2 DEF n
  <1> DEFINE S == {i \in DOMAIN granted : now - granted[i] >= Window}
  <1>3. S \subseteq 1 .. Len(granted)
    BY <1>1
  <1> HIDE DEF S
  <1>4. Cardinality(S) \in Nat /\ Cardinality(S) <= Len(granted)
    BY <1>2, <1>3, FS_Subset, FS_CardinalityType
  <1> QED
    BY <1>1, <1>4 DEF Outdated, S

\* The script lets a caller in: an entry and a grant more.
LEMMA AllowedStep ==
  ASSUME WindowInv, NEW at \in ReadClock, CheckAllowed(at), now' = now
  PROVE  WindowInv'
  <1> DEFINE pruned == Pruned(at)
             k == Outdated
             n == Len(granted) - k
  <1>0. /\ Window \in Nat /\ Window > 0 /\ Limit \in Nat /\ Limit > 0 /\ Grace \in Nat /\ Skew \in Nat
        /\ now \in Nat /\ at \in Int /\ at <= now /\ at >= now - Skew
        /\ granted \in Seq(Int) /\ Len(granted) \in Nat
    BY GuardsAssumption DEF WindowInv, ReadClock
  <1>1. k \in 0 .. Len(granted) /\ n \in Nat
    BY <1>0, OutdatedLemma
  <1>2. /\ EntriesOK(pruned) /\ IsFiniteSet(pruned)
        /\ \A score \in Int : score > at - Window => Since(pruned, score) = Since(scores, score)
    BY <1>0, PruneLemma DEF WindowInv, EntriesOK
  <1>3. /\ EntriesOK(scores')
        /\ \A score \in Int :
             score <= at =>
               Cardinality(Since(scores', score)) = Cardinality(Since(pruned, score)) + 1
    <2>1. Adds(pruned, at, scores')
      BY DEF CheckAllowed, Adds
    <2> HIDE DEF pruned
    <2> QED
      BY <1>0, <1>2, <2>1, AddLemma
  <1>4. Cardinality(pruned) < Limit
    BY DEF CheckAllowed
  <1> HIDE DEF pruned, k
  <1>5. /\ granted' \in Seq(Int) /\ Len(granted') = n + 1 /\ granted'[n + 1] = now
        /\ \A i \in 1 .. n : i + k \in 1 .. Len(granted) /\ granted'[i] = granted[i + k]
        /\ \A i \in 1 .. n + 1 : i = n + 1 \/ i \in 1 .. n
    <2>1. Remembers(granted, k, now, granted')
      BY DEF CheckAllowed, Remembers, k
    <2>2. now \in Int
      BY <1>0
    <2>3. Remembered(granted, k, now, granted', n)
      BY <1>0, <1>1, <2>1, <2>2, RememberLemma
    <2> HIDE DEF n
    <2> QED
      BY <2>3 DEF Remembered
  <1>6. expires' = now + Window + Grace
    BY DEF CheckAllowed
  <1>7. \A score \in Int : /\ Cardinality(Since(pruned, score)) \in Nat
                           /\ Cardinality(Since(pruned, score)) < Limit
    <2>1. Cardinality(pruned) \in Nat
      BY <1>2, CountLemma
    <2>2. \A score : /\ Cardinality(Since(pruned, score)) \in Nat
                     /\ Cardinality(Since(pruned, score)) <= Cardinality(pruned)
      BY <1>2, CountLemma
    <2> QED
      BY <1>0, <1>4, <2>1, <2>2
  <1>8. ASSUME NEW i \in 1 .. n, now - granted'[i] < Window - Skew
        PROVE  /\ Cardinality(Since(scores', granted'[i] - Skew)) >= (n + 1) - i + 1
               /\ (n + 1) - i + 1 <= Limit
    <2> DEFINE score == granted[i + k] - Skew
               c == Cardinality(Since(pruned, score))
    <2>1. /\ i + k \in 1 .. Len(granted) /\ granted'[i] = granted[i + k]
          /\ granted[i + k] \in Int /\ granted[i + k] <= now /\ score \in Int
      <3>1. i + k \in 1 .. Len(granted) /\ granted'[i] = granted[i + k]
        BY <1>5
      <3>2. granted[i + k] \in Int /\ granted[i + k] <= now
        BY <1>0, <3>1 DEF WindowInv
      <3> QED
        BY <1>0, <3>1, <3>2
    <2>2. score > at - Window /\ score <= at
      BY <1>0, <1>8, <2>1
    <2>3. now - granted[i + k] < Window - Skew
      BY <1>8, <2>1
    <2>4. Cardinality(Since(scores, score)) >= Len(granted) - (i + k) + 1
      BY <2>1, <2>3 DEF WindowInv
    <2> HIDE DEF score
    <2>5. /\ c = Cardinality(Since(scores, score)) /\ c \in Nat /\ c < Limit
          /\ Cardinality(Since(scores', score)) = c + 1
      BY <1>2, <1>3, <1>7, <2>1, <2>2
    <2> HIDE DEF c
    <2>6. Len(granted) - (i + k) + 1 = n - i + 1 /\ n - i + 1 \in Int
      BY <1>0, <1>1
    <2> HIDE DEF n
    <2>7. c >= n - i + 1 /\ (n + 1) - i + 1 = (n - i + 1) + 1
      BY <1>1, <2>4, <2>5, <2>6
    <2>8. c + 1 >= (n + 1) - i + 1 /\ (n + 1) - i + 1 <= Limit
      BY <1>0, <2>5, <2>6, <2>7
    <2>9. granted'[i] - Skew = score
      BY <2>1 DEF score
    <2> QED
      BY <2>5, <2>8, <2>9
  <1>9. Cardinality(Since(scores', now - Skew)) >= 1
    <2>1. now - Skew \in Int /\ now - Skew <= at
      BY <1>0
    <2> QED
      BY <1>3, <1>7, <2>1
  <1> HIDE DEF n
  <1>10. \A i \in 1 .. n + 1 :
           /\ granted'[i] <= now /\ granted'[i] + Window <= expires'
           /\ now - granted'[i] < Window - Skew =>
                Cardinality(Since(scores', granted'[i] - Skew)) >= (n + 1) - i + 1
    <2> SUFFICES ASSUME NEW i \in 1 .. n + 1
                 PROVE  /\ granted'[i] <= now /\ granted'[i] + Window <= expires'
                        /\ now - granted'[i] < Window - Skew =>
                             Cardinality(Since(scores', granted'[i] - Skew)) >= (n + 1) - i + 1
      OBVIOUS
    <2>1. CASE i = n + 1
      <3>1. granted'[i] = now /\ (n + 1) - i + 1 = 1
        BY <1>1, <1>5, <2>1
      <3>2. now + Window <= expires'
        BY <1>0, <1>6
      <3> QED
        BY <1>0, <1>9, <3>1, <3>2
    <2>2. CASE i \in 1 .. n
      <3>1. granted'[i] = granted[i + k] /\ granted[i + k] \in Int /\ granted[i + k] <= now
        BY <1>0, <1>5, <2>2 DEF WindowInv
      <3>2. granted'[i] + Window <= expires'
        BY <1>0, <1>6, <3>1
      <3> QED
        BY <1>8, <2>2, <3>1, <3>2
    <2> QED
      BY <1>5, <2>1, <2>2
  <1>11. WindowBounded'
    <2> SUFFICES ASSUME NEW i \in 1 .. n + 1, NEW j \in 1 .. n + 1,
                        i <= j, granted'[j] - granted'[i] < Window - Skew
                 PROVE  j - i + 1 <= Limit
      BY <1>5 DEF WindowBounded
    <2>1. CASE j = n + 1 /\ i \in 1 .. n
      <3>1. now - granted'[i] < Window - Skew /\ j - i + 1 = (n + 1) - i + 1
        BY <1>5, <2>1
      <3> QED
        BY <1>8, <2>1, <3>1
    <2>2. CASE j = n + 1 /\ i = n + 1
      BY <1>0, <1>1, <2>2
    <2>3. CASE j \in 1 .. n
      <3>1. i \in 1 .. n
        BY <1>1, <2>3
      <3>2. /\ granted'[i] = granted[i + k] /\ granted'[j] = granted[j + k]
            /\ i + k \in 1 .. Len(granted) /\ j + k \in 1 .. Len(granted)
        BY <1>5, <2>3, <3>1
      <3>3. (j + k) - (i + k) + 1 = j - i + 1 /\ i + k <= j + k
        BY <1>1, <2>3, <3>1
      <3>4. (j + k) - (i + k) + 1 <= Limit
        BY <3>2, <3>3 DEF WindowInv, WindowBounded
      <3> QED
        BY <3>3, <3>4
    <2> QED
      BY <1>5, <2>1, <2>2, <2>3
  <1>12. expires' \in Int
    BY <1>0, <1>6
  <1> QED
    BY <1>0, <1>3, <1>5, <1>10, <1>11, <1>12 DEF WindowInv

\* The script or getInfo prunes and lets nobody in.
LEMMA PrunedStep ==
  ASSUME WindowInv, NEW at \in ReadClock, scores' = Pruned(at),
         UNCHANGED <<now, expires, granted>>
  PROVE  WindowInv'
  <1>0. /\ Window \in Nat /\ Window > 0 /\ Skew \in Nat /\ now \in Nat /\ at \in Int /\ at <= now
        /\ granted \in Seq(Int)
    BY GuardsAssumption DEF WindowInv, ReadClock
  <1>1. /\ EntriesOK(scores')
        /\ \A score \in Int : score > at - Window => Since(scores', score) = Since(scores, score)
    BY <1>0, PruneLemma DEF WindowInv
  <1>2. ASSUME NEW i \in 1 .. Len(granted), now - granted[i] < Window - Skew
        PROVE  Cardinality(Since(scores', granted[i] - Skew)) >= Len(granted) - i + 1
    <2>1. granted[i] \in Int /\ granted[i] - Skew \in Int /\ granted[i] - Skew > at - Window
      BY <1>0, <1>2
    <2> QED
      BY <1>1, <1>2, <2>1 DEF WindowInv
  <1>3. WindowBounded'
    BY DEF WindowInv, WindowBounded
  <1> QED
    BY <1>1, <1>2, <1>3 DEF WindowInv

LEMMA CheckStep ==
  ASSUME WindowInv, NEW at \in ReadClock, Check(at), now' = now
  PROVE  WindowInv'
  <1>1. CASE CheckBlocked
    <2>1. UNCHANGED <<scores, expires, granted>>
      BY <1>1 DEF CheckBlocked, limits
    <2> QED
      BY <2>1 DEF WindowInv, WindowBounded
  <1>2. CASE CheckAllowed(at)
    BY <1>2, AllowedStep
  <1>3. CASE CheckRefused(at)
    BY <1>3, PrunedStep DEF CheckRefused
  <1> QED
    BY <1>1, <1>2, <1>3 DEF Check

\* Real time passes.
LEMMA TickStep ==
  ASSUME WindowInv, Tick
  PROVE  WindowInv'
  <1>0. /\ Window \in Nat /\ Skew \in Nat /\ now \in Nat /\ now' = now + 1 /\ now' \in Nat
        /\ granted \in Seq(Int) /\ granted' = granted /\ expires' = expires /\ expires \in Int
    BY GuardsAssumption DEF WindowInv, Tick
  <1>1. EntriesOK({})
    BY FS_EmptySet DEF EntriesOK
  <1>2. EntriesOK(scores')
    BY <1>1 DEF Tick, WindowInv
  <1>3. ASSUME NEW i \in 1 .. Len(granted)
        PROVE  /\ granted[i] <= now' /\ granted[i] + Window <= expires
               /\ now' - granted[i] < Window - Skew =>
                    Cardinality(Since(scores', granted[i] - Skew)) >= Len(granted) - i + 1
    <2>1. granted[i] \in Int /\ granted[i] <= now /\ granted[i] + Window <= expires
      BY <1>0 DEF WindowInv
    <2>2. ASSUME now' - granted[i] < Window - Skew
          PROVE  Cardinality(Since(scores', granted[i] - Skew)) >= Len(granted) - i + 1
      <3>1. now' < expires
        BY <1>0, <2>1, <2>2
      <3>2. scores' = scores
        BY <1>0, <3>1 DEF Tick
      <3>3. now - granted[i] < Window - Skew
        BY <1>0, <2>1, <2>2
      <3> QED
        BY <3>2, <3>3 DEF WindowInv
    <2> QED
      BY <1>0, <2>1, <2>2
  <1>4. WindowBounded'
    BY <1>0 DEF WindowInv, WindowBounded
  <1> QED
    BY <1>0, <1>2, <1>3, <1>4 DEF WindowInv

\* No more than limit callers are let in within a stretch of real time that is shorter
\* than the window by the disagreement of the clocks: no pruning by a fast process,
\* no getInfo and no expiry of the key forgets a caller too early.
THEOREM WindowBound == GuardsSpec => []WindowBounded
  <1>1. GuardsInit => WindowInv
    <2> SUFFICES ASSUME GuardsInit PROVE WindowInv
      OBVIOUS
    <2>1. scores = {} /\ granted = <<>> /\ expires = 0 /\ now = Skew
      BY DEF GuardsInit
    <2>2. EntriesOK({})
      BY FS_EmptySet DEF EntriesOK
    <2>3. <<>> \in Seq(Int) /\ Len(<<>>) = 0
      OBVIOUS
    <2> QED
      BY <2>1, <2>2, <2>3, GuardsAssumption DEF WindowInv, WindowBounded
  <1>2. WindowInv /\ [GuardsNext]_guardVars => WindowInv'
    <2> SUFFICES ASSUME WindowInv, [GuardsNext]_guardVars PROVE WindowInv'
      OBVIOUS
    <2>1. ASSUME UNCHANGED <<now, scores, expires, granted>> PROVE WindowInv'
      BY <2>1 DEF WindowInv, WindowBounded
    <2>2. ASSUME NEW c \in Clients, Arrive(c) \/ Drop(c) \/ Work(c) PROVE WindowInv'
      BY <2>1, <2>2 DEF Arrive, PassLimiter, Drop, Work, limits
    <2>3. ASSUME NEW c \in Clients, Ask(c) PROVE WindowInv'
      BY <2>3, CheckStep DEF Ask
    <2>4. CASE AskElsewhere
      BY <2>4, CheckStep DEF AskElsewhere
    <2>5. CASE GetInfo
      BY <2>5, PrunedStep DEF GetInfo
    <2>6. CASE Reset
      <3>1. EntriesOK({})
        BY FS_EmptySet DEF EntriesOK
      <3>2. <<>> \in Seq(Int) /\ Len(<<>>) = 0
        OBVIOUS
      <3> QED
        BY <2>6, <3>1, <3>2 DEF Reset, WindowInv, WindowBounded
    <2>7. CASE Tick
      BY <2>7, TickStep
    <2>8. CASE UNCHANGED guardVars
      BY <2>1, <2>8 DEF guardVars, limits
    <2> QED
      BY <2>2, <2>3, <2>4, <2>5, <2>6, <2>7, <2>8 DEF GuardsNext
  <1>3. WindowInv => WindowBounded
    BY DEF WindowInv
  <1> QED
    BY <1>1, <1>2, <1>3, PTL DEF GuardsSpec

-------------------------------------------------------------------------------
(* The circuit breaker that all API calls share.                           *)

\* Every other state has no probes, and a caller that waits to retry has an
\* attempt left.
ApiInv ==
  /\ ApiTypeOK
  /\ ClosedBelowThreshold
  /\ ProbesInFlight
  /\ state # "half_open" => probes = {}
  /\ \A c \in Callers : stage[c] = "error" => attempt[c] <= MaxRetries

\* A probe that is admitted is not among those in flight, and makes one more.
LEMMA ProbeAdded ==
  ASSUME NEW P \in SUBSET Callers, NEW c \in Callers, c \notin P
  PROVE  /\ Cardinality(P) \in Nat
         /\ Cardinality(P \cup {c}) = Cardinality(P) + 1
  <1>1. IsFiniteSet(P)
    BY FS_Subset, ApiClientAssumption
  <1> QED
    BY <1>1, FS_AddElement, FS_CardinalityType

\* The three ways a breaker operation may leave the circuit.
LEMMA SuccessCloses ==
  ASSUME BreakerTypeOK, OnSuccess
  PROVE  BreakerTypeOK' /\ state' = "closed" /\ ClosedBelowThreshold'
  BY CircuitBreakerAssumption
     DEF BreakerTypeOK, OnSuccess, ClosedBelowThreshold

LEMMA FailureNeverProbes ==
  ASSUME BreakerTypeOK, ClosedBelowThreshold, OnFailure
  PROVE  BreakerTypeOK' /\ state' # "half_open" /\ ClosedBelowThreshold'
  BY CircuitBreakerAssumption
     DEF BreakerTypeOK, OnFailure, Counted, ClosedBelowThreshold

LEMMA LetThroughProbes ==
  ASSUME BreakerTypeOK, ClosedBelowThreshold, LetThrough
  PROVE  /\ BreakerTypeOK' /\ ClosedBelowThreshold'
         /\ \/ state = "closed" /\ state' = "closed"
            \/ state = "open" /\ state' = "half_open" /\ halfOpenRequests' = 1
            \/ /\ state = "half_open" /\ state' = "half_open"
               /\ halfOpenRequests < MaxProbes
               /\ halfOpenRequests' = halfOpenRequests + 1
  BY CircuitBreakerAssumption
     DEF BreakerTypeOK, LetThrough, breaker, ClosedBelowThreshold

LEMMA ApiInitInv == ApiInit => ApiInv
  <1> SUFFICES ASSUME ApiInit PROVE ApiInv
    OBVIOUS
  <1> USE CircuitBreakerAssumption, ApiClientAssumption DEF ApiInit, BreakerInit
  <1>1. BreakerTypeOK /\ ClosedBelowThreshold
    BY DEF BreakerTypeOK, ClosedBelowThreshold
  <1>2. attempt \in [Callers -> 1 .. MaxRetries + 1]
    OBVIOUS
  <1>3. ApiTypeOK
    BY <1>1, <1>2 DEF ApiTypeOK
  <1>4. ProbesInFlight
    BY DEF ProbesInFlight
  <1> QED
    BY <1>1, <1>3, <1>4 DEF ApiInv

\* A result that ends the half-open period, if there was one.
LEMMA ResultStep ==
  ASSUME ApiInv, NEW c \in Callers,
         OnSuccess \/ OnFailure, Probes,
         stage' \in [Callers -> {"idle", "start", "request", "result", "error", "giveup"}]
  PROVE  /\ BreakerTypeOK' /\ ClosedBelowThreshold' /\ ProbesInFlight'
         /\ state' # "half_open" /\ probes' = {}
  <1>1. BreakerTypeOK' /\ ClosedBelowThreshold' /\ state' # "half_open"
    BY SuccessCloses, FailureNeverProbes DEF ApiInv, ApiTypeOK
  <1> QED
    BY <1>1 DEF Probes, ProbesInFlight

\* A step that leaves the breaker and its probes alone, taken by a caller that
\* is not in flight.
LEMMA ApiOtherStep ==
  ASSUME ApiInv, NEW c \in Callers, stage[c] # "request", NEW l, Goto(c, l),
         UNCHANGED <<breaker, probes>>
  PROVE  ClosedBelowThreshold' /\ ProbesInFlight' /\ (state' # "half_open" => probes' = {})
  <1>1. /\ state' = state /\ failures' = failures /\ probes' = probes
        /\ halfOpenRequests' = halfOpenRequests
    BY DEF breaker
  <1>2. ClosedBelowThreshold'
    BY <1>1 DEF ApiInv, ClosedBelowThreshold
  <1>3. state' # "half_open" => probes' = {}
    BY <1>1 DEF ApiInv
  <1>4. \A p \in InFlight : p \in InFlight'
    BY DEF ApiInv, ApiTypeOK, Goto, InFlight
  <1>5. ProbesInFlight'
    BY <1>1, <1>4 DEF ApiInv, ProbesInFlight
  <1> QED
    BY <1>2, <1>3, <1>5

LEMMA ApiNextInv ==
  ASSUME ApiInv, [ApiNext]_apiVars
  PROVE  ApiInv'
  <1> USE CircuitBreakerAssumption, ApiClientAssumption
  <1>1. ASSUME NEW c \in Callers, Call(c)
        PROVE  ApiInv'
    <2>1. ApiTypeOK' /\ (\A d \in Callers : stage'[d] = "error" => attempt'[d] <= MaxRetries)
      BY <1>1 DEF ApiInv, ApiTypeOK, BreakerTypeOK, Call, Goto, breaker
    <2>2. stage[c] # "request" /\ Goto(c, "start") /\ UNCHANGED <<breaker, probes>>
      BY <1>1 DEF Call
    <2> QED
      BY <2>1, <2>2, ApiOtherStep DEF ApiInv
  <1>2. ASSUME NEW c \in Callers, Send(c)
        PROVE  ApiInv'
    <2>1. /\ stage[c] = "start" /\ LetThrough /\ stage' = [stage EXCEPT ![c] = "request"]
          /\ probes' = IF state' = "half_open" THEN probes \cup {c} ELSE {}
          /\ attempt' = attempt /\ outcome' = outcome
          /\ healthy' = healthy
      BY <1>2 DEF Send, Goto
    <2>2. BreakerTypeOK' /\ ClosedBelowThreshold'
      BY <2>1, LetThroughProbes DEF ApiInv, ApiTypeOK
    <2>3. ApiTypeOK' /\ (\A d \in Callers : stage'[d] = "error" => attempt'[d] <= MaxRetries)
      BY <2>1, <2>2 DEF ApiInv, ApiTypeOK
    <2>4. c \notin probes /\ probes \subseteq Callers
      BY <2>1 DEF ApiInv, ApiTypeOK, ProbesInFlight, InFlight
    <2>5. InFlight \cup {c} \subseteq InFlight'
      BY <2>1 DEF ApiInv, ApiTypeOK, InFlight
    <2>6. state' # "half_open" => probes' = {}
      BY <2>1
    <2>7. ProbesInFlight'
      <3>1. CASE state = "closed"
        BY <3>1, <2>1, LetThroughProbes DEF ApiInv, ApiTypeOK, ProbesInFlight
      <3>2. CASE state = "open"
        <4>1. state' = "half_open" /\ halfOpenRequests' = 1
          BY <3>2, <2>1, LetThroughProbes DEF ApiInv, ApiTypeOK
        <4>2. probes' = {c}
          BY <4>1, <2>1, <3>2 DEF ApiInv
        <4>3. Cardinality(probes') = 1
          BY <4>2, FS_Singleton
        <4> QED
          BY <4>1, <4>2, <4>3, <2>5 DEF ProbesInFlight
      <3>3. CASE state = "half_open"
        <4>1. /\ state' = "half_open" /\ halfOpenRequests < MaxProbes
              /\ halfOpenRequests' = halfOpenRequests + 1
          BY <3>3, <2>1, LetThroughProbes DEF ApiInv, ApiTypeOK
        <4>2. /\ halfOpenRequests = Cardinality(probes)
              /\ probes \subseteq InFlight
              /\ halfOpenRequests \in 1 .. MaxProbes
          BY <3>3 DEF ApiInv, ProbesInFlight
        <4>3. probes' = probes \cup {c}
          BY <4>1, <2>1
        <4>4. Cardinality(probes') = Cardinality(probes) + 1
          BY <4>3, <2>4, ProbeAdded
        <4>5. halfOpenRequests' \in 1 .. MaxProbes
          BY <4>1, <4>2
        <4> QED
          BY <4>1, <4>2, <4>3, <4>4, <4>5, <2>5 DEF ProbesInFlight
      <3> QED
        BY <3>1, <3>2, <3>3 DEF ApiInv, ApiTypeOK, BreakerTypeOK
    <2> QED
      BY <2>2, <2>3, <2>6, <2>7 DEF ApiInv
  <1>3. ASSUME NEW c \in Callers, FailFast(c)
        PROVE  ApiInv'
    <2>1. /\ stage[c] = "start" /\ RetryOrGiveUp(c) /\ UNCHANGED breaker
          /\ outcome' = [outcome EXCEPT ![c] = "denied"]
          /\ attempt' = attempt /\ healthy' = healthy
      BY <1>3 DEF FailFast, Deny
    <2>2. probes' = probes
      BY <1>3, <2>1 DEF FailFast, Probes, breaker, ApiInv
    <2>3. ApiTypeOK' /\ (\A d \in Callers : stage'[d] = "error" => attempt'[d] <= MaxRetries)
      BY <2>1, <2>2 DEF ApiInv, ApiTypeOK, BreakerTypeOK, RetryOrGiveUp, Goto, breaker
    <2> QED
      BY <2>1, <2>2, <2>3, ApiOtherStep DEF ApiInv, RetryOrGiveUp
  <1>4. ASSUME NEW c \in Callers, HookThrows(c)
        PROVE  ApiInv'
    <2>1. /\ OnFailure /\ Probes /\ stage' = [stage EXCEPT ![c] = "giveup"]
          /\ outcome' = [outcome EXCEPT ![c] = "failed"]
          /\ attempt' = attempt /\ healthy' = healthy
      BY <1>4 DEF HookThrows, Goto
    <2>2. /\ stage' \in [Callers -> {"idle", "start", "request", "result", "error", "giveup"}]
          /\ \A d \in Callers : stage'[d] = "error" => attempt'[d] <= MaxRetries
      BY <2>1 DEF ApiInv, ApiTypeOK
    <2>3. /\ BreakerTypeOK' /\ ClosedBelowThreshold' /\ ProbesInFlight'
          /\ state' # "half_open" /\ probes' = {}
      BY <2>1, <2>2, ResultStep
    <2>4. ApiTypeOK'
      BY <2>1, <2>2, <2>3 DEF ApiInv, ApiTypeOK
    <2> QED
      BY <2>2, <2>3, <2>4 DEF ApiInv
  <1>5. ASSUME NEW c \in Callers, Succeed(c)
        PROVE  ApiInv'
    <2>1. /\ OnSuccess /\ Probes /\ stage' = [stage EXCEPT ![c] = "result"]
          /\ outcome' = outcome
          /\ attempt' = attempt /\ healthy' = healthy
      BY <1>5 DEF Succeed, Goto
    <2>2. /\ stage' \in [Callers -> {"idle", "start", "request", "result", "error", "giveup"}]
          /\ \A d \in Callers : stage'[d] = "error" => attempt'[d] <= MaxRetries
      BY <2>1 DEF ApiInv, ApiTypeOK
    <2>3. /\ BreakerTypeOK' /\ ClosedBelowThreshold' /\ ProbesInFlight'
          /\ state' # "half_open" /\ probes' = {}
      BY <2>1, <2>2, ResultStep
    <2>4. ApiTypeOK'
      BY <2>1, <2>2, <2>3 DEF ApiInv, ApiTypeOK
    <2> QED
      BY <2>2, <2>3, <2>4 DEF ApiInv
  <1>6. ASSUME NEW c \in Callers, Resolve(c)
        PROVE  ApiInv'
    <2>1. /\ stage[c] = "result" /\ Goto(c, "idle") /\ UNCHANGED <<breaker, probes>>
      BY <1>6 DEF Resolve, End
    <2>2. ApiTypeOK' /\ (\A d \in Callers : stage'[d] = "error" => attempt'[d] <= MaxRetries)
      BY <1>6 DEF ApiInv, ApiTypeOK, BreakerTypeOK, Resolve, End, Goto, breaker
    <2> QED
      BY <2>1, <2>2, ApiOtherStep DEF ApiInv
  <1>7. ASSUME NEW c \in Callers, Refused(c)
        PROVE  ApiInv'
    <2>1. /\ OnFailure /\ Probes /\ stage' = [stage EXCEPT ![c] = "giveup"]
          /\ outcome' = [outcome EXCEPT ![c] = "failed"]
          /\ attempt' = attempt /\ healthy' = healthy
      BY <1>7 DEF Refused, Goto
    <2>2. /\ stage' \in [Callers -> {"idle", "start", "request", "result", "error", "giveup"}]
          /\ \A d \in Callers : stage'[d] = "error" => attempt'[d] <= MaxRetries
      BY <2>1 DEF ApiInv, ApiTypeOK
    <2>3. /\ BreakerTypeOK' /\ ClosedBelowThreshold' /\ ProbesInFlight'
          /\ state' # "half_open" /\ probes' = {}
      BY <2>1, <2>2, ResultStep
    <2>4. ApiTypeOK'
      BY <2>1, <2>2, <2>3 DEF ApiInv, ApiTypeOK
    <2> QED
      BY <2>2, <2>3, <2>4 DEF ApiInv
  <1>8. ASSUME NEW c \in Callers, NoAnswer(c)
        PROVE  ApiInv'
    <2>1. /\ OnFailure /\ Probes /\ RetryOrGiveUp(c)
          /\ outcome' = [outcome EXCEPT ![c] = "failed"]
          /\ attempt' = attempt /\ healthy' = healthy
      BY <1>8 DEF NoAnswer
    <2>2. /\ stage' \in [Callers -> {"idle", "start", "request", "result", "error", "giveup"}]
          /\ \A d \in Callers : stage'[d] = "error" => attempt'[d] <= MaxRetries
      BY <2>1 DEF ApiInv, ApiTypeOK, RetryOrGiveUp, Goto
    <2>3. /\ BreakerTypeOK' /\ ClosedBelowThreshold' /\ ProbesInFlight'
          /\ state' # "half_open" /\ probes' = {}
      BY <2>1, <2>2, ResultStep
    <2>4. ApiTypeOK'
      BY <2>1, <2>2, <2>3 DEF ApiInv, ApiTypeOK
    <2> QED
      BY <2>2, <2>3, <2>4 DEF ApiInv
  <1>9. ASSUME NEW c \in Callers, Retry(c)
        PROVE  ApiInv'
    <2>1. /\ stage[c] = "error" /\ Goto(c, "start") /\ UNCHANGED <<breaker, probes>>
      BY <1>9 DEF Retry
    <2>2. ApiTypeOK' /\ (\A d \in Callers : stage'[d] = "error" => attempt'[d] <= MaxRetries)
      BY <1>9 DEF ApiInv, ApiTypeOK, BreakerTypeOK, Retry, Goto, breaker
    <2> QED
      BY <2>1, <2>2, ApiOtherStep DEF ApiInv
  <1>10. ASSUME NEW c \in Callers, Throw(c)
         PROVE  ApiInv'
    <2>1. /\ stage[c] # "request" /\ Goto(c, "idle") /\ UNCHANGED <<breaker, probes>>
      BY <1>10 DEF Throw, End
    <2>2. ApiTypeOK' /\ (\A d \in Callers : stage'[d] = "error" => attempt'[d] <= MaxRetries)
      BY <1>10 DEF ApiInv, ApiTypeOK, BreakerTypeOK, Throw, End, Goto, breaker
    <2> QED
      BY <2>1, <2>2, ApiOtherStep DEF ApiInv
  <1>11. ASSUME Heal
         PROVE  ApiInv'
    BY <1>11 DEF Heal, ApiInv, ApiTypeOK, BreakerTypeOK, ClosedBelowThreshold,
                 ProbesInFlight, InFlight, breaker
  <1>12. ASSUME Wait
         PROVE  ApiInv'
    BY <1>12 DEF Wait, PassMs, ApiInv, ApiTypeOK, BreakerTypeOK, ClosedBelowThreshold,
                 ProbesInFlight, InFlight
  <1>13. CASE UNCHANGED apiVars
    BY <1>13 DEF apiVars, ApiInv, ApiTypeOK, BreakerTypeOK, ClosedBelowThreshold,
                 ProbesInFlight, InFlight, breaker
  <1> QED
    BY <1>1, <1>2, <1>3, <1>4, <1>5, <1>6, <1>7, <1>8, <1>9, <1>10, <1>11, <1>12,
       <1>13 DEF ApiNext, Progress

\* The circuit and its probes agree in every reachable state.
THEOREM ApiInvariance == ApiSpec => []ApiInv
  BY ApiInitInv, ApiNextInv, PTL DEF ApiSpec

\* Whatever order the results arrive in, the circuit is closed exactly while the
\* failures counted since the last success are below the threshold.
THEOREM StateMatchesFailures == ApiSpec => []ClosedBelowThreshold
  <1>1. ApiInv => ClosedBelowThreshold
    BY DEF ApiInv
  <1> QED
    BY <1>1, ApiInvariance, PTL

\* A half-open circuit counts its own probes, between one and the limit, and each
\* is still to bring the result that ends the period.
THEOREM ProbesBounded == ApiSpec => []ProbesInFlight
  <1>1. ApiInv => ProbesInFlight
    BY DEF ApiInv
  <1> QED
    BY <1>1, ApiInvariance, PTL

\* Types; in particular no call makes more than MaxRetries + 1 attempts.
THEOREM ApiTypeCorrect == ApiSpec => []ApiTypeOK
  <1>1. ApiInv => ApiTypeOK
    BY DEF ApiInv
  <1> QED
    BY <1>1, ApiInvariance, PTL

===============================================================================
