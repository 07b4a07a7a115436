------------------------- MODULE PollingRuntimeProofs -------------------------
(***************************************************************************)
(* What a polling bot guarantees for any number of updates, lost polls,    *)
(* throwing handlers, stops and crashes, provided that the application     *)
(* does not call start() before the last start() has settled (OneLoop).    *)
(***************************************************************************)
EXTENDS PollingRuntime, SequenceTheorems, TLAPS

\* Every update before u is in the set.
Ended(u, set) == \A v \in 1 .. u - 1 : v \in set

\* Telegram's answers have no gaps.
Consecutive(updates) ==
  \A i \in 1 .. Len(updates) : updates[i] = updates[1] + i - 1

\* At most one loop runs.
Single == \A k, l \in Loops : pc[k] # "off" /\ pc[l] # "off" => k = l

\* Nothing is acknowledged or asked for that does not exist yet.
Existing ==
  /\ confirmed <= arrived + 1 /\ offset <= arrived + 1
  /\ \A l \in Loops : asked[l] <= arrived + 1
  /\ \A l \in Loops : \A i \in 1 .. Len(batch[l]) : batch[l][i] <= arrived

\* The offset is ahead of the updates that have ended by at most the one that is
\* being handled.
Position(l) ==
  /\ pc[l] = "asking" => asked[l] = offset
  /\ pc[l] \in {"batch", "handling"} => Consecutive(batch[l])
  /\ pc[l] = "batch" /\ batch[l] # <<>> =>
       offset <= Update(l) /\ Ended(Update(l), Settled)
  /\ pc[l] = "handling" =>
       batch[l] # <<>> /\ offset = Update(l) + 1 /\ Ended(Update(l), Settled)

Offset == (\A l \in Loops : pc[l] # "handling") => Ended(offset, Settled)

\* The handler was given increasing updates, all of them below the offset.
Taken ==
  /\ \A i \in 1 .. Len(taken) : taken[i] < offset
  /\ \A i, j \in 1 .. Len(taken) : i < j => taken[i] < taken[j]

\* A loop that handles has a batch, with or without OneLoop.
HasBatch == \A l \in Loops : pc[l] = "handling" => batch[l] # <<>>

-------------------------------------------------------------------------------
(* Types.                                                                  *)

LEMMA AnswerLemma ==
  ASSUME NEW first \in 1 .. MaxUpdate + 1, arrived \in 0 .. MaxUpdate, first <= arrived + 1
  PROVE  /\ AnswerFrom(first) \in Seq(1 .. MaxUpdate)
         /\ \A i \in 1 .. Len(AnswerFrom(first)) :
              AnswerFrom(first)[i] = first + i - 1 /\ AnswerFrom(first)[i] <= arrived
  <1> DEFINE n == IF arrived - first + 1 < Limit THEN arrived - first + 1 ELSE Limit
             a == [i \in 1 .. n |-> first + i - 1]
  <1>1. n \in Nat /\ n <= arrived - first + 1
    BY PollingRuntimeAssumption
  <1> HIDE DEF n
  <1>2. \A i \in 1 .. n : first + i - 1 \in 1 .. MaxUpdate /\ first + i - 1 <= arrived
    BY <1>1, PollingRuntimeAssumption
  <1>3. a \in Seq(1 .. MaxUpdate) /\ Len(a) = n
    BY <1>1, <1>2, IsASeq
  <1>4. AnswerFrom(first) = a
    BY DEF AnswerFrom, n
  <1> QED
    BY <1>2, <1>3, <1>4

LEMMA ConfirmedLemma ==
  ASSUME TypeOK, Existing, NEW o \in 0 .. MaxUpdate + 1, o <= arrived + 1
  PROVE  /\ Confirmed(o) \in 1 .. MaxUpdate + 1 /\ Confirmed(o) <= arrived + 1
         /\ Confirmed(o) \in {o, confirmed}
         /\ o <= Confirmed(o) /\ confirmed <= Confirmed(o)
  BY PollingRuntimeAssumption DEF TypeOK, Existing, Confirmed

Budgets == [start: 0 .. MaxStarts, stop: 0 .. MaxStops,
            error: 0 .. MaxErrors, crash: 0 .. MaxCrashes]

\* What Spend does to the budget.
LEMMA SpendLemma ==
  ASSUME budget \in Budgets,
         \/ Spend("start", MaxStarts) \/ Spend("stop", MaxStops)
         \/ Spend("error", MaxErrors) \/ Spend("crash", MaxCrashes)
  PROVE  budget' \in Budgets
  <1>0. /\ budget.start \in 0 .. MaxStarts /\ budget.stop \in 0 .. MaxStops
        /\ budget.error \in 0 .. MaxErrors /\ budget.crash \in 0 .. MaxCrashes
    BY DEF Budgets
  <1>1. CASE Spend("start", MaxStarts)
    <2>1. budget.start + 1 \in 0 .. MaxStarts
      BY <1>0, <1>1, PollingRuntimeAssumption DEF Spend
    <2> QED
      BY <1>1, <2>1 DEF Spend, Budgets
  <1>2. CASE Spend("stop", MaxStops)
    <2>1. budget.stop + 1 \in 0 .. MaxStops
      BY <1>0, <1>2, PollingRuntimeAssumption DEF Spend
    <2> QED
      BY <1>2, <2>1 DEF Spend, Budgets
  <1>3. CASE Spend("error", MaxErrors)
    <2>1. budget.error + 1 \in 0 .. MaxErrors
      BY <1>0, <1>3, PollingRuntimeAssumption DEF Spend
    <2> QED
      BY <1>3, <2>1 DEF Spend, Budgets
  <1>4. CASE Spend("crash", MaxCrashes)
    <2>1. budget.crash + 1 \in 0 .. MaxCrashes
      BY <1>0, <1>4, PollingRuntimeAssumption DEF Spend
    <2> QED
      BY <1>4, <2>1 DEF Spend, Budgets
  <1> QED
    BY <1>1, <1>2, <1>3, <1>4

LEMMA HeadLemma ==
  ASSUME NEW S, NEW s \in Seq(S), s # <<>>
  PROVE  /\ Len(s) \in Nat /\ Len(s) > 0
         /\ Head(s) = s[1] /\ s[1] \in S
  <1>1. Len(s) \in Nat \ {0}
    BY EmptySeq
  <1>2. 1 \in 1 .. Len(s)
    BY <1>1
  <1> QED
    BY <1>1, <1>2, ElementOfSeq

\* The head and the tail of a batch.
LEMMA BatchLemma ==
  ASSUME TypeOK, Existing, NEW l \in Loops, batch[l] # <<>>
  PROVE  /\ Update(l) \in 1 .. MaxUpdate /\ Update(l) <= arrived
         /\ Tail(batch[l]) \in Seq(1 .. MaxUpdate)
         /\ Len(Tail(batch[l])) = Len(batch[l]) - 1
         /\ Len(batch[l]) \in Nat /\ Len(batch[l]) > 0
         /\ Update(l) = batch[l][1]
         /\ \A i \in 1 .. Len(Tail(batch[l])) : Tail(batch[l])[i] = batch[l][i + 1]
  <1>1. batch[l] \in Seq(1 .. MaxUpdate)
    BY DEF TypeOK
  <1>2. /\ Len(batch[l]) \in Nat /\ Len(batch[l]) > 0
        /\ Head(batch[l]) = batch[l][1]
        /\ batch[l][1] \in 1 .. MaxUpdate
    BY <1>1, HeadLemma
  <1>3. /\ Tail(batch[l]) \in Seq(1 .. MaxUpdate)
        /\ Len(Tail(batch[l])) = Len(batch[l]) - 1
        /\ \A i \in 1 .. Len(Tail(batch[l])) : Tail(batch[l])[i] = batch[l][i + 1]
    <2>1. /\ Tail(batch[l]) \in Seq(1 .. MaxUpdate)
          /\ Len(Tail(batch[l])) = Len(batch[l]) - 1
      BY <1>1, HeadTailProperties
    <2>2. \A i \in 1 .. Len(Tail(batch[l])) : Tail(batch[l])[i] = batch[l][i + 1]
      BY <1>1, HeadTailProperties
    <2> QED
      BY <2>1, <2>2
  <1>4. batch[l][1] <= arrived
    BY <1>2 DEF Existing
  <1> QED
    BY <1>2, <1>3, <1>4 DEF Update

Labels == {"off", "top", "asking", "batch", "handling"}

LEMMA Transitive == \A a, b, c \in Nat : a <= b + 1 /\ b <= c => a <= c + 1
  OBVIOUS

\* Steps of the server and the application that let the loops be.
LEMMA OutsideTypes ==
  ASSUME TypeOK, Existing, HasBatch,
         UNCHANGED <<confirmed, offset, loops, taken, ends>>,
         arrived' \in 0 .. MaxUpdate, arrived <= arrived',
         running' \in BOOLEAN, aborted' \in BOOLEAN, isRunning' \in BOOLEAN,
         stopper' \in {"none", "source", "pending", "stopped"}, awaited' \subseteq Loops,
         budget' \in Budgets
  PROVE  TypeOK' /\ Existing' /\ HasBatch'
  <1>1. TypeOK'
    BY DEF TypeOK, loops, ends, Budgets
  <1>2. ASSUME NEW l \in Loops, NEW i \in 1 .. Len(batch[l]) PROVE batch[l][i] \in 1 .. MaxUpdate
    BY ElementOfSeq DEF TypeOK
  <1>3. arrived \in Nat /\ arrived' \in Nat /\ confirmed \in Nat /\ offset \in Nat
    BY PollingRuntimeAssumption DEF TypeOK
  <1>4. ASSUME NEW l \in Loops, NEW i \in 1 .. Len(batch[l]) PROVE batch[l][i] <= arrived'
    <2>1. batch[l][i] <= arrived
      BY DEF Existing
    <2> QED
      BY <1>2, <1>3, <2>1
  <1>5. ASSUME NEW l \in Loops PROVE asked[l] <= arrived' + 1
    <2>1. asked[l] <= arrived + 1
      BY DEF Existing
    <2>2. asked[l] \in 0 .. MaxUpdate + 1
      BY DEF TypeOK
    <2>3. asked[l] \in Nat
      BY <2>2
    <2> QED
      BY <1>3, <2>1, <2>3
  <1>6. confirmed' <= arrived' + 1 /\ offset' <= arrived' + 1
    <2>1. confirmed <= arrived + 1 /\ offset <= arrived + 1
      BY DEF Existing
    <2>2. confirmed' = confirmed
      OBVIOUS
    <2>3. offset' = offset
      OBVIOUS
    <2> QED
      BY <1>3, <2>1, <2>2, <2>3, Transitive
  <1>7. Existing'
    BY <1>4, <1>5, <1>6 DEF Existing, loops
  <1> QED
    BY <1>1, <1>7 DEF HasBatch, loops

\* Steps that move a loop over its batch.
LEMMA LoopTypes ==
  ASSUME TypeOK, Existing, HasBatch, NEW l \in Loops, NEW label \in Labels,
         NEW updates \in Seq(1 .. MaxUpdate),
         pc' = [pc EXCEPT ![l] = label], batch' = [batch EXCEPT ![l] = updates],
         \A i \in 1 .. Len(updates) : updates[i] <= arrived,
         label = "handling" => updates # <<>>,
         UNCHANGED <<arrived, running, aborted, stopper>>,
         confirmed' \in 1 .. MaxUpdate + 1, confirmed' <= arrived + 1,
         offset' \in 0 .. MaxUpdate + 1, offset' <= arrived + 1,
         asked' \in [Loops -> 0 .. MaxUpdate + 1],
         \A k \in Loops : asked'[k] <= arrived + 1,
         isRunning' \in BOOLEAN, awaited' \subseteq Loops,
         taken' \in Seq(1 .. MaxUpdate),
         done' \subseteq 1 .. MaxUpdate, dropped' \subseteq 1 .. MaxUpdate,
         failed' \subseteq 1 .. MaxUpdate, budget' \in Budgets
  PROVE  TypeOK' /\ Existing' /\ HasBatch'
  <1>1. pc' \in [Loops -> Labels] /\ batch' \in [Loops -> Seq(1 .. MaxUpdate)]
    BY DEF TypeOK, Labels
  <1>2. TypeOK'
    <2>1. /\ arrived' \in 0 .. MaxUpdate /\ running' \in BOOLEAN /\ aborted' \in BOOLEAN
          /\ stopper' \in {"none", "source", "pending", "stopped"}
      BY DEF TypeOK
    <2>2. \A set \in {done', dropped', failed'} : set \subseteq 1 .. MaxUpdate
      OBVIOUS
    <2> QED
      BY <1>1, <2>1, <2>2, Zenon DEF TypeOK, Labels, Budgets
  <1>3. /\ pc'[l] = label /\ batch'[l] = updates
        /\ \A k \in Loops : k # l => pc'[k] = pc[k] /\ batch'[k] = batch[k]
    BY DEF TypeOK
  <1>4. Existing'
    BY <1>3 DEF Existing
  <1>5. HasBatch'
    BY <1>3 DEF HasBatch
  <1> QED
    BY <1>2, <1>4, <1>5

LEMMA BatchUnchanged ==
  ASSUME TypeOK, Existing, NEW l \in Loops
  PROVE  /\ batch[l] \in Seq(1 .. MaxUpdate)
         /\ batch = [batch EXCEPT ![l] = batch[l]]
         /\ \A i \in 1 .. Len(batch[l]) : batch[l][i] <= arrived
  BY DEF TypeOK, Existing

LEMMA TypeStep ==
  ASSUME TypeOK, Existing, HasBatch, [Next]_vars
  PROVE  TypeOK' /\ Existing' /\ HasBatch'
  <1>0. /\ arrived \in 0 .. MaxUpdate /\ arrived \in Nat
        /\ confirmed \in 1 .. MaxUpdate + 1 /\ confirmed <= arrived + 1
        /\ offset \in 0 .. MaxUpdate + 1 /\ offset <= arrived + 1
        /\ running \in BOOLEAN /\ aborted \in BOOLEAN /\ isRunning \in BOOLEAN
        /\ asked \in [Loops -> 0 .. MaxUpdate + 1]
        /\ \A k \in Loops : asked[k] <= arrived + 1
        /\ stopper \in {"none", "source", "pending", "stopped"} /\ awaited \subseteq Loops
        /\ taken \in Seq(1 .. MaxUpdate)
        /\ done \subseteq 1 .. MaxUpdate /\ dropped \subseteq 1 .. MaxUpdate
        /\ failed \subseteq 1 .. MaxUpdate /\ budget \in Budgets
    BY PollingRuntimeAssumption, SMTT(30) DEF TypeOK, Existing, Budgets
  <1>1. CASE UNCHANGED vars
    BY <1>0, <1>1, OutsideTypes DEF vars, server, source, app, ends
  <1>2. CASE Arrive
    <2>1. arrived' \in 0 .. MaxUpdate /\ arrived <= arrived'
      BY <1>0, <1>2, PollingRuntimeAssumption DEF Arrive
    <2> QED
      BY <1>0, <1>2, <2>1, OutsideTypes DEF Arrive, source, app, ends
  <1>3. CASE StopSource
    <2>1. /\ budget' \in Budgets /\ running' = FALSE /\ stopper' = "source"
          /\ UNCHANGED <<server, offset, aborted, loops, isRunning, awaited, taken, ends>>
      BY <1>0, <1>3, SpendLemma DEF StopSource
    <2>2. /\ arrived' = arrived /\ confirmed' = confirmed /\ offset' = offset
          /\ aborted' = aborted /\ isRunning' = isRunning /\ awaited' = awaited
          /\ UNCHANGED <<loops, taken, ends>>
      BY <2>1 DEF server
    <2>3. arrived' \in 0 .. MaxUpdate /\ arrived <= arrived'
      BY <1>0, <2>2
    <2>4. running' \in BOOLEAN /\ aborted' \in BOOLEAN /\ isRunning' \in BOOLEAN
      BY <1>0, <2>1, <2>2
    <2>5. stopper' \in {"none", "source", "pending", "stopped"} /\ awaited' \subseteq Loops
      BY <1>0, <2>1, <2>2
    <2> QED
      BY <2>1, <2>2, <2>3, <2>4, <2>5, OutsideTypes
  <1>4. CASE Stop
    <2>1. awaited' \subseteq Loops /\ isRunning' \in BOOLEAN
      BY <1>0, <1>4 DEF Stop, StopAwaitsPending, StopResolves, Handling
    <2>2. stopper' \in {"none", "source", "pending", "stopped"}
      BY <1>4 DEF Stop, StopAwaitsPending, StopResolves
    <2>3. UNCHANGED <<server, source, loops, taken, ends, budget>>
      BY <1>4 DEF Stop, StopAwaitsPending, StopResolves
    <2> QED
      BY <1>0, <2>1, <2>2, <2>3, OutsideTypes DEF server, source
  <1>5. CASE Abort
    BY <1>0, <1>5, SpendLemma, OutsideTypes DEF Abort, server, app, ends
  <1>6. CASE Crash
    <2>1. budget' \in Budgets
      BY <1>0, <1>6, SpendLemma DEF Crash
    <2>2. \A k \in Loops : pc'[k] = "off" /\ batch'[k] = <<>>
      BY <1>6 DEF Crash
    <2>3. taken' \in Seq(1 .. MaxUpdate) /\ batch' \in [Loops -> Seq(1 .. MaxUpdate)]
      BY <1>6 DEF Crash
    <2>4. asked' \in [Loops -> 0 .. MaxUpdate + 1] /\ offset' \in 0 .. MaxUpdate + 1
      BY <1>6, PollingRuntimeAssumption DEF Crash
    <2>5. TypeOK'
      BY <1>0, <1>6, <2>1, <2>3, <2>4 DEF Crash, TypeOK, server, ends, Budgets
    <2>6. Existing' /\ HasBatch'
      <3>1. \A k \in Loops : asked'[k] = 0
        BY <1>6 DEF Crash
      <3> QED
        BY <1>0, <1>6, <2>2, <3>1 DEF Crash, Existing, HasBatch, server
    <2> QED
      BY <2>5, <2>6
  <1>7. ASSUME NEW l \in Loops, Start(l) PROVE TypeOK' /\ Existing' /\ HasBatch'
    <2>1. budget' \in Budgets
      BY <1>0, <1>7, SpendLemma DEF Start
    <2>2. pc' \in [Loops -> Labels]
      BY <1>7 DEF Start, TypeOK, Labels
    <2>3. TypeOK'
      BY <1>0, <1>7, <2>1, <2>2 DEF Start, TypeOK, server, ends, Budgets, Labels
    <2>4. Existing'
      BY <1>7 DEF Start, Existing, server
    <2>5. HasBatch'
      BY <1>7 DEF Start, HasBatch, TypeOK
    <2> QED
      BY <2>3, <2>4, <2>5
  <1>8. ASSUME NEW l \in Loops, Poll(l) PROVE TypeOK' /\ Existing' /\ HasBatch'
    <2>1. /\ asked' \in [Loops -> 0 .. MaxUpdate + 1] /\ isRunning' \in BOOLEAN
          /\ \A k \in Loops : asked'[k] <= arrived + 1
      BY <1>0, <1>8 DEF Poll
    <2>2. \E label \in {"asking", "off"} : pc' = [pc EXCEPT ![l] = label]
      BY <1>8 DEF Poll
    <2>3. batch' = [batch EXCEPT ![l] = batch[l]]
      BY <1>8, BatchUnchanged DEF Poll
    <2> QED
      BY <1>0, <1>8, <2>1, <2>2, <2>3, BatchUnchanged, LoopTypes
         DEF Poll, Labels, server, source, ends
  <1>9. ASSUME NEW l \in Loops, Answer(l) PROVE TypeOK' /\ Existing' /\ HasBatch'
    <2> DEFINE first == Confirmed(asked[l])
    <2>1. first \in 1 .. MaxUpdate + 1 /\ first <= arrived + 1
      BY <1>0, ConfirmedLemma
    <2>2. /\ AnswerFrom(first) \in Seq(1 .. MaxUpdate)
          /\ \A i \in 1 .. Len(AnswerFrom(first)) : AnswerFrom(first)[i] <= arrived
      BY <1>0, <2>1, AnswerLemma
    <2> QED
      BY <1>0, <1>9, <2>1, <2>2, LoopTypes DEF Answer, Labels, source, app, ends
  <1>10. ASSUME NEW l \in Loops, AnswerLost(l) PROVE TypeOK' /\ Existing' /\ HasBatch'
    <2>1. confirmed' \in 1 .. MaxUpdate + 1 /\ confirmed' <= arrived + 1
      BY <1>0, <1>10, ConfirmedLemma DEF AnswerLost
    <2>2. batch' = [batch EXCEPT ![l] = batch[l]]
      BY <1>10, BatchUnchanged DEF AnswerLost
    <2>3. budget' \in Budgets
      BY <1>0, <1>10, SpendLemma DEF AnswerLost
    <2>4. PICK label \in {"asking", "off"} : pc' = [pc EXCEPT ![l] = label]
      BY <1>10 DEF AnswerLost
    <2> QED
      BY <1>0, <1>10, <2>1, <2>2, <2>3, <2>4, BatchUnchanged, LoopTypes
         DEF AnswerLost, Labels, source, app, ends
  <1>11. ASSUME NEW l \in Loops, BatchDone(l) PROVE TypeOK' /\ Existing' /\ HasBatch'
    <2>1. batch' = [batch EXCEPT ![l] = batch[l]]
      BY <1>11, BatchUnchanged DEF BatchDone
    <2> QED
      BY <1>0, <1>11, <2>1, BatchUnchanged, LoopTypes
         DEF BatchDone, Labels, server, source, app, ends
  <1>12. ASSUME NEW l \in Loops, Take(l) PROVE TypeOK' /\ Existing' /\ HasBatch'
    <2>1. batch[l] # <<>>
      BY <1>12 DEF Take
    <2>2. /\ offset' \in 0 .. MaxUpdate + 1 /\ offset' <= arrived + 1
          /\ taken' \in Seq(1 .. MaxUpdate) /\ dropped' \subseteq 1 .. MaxUpdate
      <3>1. Update(l) \in 1 .. MaxUpdate /\ Update(l) <= arrived
        BY <2>1, BatchLemma
      <3>2. offset' = Update(l) + 1
        BY <1>12 DEF Take, NextOffset
      <3>3. taken' = taken \/ taken' = Append(taken, Update(l))
        BY <1>12 DEF Take
      <3>4. taken' \in Seq(1 .. MaxUpdate)
        <4>1. taken \in Seq(1 .. MaxUpdate)
          BY DEF TypeOK
        <4>2. Append(taken, Update(l)) \in Seq(1 .. MaxUpdate)
          BY <3>1, <4>1, AppendProperties
        <4> QED
          BY <3>3, <4>1, <4>2
      <3>5. dropped' \subseteq dropped \cup {Update(l)}
        BY <1>12 DEF Take
      <3> QED
        BY <1>0, <3>1, <3>2, <3>4, <3>5, PollingRuntimeAssumption
    <2>3. /\ Tail(batch[l]) \in Seq(1 .. MaxUpdate)
          /\ \A i \in 1 .. Len(Tail(batch[l])) : Tail(batch[l])[i] <= arrived
      <3>1. \A i \in 1 .. Len(Tail(batch[l])) : i + 1 \in 1 .. Len(batch[l])
        BY <2>1, BatchLemma
      <3> QED
        BY <2>1, <3>1, BatchLemma, BatchUnchanged
    <2>4. CASE pc' = pc /\ batch' = [batch EXCEPT ![l] = Tail(@)]
      <3>1. pc' = [pc EXCEPT ![l] = "batch"]
        BY <1>12, <2>4 DEF Take, TypeOK
      <3> QED
        BY <1>0, <1>12, <2>2, <2>3, <2>4, <3>1, LoopTypes
           DEF Take, Labels, server, app
    <2>5. CASE pc' = [pc EXCEPT ![l] = "handling"] /\ batch' = batch
      <3>1. batch' = [batch EXCEPT ![l] = batch[l]]
        BY <2>5, BatchUnchanged
      <3> QED
        BY <1>0, <1>12, <2>1, <2>2, <2>5, <3>1, BatchUnchanged, LoopTypes
           DEF Take, Labels, server, app
    <2> QED
      BY <1>12, <2>4, <2>5 DEF Take
  <1>13. ASSUME NEW l \in Loops, NEW label \in {"batch", "off"}, Settle(l, label),
                UNCHANGED <<server, source, asked, isRunning, stopper, taken>>,
                done' \subseteq done \cup {Update(l)},
                dropped' \subseteq dropped \cup {Update(l)},
                failed' \subseteq failed \cup {Update(l)}, budget' \in Budgets
         PROVE  TypeOK' /\ Existing' /\ HasBatch'
    <2>1. batch[l] # <<>>
      BY <1>13 DEF Settle, HasBatch
    <2>2. Update(l) \in 1 .. MaxUpdate
      BY <2>1, BatchLemma
    <2>3. /\ done' \subseteq 1 .. MaxUpdate /\ dropped' \subseteq 1 .. MaxUpdate
          /\ failed' \subseteq 1 .. MaxUpdate
      BY <1>0, <1>13, <2>2
    <2>4. /\ Tail(batch[l]) \in Seq(1 .. MaxUpdate)
          /\ \A i \in 1 .. Len(Tail(batch[l])) : Tail(batch[l])[i] <= arrived
      <3>1. \A i \in 1 .. Len(Tail(batch[l])) : i + 1 \in 1 .. Len(batch[l])
        BY <2>1, BatchLemma
      <3> QED
        BY <2>1, <3>1, BatchLemma, BatchUnchanged
    <2>5. awaited' \subseteq Loops /\ pc' = [pc EXCEPT ![l] = label]
          /\ batch' = [batch EXCEPT ![l] = Tail(batch[l])]
      BY <1>0, <1>13 DEF Settle
    <2> QED
      BY <1>0, <1>13, <2>3, <2>4, <2>5, LoopTypes DEF Labels, server, source
  <1>14. ASSUME NEW l \in Loops, Handled(l) PROVE TypeOK' /\ Existing' /\ HasBatch'
    <2>1. done' \subseteq done \cup {Update(l)} /\ dropped' \subseteq dropped \cup {Update(l)}
      BY <1>14 DEF Handled
    <2> QED
      BY <1>0, <1>13, <1>14, <2>1 DEF Handled
  <1>15. ASSUME NEW l \in Loops, Swallowed(l) PROVE TypeOK' /\ Existing' /\ HasBatch'
    BY <1>0, <1>13, <1>15, SpendLemma DEF Swallowed
  <1>16. ASSUME NEW l \in Loops, Rejected(l) PROVE TypeOK' /\ Existing' /\ HasBatch'
    BY <1>0, <1>13, <1>16, SpendLemma DEF Rejected
  <1> QED
    BY <1>1, <1>2, <1>3, <1>4, <1>5, <1>6, <1>7, <1>8, <1>9, <1>10, <1>11, <1>12,
       <1>14, <1>15, <1>16 DEF Next, Run

LEMMA Types == Spec => [](TypeOK /\ Existing /\ HasBatch)
  <1>1. Init => TypeOK /\ Existing /\ HasBatch
    <2> SUFFICES ASSUME Init PROVE TypeOK /\ Existing /\ HasBatch
      OBVIOUS
    <2>1. batch \in [Loops -> Seq(1 .. MaxUpdate)] /\ taken \in Seq(1 .. MaxUpdate)
      BY DEF Init
    <2>2. budget \in Budgets
      BY PollingRuntimeAssumption DEF Init, Budgets
    <2>3. arrived \in 0 .. MaxUpdate /\ confirmed \in 1 .. MaxUpdate + 1
          /\ offset \in 0 .. MaxUpdate + 1 /\ asked \in [Loops -> 0 .. MaxUpdate + 1]
      BY PollingRuntimeAssumption DEF Init
    <2>4. TypeOK
      BY <2>1, <2>2, <2>3 DEF Init, TypeOK, Budgets
    <2>5. /\ confirmed <= arrived + 1 /\ offset <= arrived + 1
          /\ \A l \in Loops : asked[l] <= arrived + 1
      BY DEF Init
    <2>6. \A l \in Loops : Len(batch[l]) = 0 /\ pc[l] = "off"
      BY DEF Init
    <2>7. Existing
      BY <2>5, <2>6 DEF Existing
    <2> QED
      BY <2>4, <2>6, <2>7 DEF HasBatch
  <1> QED
    BY <1>1, TypeStep, PTL DEF Spec

\* The state keeps its types: in particular the offset never runs ahead of Telegram,
\* and no poll acknowledges an update that does not exist.
THEOREM TypeCorrect == Spec => []TypeOK
  BY Types, PTL

-------------------------------------------------------------------------------
(* Acknowledgement and order, with one loop at a time.                     *)

\* Settled only grows.
LEMMA SettledGrows ==
  ASSUME [Next]_vars PROVE Settled \subseteq Settled'
  BY DEF Next, Run, Stop, Arrive, Start, Poll, Answer, AnswerLost, BatchDone, Take, Handled,
     Swallowed, Rejected, StopSource, StopAwaitsPending, StopResolves, Abort, Crash, vars,
     ends, Settled

LEMMA EndedGrows ==
  ASSUME NEW u, NEW S, NEW T, S \subseteq T, Ended(u, S) PROVE Ended(u, T)
  BY DEF Ended

LEMMA EndedNext ==
  ASSUME NEW u \in Nat, NEW S, NEW T, S \subseteq T, Ended(u, S), u \in T
  PROVE  Ended(u + 1, T)
  BY DEF Ended

\* What is left of a batch starts right after its head.
LEMMA TailLemma ==
  ASSUME TypeOK, Existing, NEW l \in Loops, batch[l] # <<>>, Consecutive(batch[l])
  PROVE  /\ Consecutive(Tail(batch[l]))
         /\ Tail(batch[l]) # <<>> => Head(Tail(batch[l])) = Update(l) + 1
  <1> DEFINE b == batch[l]
             t == Tail(b)
  <1>1. /\ Update(l) \in Nat /\ Update(l) = b[1] /\ t \in Seq(1 .. MaxUpdate)
        /\ Len(b) \in Nat /\ Len(t) = Len(b) - 1
        /\ \A i \in 1 .. Len(t) : t[i] = b[i + 1]
    BY BatchLemma
  <1>2. \A i \in 1 .. Len(b) : b[i] = b[1] + i - 1
    BY DEF Consecutive
  <1> HIDE DEF b, t
  <1>3. ASSUME NEW i \in 1 .. Len(t) PROVE t[i] = Update(l) + i
    <2>1. i + 1 \in 1 .. Len(b) /\ t[i] = b[i + 1]
      BY <1>1
    <2>2. b[i + 1] = b[1] + (i + 1) - 1
      BY <1>2, <2>1
    <2> QED
      BY <1>1, <2>1, <2>2
  <1>4. Consecutive(t)
    <2> SUFFICES ASSUME NEW i \in 1 .. Len(t) PROVE t[i] = t[1] + i - 1
      BY DEF Consecutive
    <2>1. Len(t) \in Nat /\ 1 \in 1 .. Len(t)
      BY <1>1
    <2> QED
      BY <1>1, <1>3, <2>1
  <1>5. ASSUME t # <<>> PROVE Head(t) = Update(l) + 1
    <2>1. Head(t) = t[1] /\ Len(t) \in Nat /\ Len(t) > 0
      BY <1>1, <1>5, HeadLemma
    <2> QED
      BY <1>3, <2>1
  <1> QED
    BY <1>4, <1>5 DEF b, t

\* The invariant with one loop.
OneInv ==
  /\ Single /\ Ended(confirmed, Settled) /\ Offset /\ Taken
  /\ \A l \in Loops : Position(l)

\* A step of loop l, the others being off.
LEMMA OneStep ==
  ASSUME NEW l \in Loops, \A k \in Loops : k # l => pc'[k] = "off",
         Position(l)', pc'[l] # "handling" => Ended(offset', Settled'),
         Ended(confirmed', Settled'), Taken'
  PROVE  OneInv'
  BY DEF OneInv, Single, Offset, Position

\* A step that leaves the loops, the offset and the updates alone.
LEMMA OneStays ==
  ASSUME OneInv, [Next]_vars,
         pc' = pc, asked' = asked, batch' = batch, offset' = offset,
         confirmed' = confirmed, taken' = taken
  PROVE  OneInv'
  <1>1. Settled \subseteq Settled'
    BY SettledGrows
  <1>2. Ended(confirmed', Settled') /\ Single' /\ Taken'
    BY <1>1, EndedGrows DEF OneInv, Single, Taken
  <1>3. Offset'
    BY <1>1, EndedGrows DEF OneInv, Offset
  <1>4. ASSUME NEW l \in Loops PROVE Position(l)'
    <2>1. Update(l)' = Update(l)
      BY DEF Update
    <2>2. Position(l)
      BY DEF OneInv
    <2> QED
      BY <1>1, <2>1, <2>2, EndedGrows DEF Position
  <1> QED
    BY <1>2, <1>3, <1>4 DEF OneInv

LEMMA OneNext ==
  ASSUME OneLoop, TypeOK, Existing, HasBatch, OneInv, [Next]_vars
  PROVE  OneInv'
  <1>0. Settled \subseteq Settled' /\ Ended(confirmed, Settled')
    BY SettledGrows, EndedGrows DEF OneInv
  <1>1. offset \in Nat /\ confirmed \in Nat /\ taken \in Seq(1 .. MaxUpdate)
    BY PollingRuntimeAssumption DEF TypeOK
  <1>2. ASSUME NEW l \in Loops, pc[l] # "off"
        PROVE  /\ \A k \in Loops : k # l => pc[k] = "off"
               /\ pc[l] # "handling" => Ended(offset, Settled) /\ Ended(offset, Settled')
    <2>1. \A k \in Loops : k # l => pc[k] = "off"
      BY <1>2 DEF OneInv, Single
    <2>2. pc[l] # "handling" => Ended(offset, Settled)
      BY <2>1 DEF OneInv, Offset
    <2> QED
      BY <1>0, <2>1, <2>2, EndedGrows
  <1>3. CASE UNCHANGED vars \/ Arrive \/ StopSource \/ Stop \/ Abort
    <2>1. /\ UNCHANGED <<pc, asked, batch>> /\ offset' = offset /\ confirmed' = confirmed
          /\ taken' = taken
      BY <1>3 DEF vars, server, source, loops, Arrive, StopSource, Stop, StopAwaitsPending,
         StopResolves, Abort
    <2> QED
      BY <2>1, OneStays
  <1>4. CASE Crash
    <2>1. /\ \A k \in Loops : pc'[k] = "off"
          /\ offset' = 0 /\ confirmed' = confirmed /\ taken' = <<>>
      BY <1>4 DEF Crash, server
    <2>2. Ended(offset', Settled')
      BY <2>1 DEF Ended
    <2>3. Taken'
      BY <2>1 DEF Taken
    <2> QED
      BY <1>0, <2>1, <2>2, <2>3 DEF OneInv, Single, Offset, Position
  <1>5. ASSUME NEW l \in Loops, Start(l) PROVE OneInv'
    <2>1. /\ \A k \in Loops : pc[k] = "off"
          /\ pc' = [pc EXCEPT ![l] = "top"]
          /\ offset' = offset /\ confirmed' = confirmed /\ taken' = taken
      BY <1>5 DEF Start, server
    <2>2. pc'[l] = "top" /\ \A k \in Loops : k # l => pc'[k] = "off"
      BY <2>1 DEF TypeOK
    <2>3. Ended(offset', Settled')
      BY <1>0, <2>1, EndedGrows DEF OneInv, Offset
    <2>4. Taken'
      BY <2>1 DEF OneInv, Taken
    <2> QED
      BY <1>0, <2>1, <2>2, <2>3, <2>4, OneStep DEF Position
  <1>6. ASSUME NEW l \in Loops, Poll(l) PROVE OneInv'
    <2>1. /\ pc[l] = "top" /\ offset' = offset /\ confirmed' = confirmed /\ taken' = taken
      BY <1>6 DEF Poll, server, source
    <2>2. \/ pc' = [pc EXCEPT ![l] = "asking"] /\ asked' = [asked EXCEPT ![l] = offset]
          \/ pc' = [pc EXCEPT ![l] = "off"]
      BY <1>6 DEF Poll
    <2>3. \A k \in Loops : k # l => pc'[k] = "off"
      BY <1>2, <2>1, <2>2 DEF TypeOK
    <2>4. pc'[l] \in {"asking", "off"} /\ (pc'[l] = "asking" => asked'[l] = offset')
      BY <2>1, <2>2 DEF TypeOK
    <2>5. Ended(offset', Settled')
      BY <1>2, <2>1
    <2>6. Taken'
      BY <2>1 DEF OneInv, Taken
    <2> QED
      BY <1>0, <2>1, <2>3, <2>4, <2>5, <2>6, OneStep DEF Position
  <1>7. ASSUME NEW l \in Loops, pc[l] = "asking"
        PROVE  /\ Confirmed(asked[l]) \in 1 .. MaxUpdate + 1
               /\ Confirmed(asked[l]) <= arrived + 1
               /\ offset <= Confirmed(asked[l]) /\ asked[l] = offset
               /\ Ended(Confirmed(asked[l]), Settled')
    <2>1. asked[l] = offset
      BY <1>7 DEF OneInv, Position
    <2>2. asked[l] \in 0 .. MaxUpdate + 1 /\ asked[l] <= arrived + 1
      BY DEF TypeOK, Existing
    <2>3. /\ Confirmed(asked[l]) \in 1 .. MaxUpdate + 1
          /\ Confirmed(asked[l]) <= arrived + 1
          /\ Confirmed(asked[l]) \in {asked[l], confirmed} /\ asked[l] <= Confirmed(asked[l])
      BY <2>2, ConfirmedLemma
    <2>4. Ended(offset, Settled')
      BY <1>2, <1>7
    <2> QED
      BY <1>0, <2>1, <2>3, <2>4
  <1>8. ASSUME NEW l \in Loops, Answer(l) PROVE OneInv'
    <2> DEFINE first == Confirmed(asked[l])
               a == AnswerFrom(first)
    <2>1. /\ pc[l] = "asking" /\ pc' = [pc EXCEPT ![l] = "batch"]
          /\ batch' = [batch EXCEPT ![l] = a]
          /\ confirmed' = first /\ offset' = offset /\ taken' = taken
      BY <1>8 DEF Answer, source
    <2>2. /\ first \in 1 .. MaxUpdate + 1 /\ first <= arrived + 1
          /\ offset <= first /\ Ended(first, Settled')
      BY <1>7, <2>1
    <2>3. /\ a \in Seq(1 .. MaxUpdate)
          /\ \A i \in 1 .. Len(a) : a[i] = first + i - 1
      <3>1. arrived \in 0 .. MaxUpdate
        BY DEF TypeOK
      <3> QED
        BY <2>2, <3>1, AnswerLemma
    <2> HIDE DEF first, a
    <2>4. Consecutive(a)
      <3> SUFFICES ASSUME NEW i \in 1 .. Len(a) PROVE a[i] = a[1] + i - 1
        BY DEF Consecutive
      <3>1. Len(a) \in Nat /\ 1 \in 1 .. Len(a) /\ first \in Nat
        BY <2>2, <2>3, EmptySeq
      <3>2. a[i] = first + i - 1 /\ a[1] = first + 1 - 1
        BY <2>3, <3>1
      <3> QED
        BY <3>1, <3>2
    <2>5. ASSUME a # <<>> PROVE Head(a) = first
      <3>1. Head(a) = a[1] /\ Len(a) \in Nat /\ Len(a) > 0
        BY <2>3, <2>5, HeadLemma
      <3> QED
        BY <2>2, <2>3, <3>1
    <2>6. /\ pc'[l] = "batch" /\ batch'[l] = a
          /\ \A k \in Loops : k # l => pc'[k] = "off"
      BY <1>2, <2>1 DEF TypeOK
    <2>7. Position(l)'
      BY <2>1, <2>2, <2>4, <2>5, <2>6 DEF Position, Update
    <2>8. Ended(offset', Settled') /\ Ended(confirmed', Settled')
      BY <1>2, <2>1, <2>2
    <2>9. Taken'
      BY <2>1 DEF OneInv, Taken
    <2> QED
      BY <2>6, <2>7, <2>8, <2>9, OneStep
  <1>9. ASSUME NEW l \in Loops, AnswerLost(l) PROVE OneInv'
    <2>1. /\ pc[l] = "asking" /\ \E label \in {"asking", "off"} : pc' = [pc EXCEPT ![l] = label]
          /\ confirmed' \in {confirmed, Confirmed(asked[l])}
          /\ asked' = asked /\ offset' = offset /\ taken' = taken
      BY <1>9 DEF AnswerLost, source
    <2>2. pc'[l] \in {"asking", "off"} /\ \A k \in Loops : k # l => pc'[k] = "off"
      BY <1>2, <2>1 DEF TypeOK
    <2>3. Ended(confirmed', Settled') /\ asked'[l] = offset'
      BY <1>0, <1>7, <2>1
    <2>4. Ended(offset', Settled')
      BY <1>2, <2>1
    <2>5. Position(l)' /\ Taken'
      BY <2>1, <2>2, <2>3 DEF OneInv, Taken, Position
    <2> QED
      BY <2>2, <2>3, <2>4, <2>5, OneStep
  <1>10. ASSUME NEW l \in Loops, BatchDone(l) PROVE OneInv'
    <2>1. /\ pc[l] = "batch" /\ pc' = [pc EXCEPT ![l] = "top"]
          /\ confirmed' = confirmed /\ offset' = offset /\ taken' = taken
      BY <1>10 DEF BatchDone, server, source
    <2>2. pc'[l] = "top" /\ \A k \in Loops : k # l => pc'[k] = "off"
      BY <1>2, <2>1 DEF TypeOK
    <2>3. Ended(offset', Settled') /\ Ended(confirmed', Settled')
      BY <1>0, <1>2, <2>1
    <2>4. Position(l)' /\ Taken'
      BY <2>1, <2>2 DEF OneInv, Taken, Position
    <2> QED
      BY <2>2, <2>3, <2>4, OneStep
  <1>11. ASSUME NEW l \in Loops, Take(l) PROVE OneInv'
    <2> DEFINE u == Update(l)
    <2>1. /\ pc[l] = "batch" /\ batch[l] # <<>> /\ offset' = u + 1 /\ confirmed' = confirmed
      BY <1>11 DEF Take, NextOffset, server
    <2>2. /\ Consecutive(batch[l]) /\ offset <= u /\ Ended(u, Settled) /\ Ended(u, Settled')
      BY <1>0, <2>1, EndedGrows DEF OneInv, Position
    <2>3. u \in Nat /\ u \in 1 .. MaxUpdate
      BY <2>1, BatchLemma
    <2> HIDE DEF u
    <2>4. CASE /\ dropped' = dropped \cup {u} /\ batch' = [batch EXCEPT ![l] = Tail(@)]
               /\ pc' = pc /\ taken' = taken
      <3>1. u \in Settled'
        BY <2>4 DEF Settled
      <3>2. Ended(u + 1, Settled')
        BY <1>0, <2>2, <2>3, <3>1, EndedNext
      <3>3. /\ pc'[l] = "batch" /\ batch'[l] = Tail(batch[l])
            /\ \A k \in Loops : k # l => pc'[k] = "off"
        BY <1>2, <2>1, <2>4 DEF TypeOK
      <3>4. /\ Consecutive(Tail(batch[l]))
            /\ Tail(batch[l]) # <<>> => Head(Tail(batch[l])) = u + 1
        BY <2>1, <2>2, TailLemma DEF u
      <3>5. Position(l)'
        BY <2>1, <2>3, <3>2, <3>3, <3>4 DEF Position, Update
      <3>6. Taken'
        <4>1. \A i \in 1 .. Len(taken) : taken[i] < u + 1
          <5> SUFFICES ASSUME NEW i \in 1 .. Len(taken) PROVE taken[i] < u + 1
            OBVIOUS
          <5>1. taken[i] \in 1 .. MaxUpdate
            BY <1>1, ElementOfSeq
          <5>2. taken[i] < offset
            BY DEF OneInv, Taken
          <5> QED
            BY <1>1, <2>2, <2>3, <5>1, <5>2
        <4> QED
          BY <2>1, <2>4, <4>1 DEF OneInv, Taken
      <3> QED
        BY <1>0, <2>1, <3>2, <3>3, <3>5, <3>6, OneStep
    <2>5. CASE pc' = [pc EXCEPT ![l] = "handling"] /\ taken' = Append(taken, u) /\ batch' = batch
      <3>1. pc'[l] = "handling" /\ \A k \in Loops : k # l => pc'[k] = "off"
        BY <1>2, <2>1, <2>5 DEF TypeOK
      <3>2. Update(l)' = u
        BY <2>5 DEF Update, u
      <3>3. Position(l)'
        BY <2>1, <2>2, <2>5, <3>1, <3>2 DEF Position
      <3>4. Taken'
        <4>1. /\ Len(taken) \in Nat /\ Len(taken') = Len(taken) + 1
              /\ taken'[Len(taken) + 1] = u
              /\ \A i \in 1 .. Len(taken) : taken'[i] = taken[i]
          BY <1>1, <2>3, <2>5, AppendProperties
        <4>2. ASSUME NEW i \in 1 .. Len(taken) PROVE taken[i] \in Nat /\ taken[i] < u
          <5>1. taken[i] \in 1 .. MaxUpdate
            BY <1>1, ElementOfSeq
          <5>2. taken[i] < offset
            BY DEF OneInv, Taken
          <5> QED
            BY <1>1, <2>2, <2>3, <5>1, <5>2
        <4>3. \A i \in 1 .. Len(taken') : i \in 1 .. Len(taken) \/ i = Len(taken) + 1
          BY <4>1
        <4>4. \A i \in 1 .. Len(taken') : taken'[i] < offset'
          BY <2>1, <2>3, <4>1, <4>2, <4>3
        <4>5. ASSUME NEW i \in 1 .. Len(taken'), NEW j \in 1 .. Len(taken'), i < j
              PROVE  taken'[i] < taken'[j]
          <5>1. i \in 1 .. Len(taken)
            BY <4>1, <4>5
          <5>2. CASE j = Len(taken) + 1
            BY <4>1, <4>2, <5>1, <5>2
          <5>3. CASE j \in 1 .. Len(taken)
            <6>1. taken[i] < taken[j]
              BY <4>5, <5>1, <5>3 DEF OneInv, Taken
            <6> QED
              BY <4>1, <5>1, <5>3, <6>1
          <5> QED
            BY <4>3, <5>2, <5>3
        <4> QED
          BY <4>4, <4>5 DEF Taken
      <3> QED
        BY <1>0, <2>1, <3>1, <3>3, <3>4, OneStep
    <2> QED
      BY <1>11, <2>4, <2>5 DEF Take, u
  <1>12. ASSUME NEW l \in Loops, NEW label \in {"batch", "off"}, Settle(l, label),
                Update(l) \in Settled',
                offset' = offset, confirmed' = confirmed, taken' = taken
         PROVE  OneInv'
    <2> DEFINE u == Update(l)
    <2>1. /\ pc[l] = "handling" /\ pc' = [pc EXCEPT ![l] = label]
          /\ batch' = [batch EXCEPT ![l] = Tail(batch[l])]
      BY <1>12 DEF Settle
    <2>2. /\ Consecutive(batch[l]) /\ batch[l] # <<>> /\ offset = u + 1 /\ Ended(u, Settled)
      BY <2>1 DEF OneInv, Position
    <2>3. u \in Nat
      BY <2>2, BatchLemma
    <2>4. Ended(u + 1, Settled')
      BY <1>0, <1>12, <2>2, <2>3, EndedNext
    <2>5. /\ Consecutive(Tail(batch[l]))
          /\ Tail(batch[l]) # <<>> => Head(Tail(batch[l])) = u + 1
      BY <2>2, TailLemma
    <2> HIDE DEF u
    <2>6. /\ pc'[l] = label /\ batch'[l] = Tail(batch[l])
          /\ \A k \in Loops : k # l => pc'[k] = "off"
      BY <1>2, <2>1 DEF TypeOK
    <2>7. Position(l)'
      BY <1>1, <1>12, <2>2, <2>3, <2>4, <2>5, <2>6 DEF Position, Update
    <2>8. Taken'
      BY <1>12 DEF OneInv, Taken
    <2> QED
      BY <1>0, <1>12, <2>2, <2>4, <2>6, <2>7, <2>8, OneStep
  <1>13. ASSUME NEW l \in Loops, Handled(l) PROVE OneInv'
    BY <1>12, <1>13 DEF Handled, Settled, server, source
  <1>14. ASSUME NEW l \in Loops, Swallowed(l) PROVE OneInv'
    BY <1>12, <1>14 DEF Swallowed, Settled, server, source
  <1>15. ASSUME NEW l \in Loops, Rejected(l) PROVE OneInv'
    BY <1>12, <1>15 DEF Rejected, Settled, server, source
  <1> QED
    BY <1>3, <1>4, <1>5, <1>6, <1>8, <1>9, <1>10, <1>11, <1>13, <1>14, <1>15 DEF Next, Run

LEMMA OneInvariant == OneLoop => (Spec => []OneInv)
  <1> SUFFICES ASSUME OneLoop PROVE Spec => []OneInv
    OBVIOUS
  <1>1. Init => OneInv
    BY DEF Init, OneInv, Single, Ended, Offset, Taken, Position
  <1>2. TypeOK /\ Existing /\ HasBatch /\ OneInv /\ [Next]_vars => OneInv'
    BY OneNext
  <1> QED
    BY <1>1, <1>2, Types, PTL DEF Spec

\* With one loop at a time the offset that a poll sends acknowledges nothing that has
\* not ended: the loop moves the offset before it runs the handler, but does not ask
\* again before the handler has settled.
THEOREM AcknowledgedSettled == OneLoop => (Spec => []AcknowledgedOnlySettled)
  <1>1. TypeOK /\ OneInv => AcknowledgedOnlySettled
    BY DEF OneInv, Ended, AcknowledgedOnlySettled
  <1> QED
    BY <1>1, TypeCorrect, OneInvariant, PTL

\* With one loop at a time a process hands each update over once and in order, and
\* never before every earlier update has ended.
THEOREM InOrder == OneLoop => (Spec => []HandledOnceInOrder)
  <1>1. OneInv => HandledOnceInOrder
    BY DEF OneInv, Taken, Position, Ended, HandledOnceInOrder
  <1> QED
    BY <1>1, OneInvariant, PTL

===============================================================================
