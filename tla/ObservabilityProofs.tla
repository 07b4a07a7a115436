------------------------- MODULE ObservabilityProofs -------------------------
(***************************************************************************)
(* What packages/observability guarantees.  ExportManager, for any queue   *)
(* size, number of retries, threshold and number of items: flushes lose    *)
(* nothing, and what they put back is bounded by how many of them failed.  *)
(* Telemetry, for any calls, events, limits and sampling: every update is  *)
(* counted or its drop is, and the traces of concurrent calls do not mix.  *)
(***************************************************************************)
EXTENDS ExportManager, Telemetry, FiniteSetTheorems, SequenceTheorems,
        WellFoundedInduction, TLAPS

-------------------------------------------------------------------------------
(* The export manager.                                                     *)

Increasing(sequence) ==
  \A i, j \in DOMAIN sequence : i < j => sequence[i] < sequence[j]

-------------------------------------------------------------------------------
(* Sequences of items.                                                     *)

LEMMA ConcatLemma ==
  ASSUME NEW s \in Seq(Nat), NEW t \in Seq(Nat)
  PROVE  /\ s \o t \in Seq(Nat)
         /\ Len(s \o t) = Len(s) + Len(t)
         /\ \A i \in 1 .. Len(s) : (s \o t)[i] = s[i]
         /\ \A i \in 1 .. Len(t) : (s \o t)[Len(s) + i] = t[i]
  OBVIOUS

LEMMA ItemsLemma ==
  ASSUME NEW s \in Seq(Nat)
  PROVE  /\ Items(s) \subseteq Nat
         /\ \A x : x \in Items(s) <=> \E i \in 1 .. Len(s) : x = s[i]
  <1>1. DOMAIN s = 1 .. Len(s) /\ \A i \in 1 .. Len(s) : s[i] \in Nat
    OBVIOUS
  <1> QED
    BY <1>1 DEF Items

LEMMA IncreasingLemma ==
  ASSUME NEW s \in Seq(Nat)
  PROVE  Increasing(s) <=> \A i, j \in 1 .. Len(s) : i < j => s[i] < s[j]
  <1>1. DOMAIN s = 1 .. Len(s)
    OBVIOUS
  <1> QED
    BY <1>1 DEF Increasing

\* The items of a concatenation are those of its parts.
LEMMA ItemsOfConcat ==
  ASSUME NEW s \in Seq(Nat), NEW t \in Seq(Nat)
  PROVE  Items(s \o t) = Items(s) \cup Items(t)
  <1> DEFINE c == s \o t
  <1>0. /\ c \in Seq(Nat) /\ Len(c) = Len(s) + Len(t)
        /\ \A i \in 1 .. Len(s) : c[i] = s[i]
        /\ \A i \in 1 .. Len(t) : c[Len(s) + i] = t[i]
        /\ Len(s) \in Nat /\ Len(t) \in Nat
    BY ConcatLemma
  <1> HIDE DEF c
  <1>1. ASSUME NEW x, x \in Items(s) PROVE x \in Items(c)
    <2>1. PICK i \in 1 .. Len(s) : x = s[i]
      BY <1>1, ItemsLemma
    <2>2. i \in 1 .. Len(c) /\ x = c[i]
      BY <1>0, <2>1
    <2> QED
      BY <1>0, <2>2, ItemsLemma
  <1>2. ASSUME NEW x, x \in Items(t) PROVE x \in Items(c)
    <2>1. PICK i \in 1 .. Len(t) : x = t[i]
      BY <1>2, ItemsLemma
    <2>2. Len(s) + i \in 1 .. Len(c) /\ x = c[Len(s) + i]
      <3>1. Len(s) + i \in 1 .. Len(c)
        BY <1>0
      <3>2. x = c[Len(s) + i]
        BY <1>0, <2>1
      <3> QED
        BY <3>1, <3>2
    <2> QED
      BY <1>0, <2>2, ItemsLemma
  <1>3. ASSUME NEW x, x \in Items(c) PROVE x \in Items(s) \cup Items(t)
    <2>1. PICK i \in 1 .. Len(s) + Len(t) : x = c[i]
      <3>1. c \in Seq(Nat) /\ Len(c) = Len(s) + Len(t)
        BY <1>0
      <3>2. PICK j \in 1 .. Len(c) : x = c[j]
        BY <1>3, <3>1, ItemsLemma
      <3> QED
        BY <3>1, <3>2
    <2>2. CASE i <= Len(s)
      <3>1. i \in 1 .. Len(s) /\ x = s[i]
        BY <1>0, <2>1, <2>2
      <3> QED
        BY <3>1, ItemsLemma
    <2>3. CASE i > Len(s)
      <3>1. i - Len(s) \in 1 .. Len(t) /\ Len(s) + (i - Len(s)) = i
        BY <1>0, <2>1, <2>3
      <3>2. x = t[i - Len(s)]
        BY <1>0, <2>1, <3>1
      <3> QED
        BY <3>1, <3>2, ItemsLemma
    <2> QED
      BY <1>0, <2>1, <2>2, <2>3
  <1> QED
    BY <1>1, <1>2, <1>3 DEF c

\* The end of an increasing sequence is increasing.
LEMMA SuffixIncreasing ==
  ASSUME NEW s \in Seq(Nat), NEW t \in Seq(Nat), Increasing(s \o t)
  PROVE  Increasing(t)
  <1> SUFFICES ASSUME NEW i \in 1 .. Len(t), NEW j \in 1 .. Len(t), i < j
               PROVE  t[i] < t[j]
    BY IncreasingLemma
  <1>1. /\ Len(s) + i \in 1 .. Len(s \o t)
        /\ Len(s) + j \in 1 .. Len(s \o t)
        /\ Len(s) + i < Len(s) + j
    BY ConcatLemma
  <1>2. (s \o t)[Len(s) + i] < (s \o t)[Len(s) + j]
    BY <1>1, ConcatLemma, IncreasingLemma
  <1> QED
    BY <1>2, ConcatLemma

\* A larger item behind an increasing sequence.
LEMMA AppendIncreasing ==
  ASSUME NEW s \in Seq(Nat), NEW n \in Nat, Increasing(s), Items(s) \subseteq 1 .. n
  PROVE  /\ Append(s, n + 1) \in Seq(Nat)
         /\ Increasing(Append(s, n + 1))
         /\ Items(Append(s, n + 1)) = Items(s) \cup {n + 1}
  <1> DEFINE a == Append(s, n + 1)
  <1>1. /\ a \in Seq(Nat) /\ Len(a) = Len(s) + 1
        /\ \A i \in 1 .. Len(s) : a[i] = s[i]
        /\ a[Len(s) + 1] = n + 1
        /\ Len(s) \in Nat
    OBVIOUS
  <1> HIDE DEF a
  <1>2. \A i \in 1 .. Len(s) : s[i] \in Nat /\ s[i] <= n
    BY ItemsLemma
  <1>3. Increasing(a)
    <2> SUFFICES ASSUME NEW i \in 1 .. Len(a), NEW j \in 1 .. Len(a), i < j
                 PROVE  a[i] < a[j]
      BY <1>1, IncreasingLemma
    <2>1. i \in 1 .. Len(s) /\ a[i] = s[i]
      <3>1. i \in 1 .. Len(s)
        BY <1>1
      <3> QED
        BY <1>1, <3>1
    <2>2. CASE j \in 1 .. Len(s)
      BY <1>1, <2>1, <2>2, IncreasingLemma
    <2>3. CASE j = Len(s) + 1
      BY <1>1, <1>2, <2>1, <2>3
    <2>4. j \in 1 .. Len(s) \/ j = Len(s) + 1
      <3>1. j \in 1 .. Len(s) + 1 /\ Len(s) \in Nat
        BY <1>1
      <3> QED
        BY <3>1
    <2> QED
      BY <2>2, <2>3, <2>4
  <1>4. ASSUME NEW x PROVE x \in Items(a) <=> x \in Items(s) \cup {n + 1}
    <2>1. x \in Items(a) <=> \E i \in 1 .. Len(s) + 1 : x = a[i]
      BY <1>1, ItemsLemma
    <2>2. x \in Items(s) <=> \E i \in 1 .. Len(s) : x = s[i]
      BY ItemsLemma
    <2>3. (\E i \in 1 .. Len(s) + 1 : x = a[i])
            <=> (\E i \in 1 .. Len(s) : x = a[i]) \/ x = a[Len(s) + 1]
      BY <1>1
    <2> QED
      BY <1>1, <2>1, <2>2, <2>3
  <1> QED
    BY <1>1, <1>3, <1>4 DEF a

-------------------------------------------------------------------------------
(* Types.                                                                  *)

\* An attempt follows another only while retries are left.
RetriesLeft == pc = "waiting" => attempt < MaxRetries

\* The state keeps its types: in particular a flush never makes more attempts than
\* its retries allow, and only items that were offered are accepted.
THEOREM TypeCorrect == Spec => []TypeOK
  <1> USE ExportManagerAssumption
  <1>1. Init => TypeOK /\ RetriesLeft
    <2> SUFFICES ASSUME Init PROVE TypeOK /\ RetriesLeft
      OBVIOUS
    <2>1. queue \in Seq(Nat) /\ batch \in Seq(Nat)
      BY DEF Init
    <2>2. attempt \in 0 .. MaxRetries /\ late \subseteq SUBSET Nat /\ RetriesLeft
      BY DEF Init, RetriesLeft
    <2>3. accepted \subseteq 1 .. offered /\ exported \subseteq Nat
      BY DEF Init
    <2> QED
      BY <2>1, <2>2, <2>3 DEF Init, TypeOK
  <1>2. TypeOK /\ RetriesLeft /\ [Next]_vars => TypeOK' /\ RetriesLeft'
    <2> SUFFICES ASSUME TypeOK, RetriesLeft, [Next]_vars PROVE TypeOK' /\ RetriesLeft'
      OBVIOUS
    <2>0. /\ batch \o queue \in Seq(Nat) /\ Items(batch) \in SUBSET Nat
          /\ attempt \in Nat /\ failures + 1 \in Nat /\ exportErrors + 1 \in Nat
      BY ConcatLemma, ItemsLemma DEF TypeOK
    <2>1. CASE UNCHANGED vars
      BY <2>1 DEF vars, flush, TypeOK, RetriesLeft
    <2>2. CASE Start
      BY <2>2 DEF Start, flush, TypeOK, RetriesLeft
    <2>3. CASE Stop
      <3>1. stops' \in Nat
        BY <2>3 DEF Stop, TypeOK
      <3>2. timer' = FALSE /\ UNCHANGED <<queue, flush, late, failures, exportErrors>>
            /\ UNCHANGED <<dropped, circuit, offered, accepted, exported, faults>>
        BY <2>3 DEF Stop
      <3> QED
        BY <3>1, <3>2 DEF flush, TypeOK, RetriesLeft
    <2>4. CASE Enqueue
      <3>1. offered' \in Nat /\ offered' = offered + 1
        BY <2>4 DEF Enqueue, TypeOK
      <3>2. accepted' \subseteq 1 .. offered'
        <4>1. \A x \in accepted : x \in 1 .. offered
          BY DEF TypeOK
        <4>2. accepted' \subseteq accepted \cup {offered + 1}
          BY <2>4 DEF Enqueue
        <4>3. offered \in Nat
          BY DEF TypeOK
        <4> QED
          BY <3>1, <4>1, <4>2, <4>3
      <3>3. queue' \in Seq(Nat)
        <4>1. queue' = queue \/ queue' = Append(queue, offered + 1)
          BY <2>4 DEF Enqueue
        <4>2. queue \in Seq(Nat) /\ offered + 1 \in Nat
          BY DEF TypeOK
        <4> QED
          BY <4>1, <4>2
      <3>4. dropped' \in Nat
        <4>1. dropped' = dropped \/ dropped' = dropped + 1
          BY <2>4 DEF Enqueue
        <4> QED
          BY <4>1 DEF TypeOK
      <3> QED
        BY <2>4, <3>1, <3>2, <3>3, <3>4 DEF Enqueue, flush, TypeOK, RetriesLeft
    <2>5. CASE Tick
      BY <2>5 DEF Tick, BeginFlush, flush, TypeOK, RetriesLeft
    <2>6. CASE Flush
      BY <2>6 DEF Flush, BeginFlush, flush, TypeOK, RetriesLeft
    <2>7. CASE FlushAndStop
      <3>1. stops' \in Nat
        BY <2>7 DEF FlushAndStop, TypeOK
      <3>0. timer' \in BOOLEAN
        BY <2>7 DEF FlushAndStop
      <3>2. CASE BeginFlush
        BY <2>7, <3>0, <3>1, <3>2 DEF FlushAndStop, BeginFlush, TypeOK, RetriesLeft
      <3>3. CASE UNCHANGED <<queue, flush, circuit>>
        BY <2>7, <3>0, <3>1, <3>3 DEF FlushAndStop, flush, TypeOK, RetriesLeft
      <3> QED
        BY <2>7, <3>2, <3>3 DEF FlushAndStop
    <2>8. CASE Elapse
      BY <2>8 DEF Elapse, flush, TypeOK, RetriesLeft
    <2>9. CASE Diagnostics
      BY <2>9 DEF Diagnostics, flush, TypeOK, RetriesLeft
    <2>10. CASE ExportSucceeds
      <3>1. exported' \subseteq Nat
        BY <2>10, <2>0 DEF ExportSucceeds, TypeOK
      <3> QED
        BY <2>10, <3>1 DEF ExportSucceeds, EndFlush, TypeOK, RetriesLeft
    <2>11. ASSUME GiveUp \/ Retry
           PROVE  /\ pc' \in {"idle", "waiting"} /\ queue' \in Seq(Nat)
                  /\ batch' \in Seq(Nat) /\ attempt' \in 0 .. MaxRetries
                  /\ circuit' \in {"closed", "open", "elapsed"}
                  /\ failures' \in Nat /\ exportErrors' \in Nat
                  /\ RetriesLeft'
      <3>1. CASE GiveUp
        BY <2>0, <3>1 DEF GiveUp, EndFlush, TypeOK, RetriesLeft
      <3>2. CASE Retry
        BY <3>2 DEF Retry, TypeOK, RetriesLeft
      <3> QED
        BY <2>11, <3>1, <3>2
    <2>12. CASE ExportFails
      <3>1. exported' \subseteq Nat /\ faults' \in Nat
        BY <2>12, <2>0 DEF ExportFails, TypeOK
      <3> QED
        BY <2>11, <2>12, <3>1 DEF ExportFails, TypeOK
    <2>13. CASE ExportTimesOut
      <3>1. late' \subseteq SUBSET Nat
        <4>1. late' = late \cup {Items(batch)} /\ late \subseteq SUBSET Nat
          BY <2>13 DEF ExportTimesOut, TypeOK
        <4> QED
          BY <2>0, <4>1, Zenon
      <3>2. faults' \in Nat
        BY <2>13 DEF ExportTimesOut, TypeOK
      <3> QED
        BY <2>11, <2>13, <3>1, <3>2 DEF ExportTimesOut, TypeOK
    <2>14. CASE NextAttempt
      BY <2>14 DEF NextAttempt, TypeOK, RetriesLeft
    <2>15. ASSUME NEW items \in late, LateSettles(items) PROVE TypeOK' /\ RetriesLeft'
      <3>1. items \in SUBSET Nat
        BY <2>15 DEF TypeOK
      <3>2. exported' \subseteq Nat /\ late' \subseteq SUBSET Nat
        BY <2>15, <3>1 DEF LateSettles, TypeOK
      <3> QED
        BY <2>15, <3>2 DEF LateSettles, flush, TypeOK, RetriesLeft
    <2> QED
      BY <2>1, <2>2, <2>3, <2>4, <2>5, <2>6, <2>7, <2>8, <2>9, <2>10, <2>12, <2>13,
         <2>14, <2>15 DEF Next, Settle
  <1> QED
    BY <1>1, <1>2, PTL DEF Spec

-------------------------------------------------------------------------------
(* Nothing is lost, and what is put back is bounded.                       *)

\* Between flushes there is no batch; while one runs, only what was enqueued since
\* is queued, and that is at most queueSize.
OneFlush ==
  /\ pc = "idle" => batch = <<>>
  /\ pc # "idle" => Len(queue) <= QueueSize

\* Pending items were accepted: they are not younger than the youngest one.
PendingOffered == Items(Pending) \subseteq 1 .. offered

IInv == TypeOK /\ OneFlush /\ PendingOffered /\ NothingLost /\ GrowsByFailedFlushes

\* A batch and the queue are increasing one behind the other or by themselves.
LEMMA PendingLemma ==
  ASSUME TypeOK
  PROVE  /\ Pending \in Seq(Nat)
         /\ Items(Pending) = Items(batch) \cup Items(queue)
         /\ batch = <<>> => Pending = queue
         /\ (\A i, j \in DOMAIN Pending : i < j => Pending[i] < Pending[j])
              <=> Increasing(Pending)
  <1>1. batch \in Seq(Nat) /\ queue \in Seq(Nat)
    BY DEF TypeOK
  <1>2. <<>> \o queue = queue
    BY <1>1
  <1> QED
    BY <1>1, <1>2, ConcatLemma, ItemsOfConcat DEF Pending, Increasing

\* queueSize bounds the queue at the end of a flush, one queueSize per failed flush.
LEMMA BoundLemma ==
  ASSUME NEW e \in Nat
  PROVE  /\ QueueSize * (e + 1) \in Nat
         /\ QueueSize <= QueueSize * (e + 1)
         /\ QueueSize * (e + 1 + 1) = QueueSize * (e + 1) + QueueSize
  <1>1. QueueSize * e \in Nat
    BY ExportManagerAssumption
  <1>2. QueueSize * (e + 1) = QueueSize * e + QueueSize
    BY ExportManagerAssumption
  <1>3. QueueSize * (e + 1 + 1) = QueueSize * e + QueueSize + QueueSize
    BY ExportManagerAssumption
  <1> QED
    BY <1>1, <1>2, <1>3, ExportManagerAssumption

\* The steps that move no item.
LEMMA QuietStep ==
  ASSUME IInv, TypeOK', exported \subseteq exported',
         UNCHANGED <<batch, queue, offered, accepted, dropped, exportErrors>>,
         pc' = "idle" <=> pc = "idle"
  PROVE  IInv'
  <1>1. OneFlush' /\ GrowsByFailedFlushes'
    BY DEF IInv, OneFlush, GrowsByFailedFlushes
  <1>2. Pending' = Pending
    BY DEF Pending
  <1>3. PendingOffered'
    BY <1>2 DEF IInv, PendingOffered, Items
  <1>4. (accepted \subseteq exported \cup Items(Pending))'
    <2>1. Items(Pending)' = Items(Pending)
      BY <1>2 DEF Items
    <2> QED
      BY <2>1 DEF IInv, NothingLost
  <1>5. NothingLost'
    BY <1>2, <1>4 DEF IInv, NothingLost
  <1> QED
    BY <1>1, <1>3, <1>5 DEF IInv

LEMMA EnqueueStep ==
  ASSUME IInv, TypeOK', Enqueue
  PROVE  IInv'
  <1>1. CASE Len(queue) >= QueueSize
    <2>1. /\ UNCHANGED <<batch, queue, accepted, exportErrors, exported, pc>>
          /\ dropped' = dropped + 1 /\ offered' = offered + 1
      BY <1>1 DEF Enqueue, flush
    <2>2. Pending' = Pending /\ Items(Pending)' = Items(Pending)
      BY <2>1 DEF Pending, Items
    <2>3. PendingOffered'
      <3>1. Items(Pending) \subseteq 1 .. offered /\ offered \in Nat
        BY DEF IInv, PendingOffered, TypeOK
      <3> QED
        BY <2>1, <2>2, <3>1 DEF PendingOffered
    <2>4. offered' = Cardinality(accepted') + dropped'
      <3>1. IsFiniteSet(accepted)
        <4>1. IsFiniteSet(1 .. offered)
          BY FS_Interval DEF IInv, TypeOK
        <4> QED
          BY <4>1, FS_Subset DEF IInv, TypeOK
      <3>2. Cardinality(accepted) \in Nat /\ dropped \in Nat
        BY <3>1, FS_CardinalityType DEF IInv, TypeOK
      <3>3. offered = Cardinality(accepted) + dropped
        BY DEF IInv, NothingLost
      <3> QED
        BY <2>1, <3>2, <3>3
    <2>5. NothingLost'
      BY <2>1, <2>2, <2>4 DEF IInv, NothingLost
    <2>6. OneFlush' /\ GrowsByFailedFlushes'
      BY <2>1 DEF IInv, OneFlush, GrowsByFailedFlushes
    <2> QED
      BY <2>3, <2>5, <2>6 DEF IInv
  <1>2. CASE ~(Len(queue) >= QueueSize)
    <2>1. /\ UNCHANGED <<batch, dropped, exportErrors, exported, pc>>
          /\ offered' = offered + 1
          /\ queue' = Append(queue, offered + 1)
          /\ accepted' = accepted \cup {offered + 1}
      BY <1>2 DEF Enqueue, flush
    <2>2. /\ batch \in Seq(Nat) /\ queue \in Seq(Nat) /\ offered \in Nat
          /\ accepted \subseteq 1 .. offered /\ dropped \in Nat /\ exportErrors \in Nat
      BY DEF IInv, TypeOK
    <2>3. /\ Pending \in Seq(Nat) /\ Increasing(Pending)
          /\ Items(Pending) \subseteq 1 .. offered
      BY PendingLemma DEF IInv, NothingLost, PendingOffered
    <2>4. Pending' = Append(Pending, offered + 1)
      <3>1. Append(queue, offered + 1) = queue \o <<offered + 1>>
        BY <2>2, AppendIsConcat
      <3>2. Append(batch \o queue, offered + 1) = (batch \o queue) \o <<offered + 1>>
        BY <2>2, AppendIsConcat, ConcatLemma
      <3>3. <<offered + 1>> \in Seq(Nat)
        BY <2>2
      <3>4. (batch \o queue) \o <<offered + 1>> = batch \o (queue \o <<offered + 1>>)
        BY <2>2, <3>3, ConcatAssociative
      <3> QED
        BY <2>1, <3>1, <3>2, <3>4 DEF Pending
    <2>5. /\ Increasing(Pending')
          /\ Items(Pending') = Items(Pending) \cup {offered + 1}
      BY <2>2, <2>3, <2>4, AppendIncreasing
    <2>6. PendingOffered'
      <3>1. \A x \in Items(Pending) : x \in 1 .. offered'
        BY <2>1, <2>2, <2>3
      <3>2. offered + 1 \in 1 .. offered'
        BY <2>1, <2>2
      <3> QED
        BY <2>5, <3>1, <3>2 DEF PendingOffered, Items
    <2>7. offered' = Cardinality(accepted') + dropped'
      <3>1. IsFiniteSet(accepted) /\ offered + 1 \notin accepted
        <4>1. IsFiniteSet(1 .. offered)
          BY <2>2, FS_Interval
        <4>2. offered + 1 \notin 1 .. offered
          BY <2>2
        <4> QED
          BY <2>2, <4>1, <4>2, FS_Subset
      <3>2. Cardinality(accepted') = Cardinality(accepted) + 1
        BY <2>1, <3>1, FS_AddElement
      <3>3. Cardinality(accepted) \in Nat
        BY <3>1, FS_CardinalityType
      <3>4. offered = Cardinality(accepted) + dropped
        BY DEF IInv, NothingLost
      <3> QED
        BY <2>1, <2>2, <3>2, <3>3, <3>4
    <2>8. accepted' \subseteq exported' \cup Items(Pending')
      <3>1. accepted \subseteq exported \cup Items(Pending)
        BY DEF IInv, NothingLost
      <3> QED
        BY <2>1, <2>5, <3>1
    <2>9. NothingLost'
      BY <2>5, <2>7, <2>8 DEF NothingLost, Increasing, Items
    <2>10. OneFlush' /\ GrowsByFailedFlushes'
      <3>1. Len(queue') = Len(queue) + 1 /\ Len(queue) \in Nat
        BY <2>1, <2>2
      <3>2. Len(queue') <= QueueSize
        BY <1>2, <3>1, ExportManagerAssumption
      <3>3. Len(queue') <= QueueSize * (exportErrors + 1)
        <4>1. /\ QueueSize <= QueueSize * (exportErrors + 1)
              /\ QueueSize * (exportErrors + 1) \in Nat
          BY <2>2, BoundLemma
        <4> QED
          BY <3>1, <3>2, <4>1, ExportManagerAssumption
      <3> QED
        BY <2>1, <3>2, <3>3 DEF IInv, OneFlush, GrowsByFailedFlushes
    <2> QED
      BY <2>6, <2>9, <2>10 DEF IInv
  <1> QED
    BY <1>1, <1>2

\* The whole queue becomes the batch: what is pending stays the same.
LEMMA BeginStep ==
  ASSUME IInv, TypeOK', BeginFlush,
         UNCHANGED <<offered, accepted, dropped, exportErrors, exported>>
  PROVE  IInv'
  <1>1. batch = <<>> /\ batch' = queue /\ queue' = <<>> /\ pc' = "exporting"
    BY DEF BeginFlush, MayFlush, IInv, OneFlush
  <1>2. queue \in Seq(Nat) /\ exportErrors \in Nat
    BY DEF IInv, TypeOK
  <1>3. Pending' = Pending
    BY <1>1, <1>2 DEF Pending
  <1>4. Items(Pending)' = Items(Pending)
    BY <1>3 DEF Items
  <1>5. PendingOffered' /\ NothingLost'
    BY <1>3, <1>4 DEF IInv, PendingOffered, NothingLost
  <1>6. OneFlush' /\ GrowsByFailedFlushes'
    <2>1. Len(queue') = 0
      BY <1>1
    <2>2. Len(queue) <= QueueSize * (exportErrors + 1)
      BY DEF IInv, GrowsByFailedFlushes
    <2>3. 0 <= QueueSize * (exportErrors + 1) /\ 0 <= QueueSize
      BY <1>2, BoundLemma, ExportManagerAssumption
    <2> QED
      BY <1>1, <2>1, <2>2, <2>3 DEF OneFlush, GrowsByFailedFlushes
  <1> QED
    BY <1>5, <1>6 DEF IInv

LEMMA SuccessStep ==
  ASSUME IInv, TypeOK', ExportSucceeds
  PROVE  IInv'
  <1>1. /\ batch' = <<>> /\ pc' = "idle" /\ exported' = exported \cup Items(batch)
        /\ UNCHANGED <<queue, offered, accepted, dropped, exportErrors>>
    BY DEF ExportSucceeds, EndFlush
  <1>2. batch \in Seq(Nat) /\ queue \in Seq(Nat) /\ exportErrors \in Nat
    BY DEF IInv, TypeOK
  <1>3. Pending' = queue
    BY <1>1, <1>2 DEF Pending
  <1>4. Items(Pending) = Items(batch) \cup Items(queue) /\ Increasing(batch \o queue)
    BY PendingLemma DEF IInv, NothingLost, Pending
  <1>5. Increasing(queue)
    BY <1>2, <1>4, SuffixIncreasing
  <1>6. Items(Pending') = Items(queue)
    BY <1>3
  <1>7. PendingOffered'
    BY <1>1, <1>4, <1>6 DEF IInv, PendingOffered, Items
  <1>8. accepted' \subseteq exported' \cup Items(Pending')
    BY <1>1, <1>4, <1>6 DEF IInv, NothingLost
  <1>9. NothingLost'
    BY <1>1, <1>3, <1>5, <1>8 DEF IInv, NothingLost, Increasing, Items
  <1>10. OneFlush' /\ GrowsByFailedFlushes'
    <2>1. Len(batch') = 0 /\ 0 <= QueueSize * (exportErrors + 1)
      BY <1>1, <1>2, BoundLemma, ExportManagerAssumption
    <2> QED
      BY <1>1, <2>1 DEF IInv, OneFlush, GrowsByFailedFlushes
  <1> QED
    BY <1>7, <1>9, <1>10 DEF IInv

\* The batch goes back in front of the queue: what is pending stays the same.
LEMMA GiveUpStep ==
  ASSUME IInv, TypeOK', pc = "exporting", GiveUp, exported \subseteq exported',
         UNCHANGED <<offered, accepted, dropped>>
  PROVE  IInv'
  <1>1. /\ batch' = <<>> /\ pc' = "idle" /\ queue' = batch \o queue
        /\ exportErrors' = exportErrors + 1
    BY DEF GiveUp, EndFlush
  <1>2. batch \in Seq(Nat) /\ queue \in Seq(Nat) /\ exportErrors \in Nat
    BY DEF IInv, TypeOK
  <1>3. Pending' = Pending
    <2>1. batch \o queue \in Seq(Nat)
      BY <1>2, ConcatLemma
    <2> QED
      BY <1>1, <2>1 DEF Pending
  <1>4. Items(Pending)' = Items(Pending)
    BY <1>3 DEF Items
  <1>5. PendingOffered'
    BY <1>3, <1>4 DEF IInv, PendingOffered
  <1>6. (accepted \subseteq exported \cup Items(Pending))'
    BY <1>4 DEF IInv, NothingLost
  <1>7. NothingLost'
    BY <1>3, <1>6 DEF IInv, NothingLost
  <1>8. OneFlush'
    BY <1>1 DEF OneFlush
  <1>9. GrowsByFailedFlushes'
    <2> DEFINE bound == QueueSize * (exportErrors + 1)
    <2>1. Len(batch) <= bound /\ Len(queue) <= QueueSize
      BY DEF IInv, GrowsByFailedFlushes, OneFlush
    <2>2. /\ bound \in Nat
          /\ QueueSize * (exportErrors' + 1) = bound + QueueSize
      BY <1>1, <1>2, BoundLemma
    <2>3. Len(queue') = Len(batch) + Len(queue) /\ Len(batch') = 0
          /\ Len(batch) \in Nat /\ Len(queue) \in Nat
      BY <1>1, <1>2, ConcatLemma
    <2> HIDE DEF bound
    <2>4. Len(queue') <= bound + QueueSize /\ Len(batch') <= bound + QueueSize
      BY <2>1, <2>2, <2>3, ExportManagerAssumption
    <2> QED
      BY <2>2, <2>4 DEF GrowsByFailedFlushes
  <1> QED
    BY <1>5, <1>7, <1>8, <1>9 DEF IInv

LEMMA Invariance == Spec => []IInv
  <1>1. Init => IInv
    <2> SUFFICES ASSUME Init PROVE IInv
      OBVIOUS
    <2>1. TypeOK
      <3>1. queue \in Seq(Nat) /\ batch \in Seq(Nat)
        BY DEF Init
      <3>2. attempt \in 0 .. MaxRetries /\ late \subseteq SUBSET Nat
        BY ExportManagerAssumption DEF Init
      <3> QED
        BY <3>1, <3>2 DEF Init, TypeOK
    <2>2. Pending = <<>>
      BY DEF Init, Pending
    <2>3. Items(Pending) = {} /\ DOMAIN Pending = {}
      BY <2>2 DEF Items
    <2>4. OneFlush /\ PendingOffered
      BY <2>3 DEF Init, OneFlush, PendingOffered
    <2>5. NothingLost
      <3>1. Cardinality({}) = 0
        BY FS_EmptySet
      <3> QED
        BY <2>3, <3>1 DEF Init, NothingLost
    <2>6. GrowsByFailedFlushes
      BY ExportManagerAssumption DEF Init, GrowsByFailedFlushes
    <2> QED
      BY <2>1, <2>4, <2>5, <2>6 DEF IInv
  <1>2. IInv /\ TypeOK' /\ [Next]_vars => IInv'
    <2> SUFFICES ASSUME IInv, TypeOK', [Next]_vars PROVE IInv'
      OBVIOUS
    <2>1. CASE UNCHANGED vars
      BY <2>1, QuietStep DEF vars, flush
    <2>2. CASE Start
      BY <2>2, QuietStep DEF Start, flush
    <2>3. CASE Stop
      BY <2>3, QuietStep DEF Stop, flush
    <2>4. CASE Enqueue
      BY <2>4, EnqueueStep
    <2>5. CASE Tick
      BY <2>5, BeginStep DEF Tick
    <2>6. CASE Flush
      BY <2>6, BeginStep DEF Flush
    <2>7. CASE FlushAndStop
      <3>1. CASE BeginFlush
        BY <2>7, <3>1, BeginStep DEF FlushAndStop
      <3>2. CASE UNCHANGED <<queue, flush, circuit>>
        BY <2>7, <3>2, QuietStep DEF FlushAndStop, flush
      <3> QED
        BY <2>7, <3>1, <3>2 DEF FlushAndStop
    <2>8. CASE Elapse
      BY <2>8, QuietStep DEF Elapse, flush
    <2>9. CASE Diagnostics
      BY <2>9, QuietStep DEF Diagnostics, flush
    <2>10. CASE ExportSucceeds
      BY <2>10, SuccessStep
    <2>11. ASSUME pc = "exporting", GiveUp \/ Retry, exported \subseteq exported',
                  UNCHANGED <<offered, accepted, dropped>>
           PROVE  IInv'
      <3>1. CASE GiveUp
        BY <2>11, <3>1, GiveUpStep
      <3>2. CASE Retry
        BY <2>11, <3>2, QuietStep DEF Retry
      <3> QED
        BY <2>11, <3>1, <3>2
    <2>12. CASE ExportFails
      <3>1. exported \subseteq exported'
        BY <2>12 DEF ExportFails
      <3> QED
        BY <2>11, <2>12, <3>1 DEF ExportFails
    <2>13. CASE ExportTimesOut
      BY <2>11, <2>13 DEF ExportTimesOut
    <2>14. CASE NextAttempt
      BY <2>14, QuietStep DEF NextAttempt
    <2>15. ASSUME NEW items \in late, LateSettles(items) PROVE IInv'
      <3>1. exported \subseteq exported'
        BY <2>15 DEF LateSettles
      <3> QED
        BY <2>15, <3>1, QuietStep DEF LateSettles, flush
    <2> QED
      BY <2>1, <2>2, <2>3, <2>4, <2>5, <2>6, <2>7, <2>8, <2>9, <2>10, <2>12, <2>13,
         <2>14, <2>15 DEF Next, Settle
  <1> QED
    BY <1>1, <1>2, TypeCorrect, PTL DEF Spec

\* A flush loses no item and changes no order, whatever attempts fail, time out or
\* overlap with the application (ExportManager.flush and flushAndStop).
THEOREM NoItemLost == Spec => []NothingLost
  <1>1. IInv => NothingLost
    BY DEF IInv
  <1> QED
    BY <1>1, Invariance, PTL

\* The queue outgrows queueSize by at most one queueSize per failed flush
\* (ExportManager.flush puts the batch back with unshift).
THEOREM BoundedByFailures == Spec => []GrowsByFailedFlushes
  <1>1. IInv => GrowsByFailedFlushes
    BY DEF IInv
  <1> QED
    BY <1>1, Invariance, PTL

-------------------------------------------------------------------------------
(* Sums.                                                                   *)

LEMMA SetInduction ==
  ASSUME NEW T, 0 \in T, \A n \in Nat : n \in T => n + 1 \in T
  PROVE  Nat \subseteq T
  <1>1. SUFFICES ASSUME \E n \in Nat : n \notin T PROVE FALSE
    OBVIOUS
  <1>2. PICK n \in Nat \ T : \A m \in Nat \ T : <<m, n>> \notin OpToRel(<, Nat)
    BY <1>1, NatLessThanWellFounded, WFMin
  <1>3. n # 0
    OBVIOUS
  <1>4. n - 1 \in Nat /\ n - 1 < n
    BY <1>3
  <1>5. <<n - 1, n>> \in OpToRel(<, Nat)
    BY <1>4 DEF OpToRel
  <1>6. n - 1 \in T
    BY <1>2, <1>4, <1>5
  <1>7. (n - 1) + 1 \in T /\ (n - 1) + 1 = n
    BY <1>4, <1>6
  <1> QED
    BY <1>7

Pick(s) == CHOOSE x \in s : TRUE

\* Function g gives the sums of f over the subsets of S.
Sums(f, S, g) ==
  g = [s \in SUBSET S |-> IF s = {} THEN 0 ELSE f[Pick(s)] + g[s \ {Pick(s)}]]

LEMMA Fewer ==
  ASSUME NEW s, IsFiniteSet(s), NEW x \in s
  PROVE  /\ IsFiniteSet(s \ {x}) /\ Cardinality(s) \in Nat
         /\ Cardinality(s \ {x}) = Cardinality(s) - 1
         /\ Cardinality(s \ {x}) \in Nat
  BY FS_RemoveElement, FS_CardinalityType, FS_Subset

LEMMA PickIn ==
  ASSUME NEW s, s # {} PROVE Pick(s) \in s
  BY DEF Pick

LEMMA SumsExist ==
  ASSUME NEW f, NEW S, IsFiniteSet(S) PROVE \E g : Sums(f, S, g)
  <1> DEFINE Body(g, s) == IF s = {} THEN 0 ELSE f[Pick(s)] + g[s \ {Pick(s)}]
             Upto(n) == \E g : /\ g = [s \in SUBSET S |-> g[s]]
                               /\ \A s \in SUBSET S : Cardinality(s) <= n => g[s] = Body(g, s)
             T == {n \in Nat : Upto(n)}
  <1>0. \A s \in SUBSET S : /\ IsFiniteSet(s) /\ Cardinality(s) \in Nat
                            /\ (Cardinality(s) = 0 <=> s = {})
    BY FS_Subset, FS_CardinalityType, FS_EmptySet
  <1>1. Upto(0)
    <2> DEFINE g == [s \in SUBSET S |-> 0]
    <2>1. \A s \in SUBSET S : Cardinality(s) <= 0 => g[s] = Body(g, s)
      BY <1>0
    <2> QED
      BY <2>1
  <1>2. ASSUME NEW n \in Nat, Upto(n) PROVE Upto(n + 1)
    <2>1. PICK g : /\ g = [s \in SUBSET S |-> g[s]]
                   /\ \A s \in SUBSET S : Cardinality(s) <= n => g[s] = Body(g, s)
      BY <1>2
    <2> DEFINE h == [s \in SUBSET S |-> Body(g, s)]
    <2>2. ASSUME NEW s \in SUBSET S, Cardinality(s) <= n + 1 PROVE h[s] = Body(h, s)
      <3>1. CASE s = {}
        BY <3>1
      <3>2. CASE s # {}
        <4> DEFINE rest == s \ {Pick(s)}
        <4>1. rest \in SUBSET S /\ Cardinality(rest) <= n
          <5>1. Pick(s) \in s /\ IsFiniteSet(s) /\ Cardinality(s) \in Nat
            BY <1>0, <3>2, PickIn
          <5> QED
            BY <2>2, <5>1, Fewer
        <4>2. h[rest] = g[rest]
          BY <2>1, <4>1
        <4> QED
          BY <3>2, <4>2
      <3> QED
        BY <3>1, <3>2
    <2>3. h = [s \in SUBSET S |-> h[s]]
      OBVIOUS
    <2>4. \A s \in SUBSET S : Cardinality(s) <= n + 1 => h[s] = Body(h, s)
      <3> HIDE DEF h, Body
      <3> QED
        BY <2>2
    <2> HIDE DEF h, Body
    <2> QED
      BY <2>3, <2>4, Zenon
  <1>3. Nat \subseteq T
    <2> HIDE DEF Upto
    <2>1. 0 \in T /\ \A n \in Nat : n \in T => n + 1 \in T
      BY <1>1, <1>2
    <2> HIDE DEF T
    <2> QED
      BY <2>1, SetInduction
  <1>4. Cardinality(S) \in Nat /\ Upto(Cardinality(S))
    BY <1>0, <1>3
  <1>5. PICK g : /\ g = [s \in SUBSET S |-> g[s]]
                 /\ \A s \in SUBSET S : Cardinality(s) <= Cardinality(S) => g[s] = Body(g, s)
    BY <1>4
  <1>6. \A s \in SUBSET S : Cardinality(s) <= Cardinality(S)
    BY FS_Subset
  <1>7. \A s \in SUBSET S : g[s] = Body(g, s)
    BY <1>5, <1>6
  <1>8. g = [s \in SUBSET S |-> Body(g, s)]
    <2> HIDE DEF Body
    <2> QED
      BY <1>5, <1>7
  <1>9. Sums(f, S, g)
    BY <1>8 DEF Sums
  <1> QED
    BY <1>9

\* SumFunction is one of them.
LEMMA SumUnfolds ==
  ASSUME NEW f, IsFiniteSet(DOMAIN f)
  PROVE  \E g : Sums(f, DOMAIN f, g) /\ SumFunction(f) = g[DOMAIN f]
  <1> DEFINE Eq(g) == g = [s \in SUBSET DOMAIN f |->
                             IF s = {} THEN 0
                             ELSE f[CHOOSE x \in s : TRUE] + g[s \ {CHOOSE x \in s : TRUE}]]
  <1>1. SumFunction(f) = (CHOOSE g : Eq(g))[DOMAIN f]
    BY DEF SumFunction, SumFunctionOnSet, FoldFunctionOnSet, MapThenFoldSet
  <1>2. \E g : Eq(g)
    <2>1. PICK g : Sums(f, DOMAIN f, g)
      BY SumsExist
    <2>2. Eq(g)
      BY <2>1 DEF Sums, Pick
    <2> HIDE DEF Eq
    <2> QED
      BY <2>2
  <1>3. Eq(CHOOSE g : Eq(g))
    BY <1>2
  <1>4. Sums(f, DOMAIN f, CHOOSE g : Eq(g))
    BY <1>3 DEF Sums, Pick
  <1> QED
    BY <1>1, <1>4
\* The sums of integers are integers ...
LEMMA SumsType ==
  ASSUME NEW S, IsFiniteSet(S), NEW f \in [S -> Int], NEW g, Sums(f, S, g)
  PROVE  g \in [SUBSET S -> Int]
  <1> DEFINE T == {n \in Nat : \A s \in SUBSET S : Cardinality(s) = n => g[s] \in Int}
  <1>0. \A s \in SUBSET S : /\ IsFiniteSet(s) /\ Cardinality(s) \in Nat
                            /\ (Cardinality(s) = 0 <=> s = {})
    BY FS_Subset, FS_CardinalityType, FS_EmptySet
  <1>1. 0 \in T
    BY <1>0 DEF Sums
  <1>2. ASSUME NEW n \in Nat, n \in T PROVE n + 1 \in T
    <2> SUFFICES ASSUME NEW s \in SUBSET S, Cardinality(s) = n + 1 PROVE g[s] \in Int
      OBVIOUS
    <2>1. s # {} /\ Pick(s) \in s
      BY <1>0, PickIn
    <2>2. s \ {Pick(s)} \in SUBSET S /\ Cardinality(s \ {Pick(s)}) = n
      BY <1>0, <2>1, Fewer
    <2>3. g[s \ {Pick(s)}] \in Int
      BY <1>2, <2>2
    <2>4. g[s] = f[Pick(s)] + g[s \ {Pick(s)}]
      BY <2>1 DEF Sums
    <2> QED
      BY <2>1, <2>3, <2>4
  <1>3. Nat \subseteq T
    <2> HIDE DEF T
    <2> QED
      BY <1>1, <1>2, SetInduction
  <1>4. \A s \in SUBSET S : g[s] \in Int
    BY <1>0, <1>3
  <1> QED
    BY <1>4 DEF Sums

\* ... and do not depend on the order of the summands.
LEMMA SumsSplit ==
  ASSUME NEW S, IsFiniteSet(S), NEW f \in [S -> Int], NEW g, Sums(f, S, g)
  PROVE  \A s \in SUBSET S : \A x \in s : g[s] = f[x] + g[s \ {x}]
  <1> DEFINE T == {n \in Nat : \A s \in SUBSET S : Cardinality(s) = n =>
                                 \A x \in s : g[s] = f[x] + g[s \ {x}]}
  <1>0. \A s \in SUBSET S : /\ IsFiniteSet(s) /\ Cardinality(s) \in Nat
                            /\ (Cardinality(s) = 0 <=> s = {})
    BY FS_Subset, FS_CardinalityType, FS_EmptySet
  <1>T. g \in [SUBSET S -> Int]
    BY SumsType
  <1>1. 0 \in T
    BY <1>0
  <1>2. ASSUME NEW n \in Nat, n \in T PROVE n + 1 \in T
    <2> SUFFICES ASSUME NEW s \in SUBSET S, Cardinality(s) = n + 1, NEW x \in s
                 PROVE  g[s] = f[x] + g[s \ {x}]
      OBVIOUS
    <2> DEFINE p == Pick(s)
    <2>1. p \in s
      BY PickIn
    <2> HIDE DEF p
    <2>2. g[s] = f[p] + g[s \ {p}]
      BY <2>1 DEF Sums, p
    <2>3. CASE x = p
      BY <2>2, <2>3
    <2>4. CASE x # p
      <3>1. /\ s \ {p} \in SUBSET S /\ Cardinality(s \ {p}) = n /\ x \in s \ {p}
            /\ s \ {x} \in SUBSET S /\ Cardinality(s \ {x}) = n /\ p \in s \ {x}
        <4>1. /\ IsFiniteSet(s) /\ Cardinality(s \ {p}) = Cardinality(s) - 1
              /\ Cardinality(s \ {x}) = Cardinality(s) - 1
          BY <1>0, <2>1, Fewer
        <4> QED
          BY <2>1, <2>4, <4>1
      <3>H. \A u \in SUBSET S : Cardinality(u) = n => \A y \in u : g[u] = f[y] + g[u \ {y}]
        BY <1>2
      <3> HIDE DEF T
      <3>2. g[s \ {p}] = f[x] + g[(s \ {p}) \ {x}]
        BY <3>1, <3>H
      <3>3. g[s \ {x}] = f[p] + g[(s \ {x}) \ {p}]
        BY <3>1, <3>H
      <3>4. (s \ {p}) \ {x} = (s \ {x}) \ {p} /\ (s \ {p}) \ {x} \in SUBSET S
        OBVIOUS
      <3>5. f[x] \in Int /\ f[p] \in Int /\ g[(s \ {p}) \ {x}] \in Int
        BY <1>T, <2>1, <3>4
      <3> DEFINE u == g[(s \ {p}) \ {x}]
                 v == f[x]
                 w == f[p]
      <3>6. g[s] = w + (v + u) /\ g[s \ {x}] = w + u
        BY <2>2, <3>2, <3>3, <3>4
      <3>7. u \in Int /\ v \in Int /\ w \in Int
        BY <3>5
      <3> HIDE DEF u, v, w
      <3>8. g[s] = v + g[s \ {x}]
        BY <3>6, <3>7
      <3> QED
        BY <3>8 DEF v
    <2> QED
      BY <2>3, <2>4
  <1>3. Nat \subseteq T
    <2> HIDE DEF T
    <2> QED
      BY <1>1, <1>2, SetInduction
  <1> QED
    BY <1>0, <1>3

\* Functions that agree on a set have the same sum over it.
LEMMA SumsAgree ==
  ASSUME NEW S, IsFiniteSet(S), NEW f, NEW g, Sums(f, S, g),
         NEW R, IsFiniteSet(R), NEW e, NEW h, Sums(e, R, h)
  PROVE  \A s \in SUBSET (S \cap R) : (\A x \in s : f[x] = e[x]) => g[s] = h[s]
  <1> DEFINE T == {n \in Nat : \A s \in SUBSET (S \cap R) :
                                 Cardinality(s) = n /\ (\A x \in s : f[x] = e[x]) => g[s] = h[s]}
  <1>0. \A s \in SUBSET (S \cap R) : /\ IsFiniteSet(s) /\ Cardinality(s) \in Nat
                                     /\ (Cardinality(s) = 0 <=> s = {})
    BY FS_Subset, FS_CardinalityType, FS_EmptySet
  <1>1. 0 \in T
    BY <1>0 DEF Sums
  <1>2. ASSUME NEW n \in Nat, n \in T PROVE n + 1 \in T
    <2> SUFFICES ASSUME NEW s \in SUBSET (S \cap R), Cardinality(s) = n + 1,
                        \A x \in s : f[x] = e[x]
                 PROVE  g[s] = h[s]
      OBVIOUS
    <2>1. s # {} /\ Pick(s) \in s
      BY <1>0, PickIn
    <2>2. s \ {Pick(s)} \in SUBSET (S \cap R) /\ Cardinality(s \ {Pick(s)}) = n
      <3>1. IsFiniteSet(s) /\ Cardinality(s \ {Pick(s)}) = Cardinality(s) - 1
        BY <1>0, <2>1, Fewer
      <3> QED
        BY <3>1
    <2>3. g[s \ {Pick(s)}] = h[s \ {Pick(s)}]
      BY <1>2, <2>2
    <2>4. g[s] = f[Pick(s)] + g[s \ {Pick(s)}] /\ h[s] = e[Pick(s)] + h[s \ {Pick(s)}]
      BY <2>1 DEF Sums
    <2> QED
      BY <2>1, <2>3, <2>4
  <1>3. Nat \subseteq T
    <2> HIDE DEF T
    <2> QED
      BY <1>1, <1>2, SetInduction
  <1> QED
    BY <1>0, <1>3

\* e is f but for the value of one key.
Changed(f, S, key, e) ==
  /\ IsFiniteSet(S) /\ f \in [S -> Int] /\ e \in [S \cup {key} -> Int]
  /\ \A x \in S : x # key => e[x] = f[x]

\* What changing or adding one value does to a sum.
LEMMA SumChanges ==
  ASSUME NEW S, NEW f, NEW key, NEW e, Changed(f, S, key, e)
  PROVE  /\ SumFunction(f) \in Int /\ SumFunction(e) \in Int
         /\ key \in S => SumFunction(e) = SumFunction(f) + e[key] - f[key]
         /\ key \notin S => SumFunction(e) = SumFunction(f) + e[key]
  <1>0. /\ IsFiniteSet(S) /\ f \in [S -> Int] /\ e \in [S \cup {key} -> Int]
        /\ \A x \in S : x # key => e[x] = f[x]
    BY DEF Changed
  <1> DEFINE R == S \cup {key}
  <1>1. IsFiniteSet(R) /\ DOMAIN e = R /\ DOMAIN f = S
    BY <1>0, FS_AddElement
  <1>2. PICK g : Sums(f, S, g) /\ SumFunction(f) = g[S]
    BY <1>0, <1>1, SumUnfolds
  <1>3. PICK h : Sums(e, R, h) /\ SumFunction(e) = h[R]
    BY <1>0, <1>1, SumUnfolds
  <1>4. g \in [SUBSET S -> Int] /\ h \in [SUBSET R -> Int]
    BY <1>0, <1>1, <1>2, <1>3, SumsType
  <1>5. g[S] \in Int /\ h[R] \in Int /\ h[S \ {key}] \in Int /\ e[key] \in Int
    BY <1>0, <1>4
  <1>6. h[R] = e[key] + h[R \ {key}]
    BY <1>0, <1>1, <1>3, SumsSplit
  <1>7. R \ {key} = S \ {key}
    OBVIOUS
  <1>8. g[S \ {key}] = h[S \ {key}]
    <2>1. S \ {key} \in SUBSET (S \cap R) /\ \A x \in S \ {key} : f[x] = e[x]
      BY <1>0
    <2> QED
      BY <1>0, <1>1, <1>2, <1>3, <2>1, SumsAgree
  <1> HIDE DEF R
  <1>9. CASE key \in S
    <2>1. g[S] = f[key] + g[S \ {key}] /\ f[key] \in Int
      <3>1. f[key] \in Int
        BY <1>0, <1>9
      <3>2. g[S] = f[key] + g[S \ {key}]
        BY <1>0, <1>2, <1>9, SumsSplit
      <3> QED
        BY <3>1, <3>2
    <2> DEFINE a == f[key]
               b == g[S \ {key}]
               c == e[key]
    <2>2. SumFunction(f) = a + b /\ SumFunction(e) = c + b
      BY <1>2, <1>3, <1>6, <1>7, <1>8, <2>1
    <2>3. a \in Int /\ b \in Int /\ c \in Int
      BY <1>5, <1>8, <2>1
    <2> HIDE DEF a, b, c
    <2>4. SumFunction(e) = SumFunction(f) + c - a /\ SumFunction(f) \in Int /\ SumFunction(e) \in Int
      BY <2>2, <2>3
    <2> QED
      BY <1>9, <2>4 DEF a, c
  <1>10. CASE key \notin S
    <2>1. S \ {key} = S
      BY <1>10
    <2> DEFINE b == g[S]
               c == e[key]
    <2>2. SumFunction(f) = b /\ SumFunction(e) = c + b
      BY <1>2, <1>3, <1>6, <1>7, <1>8, <2>1
    <2>3. b \in Int /\ c \in Int
      BY <1>5
    <2> HIDE DEF b, c
    <2>4. SumFunction(e) = SumFunction(f) + c /\ SumFunction(f) \in Int /\ SumFunction(e) \in Int
      BY <2>2, <2>3
    <2> QED
      BY <1>10, <2>4 DEF c
  <1> QED
    BY <1>9, <1>10

\* The sum of zeros.
LEMMA SumZero ==
  ASSUME NEW S, IsFiniteSet(S), NEW f \in [S -> {0}]
  PROVE  SumFunction(f) = 0
  <1>1. PICK g : Sums(f, S, g) /\ SumFunction(f) = g[S]
    BY SumUnfolds
  <1> DEFINE T == {n \in Nat : \A s \in SUBSET S : Cardinality(s) = n => g[s] = 0}
  <1>2. \A s \in SUBSET S : /\ IsFiniteSet(s) /\ Cardinality(s) \in Nat
                            /\ (Cardinality(s) = 0 <=> s = {})
    BY FS_Subset, FS_CardinalityType, FS_EmptySet
  <1>3. 0 \in T
    BY <1>1, <1>2 DEF Sums
  <1>4. ASSUME NEW n \in Nat, n \in T PROVE n + 1 \in T
    <2> SUFFICES ASSUME NEW s \in SUBSET S, Cardinality(s) = n + 1 PROVE g[s] = 0
      OBVIOUS
    <2>1. s # {} /\ Pick(s) \in s
      BY <1>2, PickIn
    <2>2. s \ {Pick(s)} \in SUBSET S /\ Cardinality(s \ {Pick(s)}) = n
      <3>1. IsFiniteSet(s)
        BY <1>2
      <3>2. Cardinality(s \ {Pick(s)}) = Cardinality(s) - 1
        BY <2>1, <3>1, Fewer
      <3> QED
        BY <3>2
    <2>3. g[s \ {Pick(s)}] = 0 /\ f[Pick(s)] = 0
      BY <1>4, <2>1, <2>2
    <2>4. g[s] = f[Pick(s)] + g[s \ {Pick(s)}]
      BY <1>1, <2>1 DEF Sums
    <2> QED
      BY <2>3, <2>4
  <1>5. Nat \subseteq T
    <2> HIDE DEF T
    <2> QED
      BY <1>3, <1>4, SetInduction
  <1> QED
    BY <1>1, <1>2, <1>5

-------------------------------------------------------------------------------
(* Several updates in a row.                                               *)

\* after[n] is the registry when n of the updates have been recorded.
After(base, updates, sampled, at, after) ==
  /\ after[0] = base
  /\ \A n \in 1 .. Len(updates) :
       after[n] = Recorded(after[n - 1], updates[n], sampled[n], at)
  /\ RecordedAll(base, updates, sampled, at) = after[Len(updates)]

LEMMA RecordedUnfolds ==
  ASSUME NEW base, NEW updates, Len(updates) \in Nat, NEW sampled, NEW at
  PROVE  \E after : After(base, updates, sampled, at, after)
  <1> DEFINE N == Len(updates)
             Rec(r, n) == Recorded(r, updates[n], sampled[n], at)
             Eq(a) == a = [n \in 0 .. N |-> IF n = 0 THEN base ELSE Rec(a[n - 1], n)]
             Upto(n) == \E a : a[0] = base /\ \A i \in 1 .. n : a[i] = Rec(a[i - 1], i)
             T == {n \in Nat : Upto(n)}
  <1>1. RecordedAll(base, updates, sampled, at) = (CHOOSE a : Eq(a))[N]
    BY DEF RecordedAll
  <1>2. Upto(0)
    <2> DEFINE a == [n \in {0} |-> base]
    <2>1. a[0] = base /\ \A i \in 1 .. 0 : a[i] = Rec(a[i - 1], i)
      OBVIOUS
    <2> HIDE DEF a, Rec
    <2> QED
      BY <2>1
  <1>3. ASSUME NEW n \in Nat, Upto(n) PROVE Upto(n + 1)
    <2>1. PICK a : a[0] = base /\ \A i \in 1 .. n : a[i] = Rec(a[i - 1], i)
      BY <1>3
    <2> DEFINE b == [i \in 0 .. n + 1 |-> IF i <= n THEN a[i] ELSE Rec(a[n], n + 1)]
    <2> HIDE DEF Rec
    <2>2. b[0] = base
      BY <2>1
    <2>3. \A i \in 1 .. n + 1 : b[i] = Rec(b[i - 1], i)
      <3> SUFFICES ASSUME NEW i \in 1 .. n + 1 PROVE b[i] = Rec(b[i - 1], i)
        OBVIOUS
      <3>1. CASE i \in 1 .. n
        BY <2>1, <3>1
      <3>2. CASE i = n + 1
        <4>1. b[i] = Rec(a[n], i) /\ b[i - 1] = a[n]
          BY <3>2
        <4> QED
          BY <4>1
      <3> QED
        BY <3>1, <3>2
    <2> HIDE DEF b
    <2> QED
      BY <2>2, <2>3
  <1> HIDE DEF Rec
  <1>4. Nat \subseteq T
    <2> HIDE DEF Upto
    <2>1. 0 \in T /\ \A n \in Nat : n \in T => n + 1 \in T
      BY <1>2, <1>3
    <2> HIDE DEF T
    <2> QED
      BY <2>1, SetInduction
  <1>5. PICK a : a[0] = base /\ \A i \in 1 .. N : a[i] = Rec(a[i - 1], i)
    BY <1>4
  <1> DEFINE b == [n \in 0 .. N |-> a[n]]
  <1>6. \A n \in 0 .. N : b[n] = IF n = 0 THEN base ELSE Rec(b[n - 1], n)
    BY <1>5
  <1>7. Eq(b)
    BY <1>6
  <1> HIDE DEF b
  <1> DEFINE c == CHOOSE x : Eq(x)
  <1>8. Eq(c)
    <2> HIDE DEF Eq
    <2> QED
      BY <1>7
  <1> HIDE DEF c
  <1>9. c[0] = base /\ \A n \in 1 .. N : c[n] = Rec(c[n - 1], n)
    BY <1>8
  <1>10. RecordedAll(base, updates, sampled, at) = c[N]
    BY <1>1 DEF c
  <1> QED
    BY <1>9, <1>10 DEF Rec, After

-------------------------------------------------------------------------------
(* Traces.                                                                 *)

MaybeCall == Calls \cup {NoCall}
Contexts == [trace : MaybeCall, span : MaybeCall]
Pieces == [call : Calls, restore : Contexts, fresh : BOOLEAN]
CallStages == {"idle", "running", "suspended", "settled", "ended", "thrown"}
CallRecords ==
  [pc : CallStages, kind : CallKinds \cup {"none"}, caller : MaybeCall,
   trace : MaybeCall, parent : MaybeCall, awaits : Nat]

TraceTypeOK ==
  /\ stack \in Seq(Pieces) /\ context \in Contexts
  /\ call \in [Calls -> CallRecords]

\* A context that one of the first k pieces of the stack has set, or none.
ContextOK(ctx, pieces, k, calls) ==
  ctx = NoContext \/
  /\ ctx.trace # NoCall
  /\ \E j \in 1 .. k : ctx.span = pieces[j].call /\ ctx.trace = calls[pieces[j].call].trace

\* Each piece was started by one that runs on behalf of all below it; what it restores,
\* and what is set now, was set by a piece below.
StackContexts ==
  /\ \A k \in DOMAIN stack :
       /\ call[stack[k].call].pc # "idle"
       /\ ContextOK(stack[k].restore, stack, k - 1, call)
  /\ \A j, k \in DOMAIN stack : j < k => stack[j].call \in CallersOf(stack[k].call)
  /\ ContextOK(context, stack, Len(stack), call)

Untraced(record) == record.caller = NoCall /\ record.trace = NoCall /\ record.parent = NoCall

TraceOf(c) ==
  call[c].trace # NoCall =>
    \/ call[c].parent = NoCall /\ call[c].trace = c
    \/ /\ call[c].parent \in CallersOf(c)
       /\ call[c].trace = call[call[c].parent].trace

TraceInv ==
  /\ TraceTypeOK
  /\ \A c \in Calls : call[c].pc = "idle" => Untraced(call[c])
  /\ StackContexts
  /\ \A c \in Calls : TraceOf(c)

\* A step that makes no new call keeps who called whom.
LEMMA CallersKept ==
  ASSUME \A e \in Calls : call'[e].caller = call[e].caller, NEW c \in Calls
  PROVE  CallersOf(c)' = CallersOf(c)
  <1>1. \A S \in SUBSET Calls : WithCallers(S)' <=> WithCallers(S)
    BY DEF WithCallers
  <1> QED
    BY <1>1 DEF CallersOf

\* A call has its caller, and the callers of that, as callers.
LEMMA CallersGrow ==
  ASSUME TelemetryAssumption, NEW c \in Calls, call[c].caller = NoCall,
         \A e \in Calls : e # c => call'[e].caller = call[e].caller
  PROVE  /\ \A e \in Calls : CallersOf(e) \subseteq CallersOf(e)'
         /\ \A d \in Calls :
              call'[c].caller = d =>
                d \in CallersOf(c)' /\ CallersOf(d) \subseteq CallersOf(c)'
  <1>1. ASSUME NEW S \in SUBSET Calls, WithCallers(S)' PROVE WithCallers(S)
    BY <1>1 DEF WithCallers
  <1>2. ASSUME NEW e \in Calls, NEW x \in CallersOf(e) PROVE x \in CallersOf(e)'
    <2>1. e # c /\ call'[e].caller = call[e].caller /\ call[e].caller # NoCall
      BY <1>2 DEF CallersOf
    <2>2. ASSUME NEW S \in SUBSET Calls, call'[e].caller \in S, WithCallers(S)' PROVE x \in S
      BY <1>1, <1>2, <2>1, <2>2 DEF CallersOf
    <2> QED
      BY <1>2, <2>1, <2>2 DEF CallersOf
  <1>3. ASSUME NEW d \in Calls, call'[c].caller = d PROVE d \in CallersOf(c)'
    <2>1. d # NoCall
      BY DEF TelemetryAssumption
    <2> QED
      BY <1>3, <2>1 DEF CallersOf
  <1>4. ASSUME NEW d \in Calls, call'[c].caller = d, NEW x \in CallersOf(d)
        PROVE  x \in CallersOf(c)'
    <2>1. d # NoCall
      BY DEF TelemetryAssumption
    <2>2. call[d].caller # NoCall /\ d # c /\ call'[d].caller = call[d].caller
      BY <1>4 DEF CallersOf
    <2>3. ASSUME NEW S \in SUBSET Calls, call'[c].caller \in S, WithCallers(S)' PROVE x \in S
      <3>1. call[d].caller \in S
        BY <1>4, <2>2, <2>3 DEF WithCallers
      <3> QED
        BY <1>1, <1>4, <2>3, <3>1 DEF CallersOf
    <2> QED
      BY <1>4, <2>1, <2>3 DEF CallersOf
  <1> QED
    BY <1>2, <1>3, <1>4

\* What is left of the record of a call when only pc and awaits change.
Continues(c) ==
  /\ call' \in [Calls -> CallRecords]
  /\ call'[c].pc # "idle"
  /\ \A e \in Calls :
       /\ e # c => call'[e] = call[e]
       /\ call'[e].caller = call[e].caller /\ call'[e].trace = call[e].trace
       /\ call'[e].parent = call[e].parent

Moves(c, stage) ==
  /\ stage \in CallStages \ {"idle"}
  /\ \/ call' = [call EXCEPT ![c].pc = stage]
     \/ call' = [call EXCEPT ![c].pc = stage, ![c].awaits = @ + 1]

LEMMA ContinueLemma ==
  ASSUME TraceTypeOK, NEW c \in Calls, NEW stage, Moves(c, stage)
  PROVE  Continues(c)
  <1>0. stage \in CallStages /\ stage # "idle"
    BY DEF Moves
  <1>1. call \in [Calls -> CallRecords] /\ call[c] \in CallRecords
    BY DEF TraceTypeOK
  <1>2. CASE call' = [call EXCEPT ![c].pc = stage]
    <2>1. call'[c] = [call[c] EXCEPT !.pc = stage]
      BY <1>1, <1>2
    <2>2. call'[c] \in CallRecords
      BY <1>0, <1>1, <2>1 DEF CallRecords
    <2>3. /\ call'[c].pc = stage /\ call'[c].caller = call[c].caller
          /\ call'[c].trace = call[c].trace /\ call'[c].parent = call[c].parent
      BY <1>1, <2>1 DEF CallRecords
    <2>4. \A e \in Calls : e # c => call'[e] = call[e]
      BY <1>1, <1>2
    <2>5. call' \in [Calls -> CallRecords]
      BY <1>1, <1>2, <2>2
    <2> QED
      BY <1>0, <2>3, <2>4, <2>5 DEF Continues
  <1>3. CASE call' = [call EXCEPT ![c].pc = stage, ![c].awaits = @ + 1]
    <2>1. call'[c] = [call[c] EXCEPT !.pc = stage, !.awaits = @ + 1]
      BY <1>1, <1>3
    <2>2. call'[c] \in CallRecords
      <3>1. call[c].awaits + 1 \in Nat
        BY <1>1 DEF CallRecords
      <3>2. [call[c] EXCEPT !.pc = stage] \in CallRecords
        BY <1>0, <1>1 DEF CallRecords
      <3>3. \A m \in Nat : [[call[c] EXCEPT !.pc = stage] EXCEPT !.awaits = m] \in CallRecords
        BY <3>2 DEF CallRecords
      <3>4. call'[c] = [[call[c] EXCEPT !.pc = stage] EXCEPT !.awaits = call[c].awaits + 1]
        BY <1>1, <2>1 DEF CallRecords
      <3> QED
        BY <3>1, <3>3, <3>4
    <2>3. /\ call'[c].pc = stage /\ call'[c].caller = call[c].caller
          /\ call'[c].trace = call[c].trace /\ call'[c].parent = call[c].parent
      BY <1>1, <2>1 DEF CallRecords
    <2>4. \A e \in Calls : e # c => call'[e] = call[e]
      BY <1>1, <1>3
    <2>5. call' \in [Calls -> CallRecords]
      BY <1>1, <1>3, <2>2
    <2> QED
      BY <1>0, <2>3, <2>4, <2>5 DEF Continues
  <1> QED
    BY <1>2, <1>3 DEF Moves

\* A call that continues changes no trace.
LEMMA ContinueTraces ==
  ASSUME TraceInv, NEW c \in Calls, Continues(c)
  PROVE  /\ \A e \in Calls : call'[e].pc = "idle" => Untraced(call'[e])
         /\ \A e \in Calls : TraceOf(e)' /\ CallersOf(e)' = CallersOf(e)
         /\ \A ctx, pieces, k :
              (\A j \in 1 .. k : pieces[j].call \in Calls) /\ ContextOK(ctx, pieces, k, call) =>
                ContextOK(ctx, pieces, k, call')
         /\ \A e \in Calls : call[e].pc # "idle" => call'[e].pc # "idle"
  <1>1. \A e \in Calls : call'[e].pc = "idle" => Untraced(call'[e])
    BY DEF TraceInv, Continues, Untraced
  <1>2. \A e \in Calls : CallersOf(e)' = CallersOf(e)
    BY CallersKept DEF Continues
  <1>3. ASSUME NEW e \in Calls PROVE TraceOf(e)'
    <2>1. TraceOf(e) /\ CallersOf(e) \subseteq Calls
      BY DEF TraceInv, CallersOf
    <2> QED
      BY <1>2, <2>1 DEF TraceOf, Continues
  <1>4. \A ctx, pieces, k :
          (\A j \in 1 .. k : pieces[j].call \in Calls) /\ ContextOK(ctx, pieces, k, call) =>
            ContextOK(ctx, pieces, k, call')
    BY DEF ContextOK, Continues
  <1>5. \A e \in Calls : call[e].pc # "idle" => call'[e].pc # "idle"
    BY DEF Continues
  <1> QED
    BY <1>1, <1>2, <1>3, <1>4, <1>5

LEMMA PieceLemma ==
  ASSUME TraceTypeOK
  PROVE  /\ Len(stack) \in Nat /\ DOMAIN stack = 1 .. Len(stack)
         /\ \A k \in 1 .. Len(stack) :
              stack[k] \in Pieces /\ stack[k].call \in Calls /\ stack[k].restore \in Contexts
         /\ stack # <<>> => Top = stack[Len(stack)] /\ Len(stack) \in 1 .. Len(stack)
  <1>1. stack \in Seq(Pieces)
    BY DEF TraceTypeOK
  <1>2. Len(stack) \in Nat /\ DOMAIN stack = 1 .. Len(stack)
    BY <1>1
  <1>3. \A k \in 1 .. Len(stack) : stack[k] \in Pieces
    BY <1>1, <1>2
  <1>4. stack # <<>> => Len(stack) \in 1 .. Len(stack)
    BY <1>1
  <1> QED
    BY <1>2, <1>3, <1>4 DEF Pieces, Top

\* The piece on top ends.
LEMMA LeaveStep ==
  ASSUME TraceInv, NEW c \in Calls, Runs(c), LeavePiece, Continues(c)
  PROVE  TraceInv'
  <1> DEFINE n == Len(stack)
             rest == SubSeq(stack, 1, n - 1)
  <1>0. TraceTypeOK /\ StackContexts
    BY DEF TraceInv
  <1>1. /\ n \in Nat /\ DOMAIN stack = 1 .. n /\ n \in 1 .. n /\ Top = stack[n]
        /\ \A k \in 1 .. n : stack[k].call \in Calls /\ stack[k].restore \in Contexts
    BY <1>0, PieceLemma DEF Runs
  <1>2. /\ stack' = rest /\ rest \in Seq(Pieces) /\ Len(rest) = n - 1
        /\ DOMAIN rest = 1 .. n - 1 /\ \A k \in 1 .. n - 1 : rest[k] = stack[k]
    <2>1. stack \in Seq(Pieces)
      BY <1>0 DEF TraceTypeOK
    <2> QED
      BY <1>1, <2>1 DEF LeavePiece
  <1>3. context' = stack[n].restore
    BY <1>1 DEF LeavePiece
  <1> HIDE DEF n, rest
  <1>4. /\ \A e \in Calls : call'[e].pc = "idle" => Untraced(call'[e])
        /\ \A e \in Calls : TraceOf(e)' /\ CallersOf(e)' = CallersOf(e)
        /\ \A e \in Calls : call[e].pc # "idle" => call'[e].pc # "idle"
    BY ContinueTraces
  <1>5. ASSUME NEW ctx, NEW k \in 0 .. n - 1, ContextOK(ctx, stack, k, call)
        PROVE  ContextOK(ctx, rest, k, call')
    <2>1. ContextOK(ctx, stack, k, call')
      BY <1>1, <1>5, ContinueTraces
    <2> QED
      BY <1>1, <1>2, <2>1 DEF ContextOK
  <1>6. TraceTypeOK'
    BY <1>1, <1>2, <1>3 DEF TraceTypeOK, Continues
  <1>7. \A k \in 1 .. n - 1 :
          /\ call'[rest[k].call].pc # "idle"
          /\ ContextOK(rest[k].restore, rest, k - 1, call')
    <2> SUFFICES ASSUME NEW k \in 1 .. n - 1
                 PROVE  /\ call'[rest[k].call].pc # "idle"
                        /\ ContextOK(rest[k].restore, rest, k - 1, call')
      OBVIOUS
    <2>1. k \in 1 .. n /\ k - 1 \in 0 .. n - 1 /\ rest[k] = stack[k]
      BY <1>1, <1>2
    <2>2. call[stack[k].call].pc # "idle" /\ ContextOK(stack[k].restore, stack, k - 1, call)
      BY <1>0, <1>1, <2>1 DEF StackContexts
    <2> QED
      BY <1>1, <1>4, <1>5, <2>1, <2>2
  <1>8. ASSUME NEW j \in 1 .. n - 1, NEW k \in 1 .. n - 1, j < k,
               NEW e \in Calls, e = rest[k].call
        PROVE  rest[j].call \in CallersOf(e)'
    <2>1. j \in 1 .. n /\ k \in 1 .. n /\ rest[j] = stack[j] /\ rest[k] = stack[k]
      BY <1>1, <1>2
    <2>2. stack[j].call \in CallersOf(stack[k].call)
      BY <1>0, <1>1, <1>8, <2>1 DEF StackContexts
    <2> QED
      BY <1>4, <1>8, <2>1, <2>2
  <1>9. ContextOK(context', rest, n - 1, call')
    BY <1>0, <1>1, <1>3, <1>5 DEF StackContexts
  <1>10. StackContexts'
    <2>1. \A k \in 1 .. n - 1 : rest[k].call \in Calls
      BY <1>1, <1>2
    <2>2. ASSUME NEW j \in 1 .. n - 1, NEW k \in 1 .. n - 1, j < k
          PROVE  stack'[j].call \in CallersOf(stack[k].call)'
      BY <1>2, <1>8, <2>1, <2>2
    <2> QED
      BY <1>2, <1>7, <1>9, <2>2 DEF StackContexts
  <1> QED
    BY <1>4, <1>6, <1>10 DEF TraceInv

\* What Begin makes of the record of the call.
LEMMA BeginCall ==
  ASSUME TraceTypeOK, TelemetryAssumption, NEW c \in Calls, NEW kind \in CallKinds,
         Begin(c, kind)
  PROVE  /\ call' \in [Calls -> CallRecords]
         /\ \A e \in Calls : e # c => call'[e] = call[e]
         /\ call'[c].pc = "running" /\ call'[c].caller = Caller
         /\ kind = "tracked" => call'[c].trace = NoCall
         /\ kind # "tracked" =>
              /\ call'[c].trace = IF context.trace = NoCall THEN c ELSE context.trace
              /\ call'[c].parent = context.span
  <1> DEFINE tracked == [NewCall EXCEPT !.pc = "running", !.kind = kind, !.caller = Caller]
             trace == IF context.trace = NoCall THEN c ELSE context.trace
             span == [pc |-> "running", kind |-> kind, caller |-> Caller,
                      trace |-> trace, parent |-> context.span, awaits |-> 0]
  <1>1. call \in [Calls -> CallRecords] /\ context.trace \in MaybeCall /\ context.span \in MaybeCall
    BY DEF TraceTypeOK, Contexts
  <1>2. Caller \in MaybeCall
    BY PieceLemma DEF Caller, MaybeCall
  <1>3. trace \in MaybeCall
    BY <1>1 DEF MaybeCall
  <1>4. NewCall \in CallRecords /\ NewCall.trace = NoCall
    BY DEF NewCall, CallRecords, CallStages, MaybeCall
  <1>5. /\ tracked \in CallRecords
        /\ tracked.pc = "running" /\ tracked.caller = Caller /\ tracked.trace = NoCall
    BY <1>2, <1>4 DEF CallRecords, CallStages
  <1> HIDE DEF trace
  <1>6. span \in CallRecords
    BY <1>1, <1>2, <1>3 DEF CallRecords, CallStages
  <1>7. call' = [call EXCEPT ![c] = IF kind = "tracked" THEN tracked ELSE span]
    BY DEF Begin, trace
  <1>8. /\ span.pc = "running" /\ span.caller = Caller /\ span.trace = trace
        /\ span.parent = context.span
    OBVIOUS
  <1> HIDE DEF tracked, span
  <1>9. /\ call' \in [Calls -> CallRecords] /\ \A e \in Calls : e # c => call'[e] = call[e]
        /\ call'[c] = IF kind = "tracked" THEN tracked ELSE span
    BY <1>1, <1>5, <1>6, <1>7
  <1> QED
    BY <1>5, <1>8, <1>9 DEF trace

\* A call begins: as a piece of what runs now, or by itself.
LEMMA BeginPieceStep ==
  ASSUME TraceInv, TelemetryAssumption, NEW c \in Calls, NEW kind \in CallKinds,
         Begin(c, kind)
  PROVE  TraceInv'
  <1> DEFINE n == Len(stack)
             piece == [call |-> c, restore |-> context, fresh |-> TRUE]
             new == Append(stack, piece)
  <1>0. TraceTypeOK /\ StackContexts /\ Untraced(call[c])
    BY DEF TraceInv, Begin
  <1>1. /\ n \in Nat /\ DOMAIN stack = 1 .. n
        /\ \A k \in 1 .. n : stack[k].call \in Calls /\ stack[k].restore \in Contexts
        /\ stack # <<>> => Caller = stack[n].call /\ n \in 1 .. n
    BY <1>0, PieceLemma DEF Caller
  <1>2. piece.call = c /\ piece.restore = context /\ piece \in Pieces
    BY <1>0 DEF TraceTypeOK, Pieces
  <1>3. /\ stack' = new /\ new \in Seq(Pieces) /\ Len(new) = n + 1
        /\ DOMAIN new = 1 .. n + 1 /\ new[n + 1] = piece
        /\ \A k \in 1 .. n : new[k] = stack[k]
    <2>1. stack \in Seq(Pieces) /\ stack' = new
      BY <1>0 DEF TraceTypeOK, Begin
    <2> HIDE DEF piece
    <2> QED
      BY <1>2, <2>1
  <1> HIDE DEF n, piece, new
  <1>4. /\ call' \in [Calls -> CallRecords]
        /\ \A e \in Calls : e # c => call'[e] = call[e]
        /\ call'[c].pc = "running" /\ call'[c].caller = Caller
        /\ kind = "tracked" => call'[c].trace = NoCall
        /\ kind # "tracked" =>
             /\ call'[c].trace = IF context.trace = NoCall THEN c ELSE context.trace
             /\ call'[c].parent = context.span
    BY <1>0, BeginCall
  <1>5. /\ \A e \in Calls : CallersOf(e) \subseteq CallersOf(e)'
        /\ \A d \in Calls :
             Caller = d => d \in CallersOf(c)' /\ CallersOf(d) \subseteq CallersOf(c)'
    <2>1. call[c].caller = NoCall /\ \A e \in Calls : e # c => call'[e].caller = call[e].caller
      BY <1>0, <1>4 DEF Untraced
    <2> QED
      BY <1>4, <2>1, CallersGrow
  <1>6. \A k \in 1 .. n : stack[k].call # c /\ call[stack[k].call].pc # "idle"
    BY <1>0, <1>1 DEF StackContexts, Begin
  <1>7. \A k \in 1 .. n : stack[k].call \in CallersOf(c)'
    <2> SUFFICES ASSUME NEW k \in 1 .. n PROVE stack[k].call \in CallersOf(c)'
      OBVIOUS
    <2>1. stack # <<>>
      BY <1>1
    <2>2. Caller = stack[n].call /\ stack[n].call \in Calls /\ n \in 1 .. n
      BY <1>1, <2>1
    <2>3. CASE k = n
      BY <1>5, <2>2, <2>3
    <2>4. CASE k # n
      <3>1. k < n
        BY <1>1, <2>4
      <3>2. stack[k].call \in CallersOf(stack[n].call)
        BY <1>0, <1>1, <2>2, <3>1 DEF StackContexts
      <3> QED
        BY <1>5, <2>2, <3>2
    <2> QED
      BY <2>3, <2>4
  <1>8. ASSUME NEW ctx, NEW k \in 0 .. n, NEW m \in k .. n + 1, ContextOK(ctx, stack, k, call)
        PROVE  ContextOK(ctx, new, m, call')
    <2>1. CASE ctx = NoContext
      BY <2>1 DEF ContextOK
    <2>2. CASE ctx # NoContext
      <3>1. PICK j \in 1 .. k : ctx.span = stack[j].call /\ ctx.trace = call[stack[j].call].trace
        BY <1>8, <2>2 DEF ContextOK
      <3>2. j \in 1 .. n /\ j \in 1 .. m /\ new[j] = stack[j]
        BY <1>1, <1>3
      <3>3. call'[stack[j].call] = call[stack[j].call]
        BY <1>1, <1>4, <1>6, <3>2
      <3> QED
        BY <1>8, <2>2, <3>1, <3>2, <3>3 DEF ContextOK
    <2> QED
      BY <2>1, <2>2
  <1>9. TraceTypeOK'
    <2>1. context' \in Contexts
      <3>1. CASE kind = "tracked"
        BY <1>0, <3>1 DEF TraceTypeOK, Begin
      <3>2. CASE kind # "tracked"
        <4>1. context.trace \in MaybeCall /\ c \in MaybeCall
          BY <1>0 DEF TraceTypeOK, Contexts, MaybeCall
        <4>2. context' = [trace |-> IF context.trace = NoCall THEN c ELSE context.trace,
                          span |-> c]
          BY <3>2 DEF Begin
        <4> QED
          BY <4>1, <4>2 DEF Contexts
      <3> QED
        BY <3>1, <3>2
    <2> QED
      BY <1>3, <1>4, <2>1 DEF TraceTypeOK
  <1>10. \A e \in Calls : call'[e].pc = "idle" => Untraced(call'[e])
    BY <1>4 DEF TraceInv
  <1>11. ContextOK(context, new, n, call') /\ ContextOK(context, new, n + 1, call')
    BY <1>0, <1>1, <1>8 DEF StackContexts
  <1>12. \A k \in 1 .. n + 1 :
           call'[new[k].call].pc # "idle" /\ ContextOK(new[k].restore, new, k - 1, call')
    <2> SUFFICES ASSUME NEW k \in 1 .. n + 1
                 PROVE  /\ call'[new[k].call].pc # "idle"
                        /\ ContextOK(new[k].restore, new, k - 1, call')
      OBVIOUS
    <2>1. CASE k = n + 1
      BY <1>1, <1>2, <1>3, <1>4, <1>11, <2>1
    <2>2. CASE k # n + 1
      <3>1. k \in 1 .. n /\ k - 1 \in 0 .. n /\ k - 1 \in k - 1 .. n + 1 /\ new[k] = stack[k]
        BY <1>1, <1>3, <2>2
      <3>2. ContextOK(stack[k].restore, stack, k - 1, call)
        BY <1>0, <1>1, <3>1 DEF StackContexts
      <3>3. call'[stack[k].call].pc # "idle"
        BY <1>1, <1>4, <1>6, <3>1
      <3> QED
        BY <1>8, <3>1, <3>2, <3>3
    <2> QED
      BY <2>1, <2>2
  <1>13. ASSUME NEW j \in 1 .. n + 1, NEW k \in 1 .. n + 1, j < k,
                NEW e \in Calls, e = new[k].call
         PROVE  new[j].call \in CallersOf(e)'
    <2>1. j \in 1 .. n /\ new[j] = stack[j]
      BY <1>1, <1>3, <1>13
    <2>2. CASE k = n + 1
      <3>1. e = c
        BY <1>2, <1>3, <1>13, <2>2
      <3> QED
        BY <1>7, <2>1, <3>1
    <2>3. CASE k # n + 1
      <3>1. k \in 1 .. n /\ e = stack[k].call
        BY <1>1, <1>3, <1>13, <2>3
      <3>2. stack[j].call \in CallersOf(e)
        BY <1>0, <1>1, <1>13, <2>1, <3>1 DEF StackContexts
      <3> QED
        BY <1>5, <2>1, <3>2
    <2> QED
      BY <2>2, <2>3
  <1>14. ContextOK(context', new, n + 1, call')
    <2>1. CASE kind = "tracked"
      BY <1>11, <2>1 DEF Begin
    <2>2. CASE kind # "tracked"
      <3>1. context'.span = c /\ context'.trace = call'[c].trace
        BY <1>4, <2>2 DEF Begin
      <3>2. context'.trace # NoCall
        BY <1>4, <2>2, <3>1 DEF TelemetryAssumption
      <3>3. n + 1 \in 1 .. n + 1 /\ new[n + 1].call = c
        BY <1>1, <1>2, <1>3
      <3> QED
        BY <3>1, <3>2, <3>3 DEF ContextOK
    <2> QED
      BY <2>1, <2>2
  <1>15. StackContexts'
    <2>1. \A k \in 1 .. n + 1 : new[k].call \in Calls
      BY <1>1, <1>2, <1>3
    <2>2. ASSUME NEW j \in 1 .. n + 1, NEW k \in 1 .. n + 1, j < k
          PROVE  stack'[j].call \in CallersOf(stack[k].call)'
      BY <1>3, <1>13, <2>1, <2>2
    <2> QED
      BY <1>3, <1>12, <1>14, <2>2 DEF StackContexts
  <1>16. ASSUME NEW e \in Calls PROVE TraceOf(e)'
    <2>1. CASE e # c
      <3>1. TraceOf(e) /\ call'[e] = call[e] /\ CallersOf(e) \subseteq Calls
        BY <1>4, <2>1 DEF TraceInv, CallersOf
      <3>2. CASE call[e].trace = NoCall \/ call[e].parent = NoCall
        <4>1. CASE call[e].parent = NoCall /\ call[e].trace = e
          BY <3>1, <4>1 DEF TraceOf
        <4>2. CASE call[e].trace = NoCall
          BY <3>1, <4>2 DEF TraceOf
        <4> QED
          BY <3>1, <3>2, <4>1, <4>2 DEF TraceOf, CallersOf, TelemetryAssumption
      <3>3. CASE call[e].trace # NoCall /\ call[e].parent # NoCall
        <4>1. call[e].parent \in CallersOf(e) /\ call[e].trace = call[call[e].parent].trace
          BY <3>1, <3>3 DEF TraceOf
        <4>2. call[e].parent # c /\ call[e].parent \in Calls
          BY <1>0, <3>1, <3>3, <4>1 DEF Untraced
        <4> QED
          BY <1>4, <1>5, <3>1, <4>1, <4>2 DEF TraceOf
      <3> QED
        BY <3>2, <3>3
    <2>2. CASE e = c
      <3>1. CASE kind = "tracked"
        BY <1>4, <2>2, <3>1 DEF TraceOf
      <3>2. CASE kind # "tracked" /\ context = NoContext
        BY <1>4, <2>2, <3>2 DEF TraceOf, NoContext
      <3>3. CASE kind # "tracked" /\ context # NoContext
        <4>1. ContextOK(context, stack, n, call)
          BY <1>0 DEF StackContexts, n
        <4>2. PICK j \in 1 .. n : /\ context.span = stack[j].call
                                  /\ context.trace = call[stack[j].call].trace
          BY <3>3, <4>1 DEF ContextOK
        <4>3. context.trace # NoCall
          BY <3>3, <4>1 DEF ContextOK
        <4>4. call'[c].parent = stack[j].call /\ call'[c].trace = context.trace
          BY <1>4, <3>3, <4>2, <4>3
        <4>5. call'[stack[j].call] = call[stack[j].call]
          BY <1>1, <1>4, <1>6
        <4> QED
          BY <1>7, <2>2, <4>2, <4>4, <4>5 DEF TraceOf
      <3> QED
        BY <3>1, <3>2, <3>3
    <2> QED
      BY <2>1, <2>2
  <1> QED
    BY <1>9, <1>10, <1>15, <1>16 DEF TraceInv

\* A call resumes: nothing runs then, so that there is no context.
LEMMA ResumeStep ==
  ASSUME TraceInv, NEW c \in Calls, Resume(c)
  PROVE  TraceInv'
  <1> DEFINE piece == [call |-> c, restore |-> context, fresh |-> FALSE]
  <1>0. TraceTypeOK /\ StackContexts /\ stack = <<>> /\ Len(stack) = 0
    BY DEF TraceInv, Resume
  <1>1. context = NoContext
    BY <1>0 DEF StackContexts, ContextOK
  <1>2. Continues(c)
    <2>1. Moves(c, "running")
      BY DEF Resume, Moves, CallStages
    <2> QED
      BY <1>0, <2>1, ContinueLemma
  <1>3. piece.call = c /\ piece.restore = NoContext /\ piece \in Pieces
    BY <1>0, <1>1 DEF TraceTypeOK, Pieces
  <1>4. stack' = <<piece>> /\ context' = NoContext
    BY <1>1 DEF Resume
  <1> HIDE DEF piece
  <1>5. stack' \in Seq(Pieces) /\ DOMAIN stack' = {1} /\ Len(stack') = 1 /\ stack'[1] = piece
    BY <1>3, <1>4
  <1>6. TraceTypeOK'
    BY <1>0, <1>1, <1>2, <1>4, <1>5 DEF TraceTypeOK, Continues
  <1>7. StackContexts'
    BY <1>2, <1>3, <1>4, <1>5 DEF StackContexts, ContextOK, Continues
  <1> QED
    BY <1>2, <1>6, <1>7, ContinueTraces DEF TraceInv

\* A call ends: nothing else runs.
LEMMA EndStep ==
  ASSUME TraceInv, NEW c \in Calls, End(c)
  PROVE  TraceInv'
  <1>0. TraceTypeOK /\ StackContexts /\ stack = <<>> /\ stack' = <<>> /\ context' = context
    BY DEF TraceInv, End
  <1>1. context = NoContext
    BY <1>0 DEF StackContexts, ContextOK
  <1>2. Continues(c)
    <2>1. Moves(c, "ended")
      BY DEF End, Moves, CallStages
    <2> QED
      BY <1>0, <2>1, ContinueLemma
  <1>3. TraceTypeOK'
    BY <1>0, <1>2 DEF TraceTypeOK, Continues
  <1>4. StackContexts'
    BY <1>0, <1>1 DEF StackContexts, ContextOK
  <1> QED
    BY <1>2, <1>3, <1>4, ContinueTraces DEF TraceInv

\* A step that touches no call keeps everything that is said of them.
LEMMA TracesQuiet ==
  ASSUME TraceInv, UNCHANGED <<context, stack, call>>
  PROVE  TraceInv'
  BY DEF TraceInv, TraceTypeOK, StackContexts, ContextOK, TraceOf, CallersOf, WithCallers

LEMMA TraceInvariance == TelemetrySpec => []TraceInv
  <1> USE TelemetryAssumption
  <1>1. TelemetryInit => TraceInv
    <2> SUFFICES ASSUME TelemetryInit PROVE TraceInv
      OBVIOUS
    <2>1. \A c \in Calls : call[c] = NewCall
      BY DEF TelemetryInit
    <2>2. NewCall \in CallRecords /\ NewCall.trace = NoCall /\ Untraced(NewCall)
      BY DEF NewCall, CallRecords, CallStages, MaybeCall, Untraced
    <2>3. NoContext \in Contexts
      BY DEF NoContext, Contexts, MaybeCall
    <2>4. TraceTypeOK
      BY <2>2, <2>3 DEF TelemetryInit, TraceTypeOK
    <2>5. StackContexts
      BY DEF TelemetryInit, StackContexts, ContextOK
    <2> QED
      BY <2>1, <2>2, <2>4, <2>5 DEF TraceInv, TraceOf
  <1>2. TraceInv /\ [TelemetryNext]_telemetry => TraceInv'
    <2> SUFFICES ASSUME TraceInv, [TelemetryNext]_telemetry PROVE TraceInv'
      OBVIOUS
    <2>0. TraceTypeOK
      BY DEF TraceInv
    <2>1. ASSUME NEW c \in Calls, NEW kind \in CallKinds, Begin(c, kind) PROVE TraceInv'
      BY <2>1, BeginPieceStep
    <2>2. ASSUME NEW c \in Calls, Suspend(c) PROVE TraceInv'
      <3>1. Continues(c)
        <4>1. Moves(c, "suspended")
          BY <2>2 DEF Suspend, Moves, CallStages
        <4> QED
          BY <2>0, <4>1, ContinueLemma
      <3> QED
        BY <2>2, <3>1, LeaveStep DEF Suspend
    <2>3. ASSUME NEW c \in Calls, Resume(c) PROVE TraceInv'
      BY <2>3, ResumeStep
    <2>4. ASSUME NEW c \in Calls, End(c) PROVE TraceInv'
      BY <2>4, EndStep
    <2>5. ASSUME NEW c \in Calls, ThrowSync(c) PROVE TraceInv'
      <3>1. Continues(c)
        <4>1. Moves(c, "thrown")
          BY <2>5 DEF ThrowSync, Moves, CallStages
        <4> QED
          BY <2>0, <4>1, ContinueLemma
      <3> QED
        BY <2>5, <3>1, LeaveStep DEF ThrowSync
    <2>6. ASSUME NEW c \in Calls, NEW ok \in BOOLEAN, SettleCall(c, ok) PROVE TraceInv'
      <3>1. Continues(c)
        <4>1. Moves(c, "settled")
          BY <2>6 DEF SettleCall, Moves, CallStages
        <4> QED
          BY <2>0, <4>1, ContinueLemma
      <3> QED
        BY <2>6, <3>1, LeaveStep DEF SettleCall
    <2>7. ASSUME Attach \/ Detach \/ PassSecond PROVE TraceInv'
      BY <2>7, TracesQuiet DEF Attach, Detach, PassSecond
    <2>8. ASSUME NEW event \in Events, \/ Emit(event) \/ Hook(event) \/ Read([tag |-> event.tag])
          PROVE  TraceInv'
      BY <2>8, TracesQuiet DEF Emit, Hook, Read
    <2>9. CASE UNCHANGED telemetry
      BY <2>9, TracesQuiet DEF telemetry
    <2> QED
      BY <2>1, <2>2, <2>3, <2>4, <2>5, <2>6, <2>7, <2>8, <2>9 DEF TelemetryNext
  <1> QED
    BY <1>1, <1>2, PTL DEF TelemetrySpec

\* Spans get their trace and parent from one global variable, and yet whatever pieces
\* of whichever calls interleave, a span has no parent and a trace of its own, or as
\* parent a call on whose behalf it was made, whose trace it shares.
THEOREM SpansStayApart == TelemetrySpec => []TracesApart
  <1>1. TraceInv => TracesApart
    <2> SUFFICES ASSUME TraceInv PROVE TracesApart
      OBVIOUS
    <2>1. stack = <<>> => context = NoContext
      BY DEF TraceInv, StackContexts, ContextOK
    <2>2. ASSUME NEW c \in Calls, call[c].trace # NoCall
          PROVE  IF call[c].parent = NoCall THEN call[c].trace = c
                 ELSE /\ call[c].parent \in CallersOf(c)
                      /\ call[c].trace = call[call[c].parent].trace
      <3>1. TraceOf(c) /\ NoCall \notin CallersOf(c)
        BY TelemetryAssumption DEF TraceInv, TelemetryAssumption, CallersOf
      <3> QED
        BY <2>2, <3>1 DEF TraceOf
    <2> QED
      BY <2>1, <2>2 DEF TracesApart
  <1> QED
    BY <1>1, TraceInvariance, PTL

-------------------------------------------------------------------------------
(* Updates.                                                                *)

\* The maps of the registry are finite, and each counter and histogram belongs to a
\* series that its metric has admitted.
RegistryOK(r) ==
  /\ DOMAIN r = {"entries", "series", "gate", "drops"}
  /\ r.drops \in [Drops -> Int]
  /\ IsFiniteSet(DOMAIN r.entries) /\ r.entries \in [DOMAIN r.entries -> Int]
  /\ DOMAIN r.series = Metrics
  /\ \A m \in Metrics : IsFiniteSet(r.series[m]) /\ Cardinality(r.series[m]) <= MaxSeries
  /\ \A key \in DOMAIN r.entries :
       \A m \in Metrics : key.series.metric = m => key.series \in r.series[m]

\* What UpdatesAccounted counts.
Accounted(r) == SumFunction(r.entries) + DroppedMetrics(r) - r.drops["label"]

KnownUpdate(update) == update.metric \in Metrics /\ IsFiniteSet(DOMAIN update.tags)

LEMMA InvalidTagsType ==
  ASSUME NEW tags, IsFiniteSet(DOMAIN tags) PROVE InvalidTags(tags) \in Nat
  <1>1. {key \in DOMAIN tags : ~ValidTag(tags, key)} \subseteq DOMAIN tags
    OBVIOUS
  <1>2. Cardinality({key \in DOMAIN tags : ~ValidTag(tags, key)}) \in Nat
    BY <1>1, FS_Subset, FS_CardinalityType
  <1> QED
    BY <1>2 DEF InvalidTags

LEMMA DropsFinite == IsFiniteSet(Drops)
  <1>1. Drops = {"sampling"} \cup {"cardinality"} \cup {"overflow"} \cup {"rateLimit"} \cup {"label"}
    BY DEF Drops
  <1> QED
    BY <1>1, FS_Singleton, FS_Union

\* An update that is dropped raises the drops that count by one; its invalid tags
\* only those that do not.
LEMMA DropsCount ==
  ASSUME NEW r, r.drops \in [Drops -> Int], NEW update, InvalidTags(update.tags) \in Nat,
         NEW verdict \in (Drops \ {"label"}) \cup {"accepted"}
  PROVE  /\ SumFunction(r.drops) \in Int
         /\ CountedDrops(r, update, verdict) \in [Drops -> Int]
         /\ SumFunction(CountedDrops(r, update, verdict)) \in Int
         /\ SumFunction(CountedDrops(r, update, verdict))
              - CountedDrops(r, update, verdict)["label"]
            = SumFunction(r.drops) - r.drops["label"]
              + IF verdict = "accepted" THEN 0 ELSE 1
  <1> DEFINE old == r.drops
             new == CountedDrops(r, update, verdict)
             mid == [old EXCEPT !["label"] = new["label"]]
  <1>1. old \in [Drops -> Int] /\ "label" \in Drops
    BY DEF Drops
  <1>2. /\ new \in [Drops -> Int]
        /\ \A reason \in Drops : reason # "label" =>
             new[reason] = old[reason] + IF reason = verdict THEN 1 ELSE 0
    BY <1>1 DEF CountedDrops
  <1> HIDE DEF old, new
  <1>3. /\ mid \in [Drops -> Int] /\ mid["label"] = new["label"]
        /\ \A reason \in Drops : reason # "label" => mid[reason] = old[reason]
    BY <1>1, <1>2
  <1> HIDE DEF mid
  <1>4. Drops \cup {"label"} = Drops /\ IsFiniteSet(Drops)
    BY <1>1, DropsFinite
  <1>5. /\ SumFunction(old) \in Int /\ SumFunction(mid) \in Int
        /\ SumFunction(mid) = SumFunction(old) + mid["label"] - old["label"]
    <2>1. Changed(old, Drops, "label", mid)
      BY <1>1, <1>3, <1>4 DEF Changed
    <2> QED
      BY <1>1, <2>1, SumChanges
  <1>6. SumFunction(new) = SumFunction(mid) + IF verdict = "accepted" THEN 0 ELSE 1
    <2>1. CASE verdict = "accepted"
      <3>1. verdict \notin Drops
        BY <2>1 DEF Drops
      <3>2. \A reason \in Drops : new[reason] = mid[reason]
        BY <1>1, <1>2, <1>3, <3>1
      <3>3. new = mid
        BY <1>2, <1>3, <3>2
      <3> QED
        BY <1>5, <2>1, <3>3
    <2>2. CASE verdict # "accepted"
      <3>1. verdict \in Drops /\ verdict # "label" /\ Drops \cup {verdict} = Drops
        BY <2>2
      <3>2. \A reason \in Drops : reason # verdict => new[reason] = mid[reason]
        BY <1>1, <1>2, <1>3
      <3>3. new[verdict] = mid[verdict] + 1
        BY <1>1, <1>2, <1>3, <3>1
      <3>4. SumFunction(new) = SumFunction(mid) + new[verdict] - mid[verdict]
        <4>1. Changed(mid, Drops, verdict, new)
          BY <1>2, <1>3, <1>4, <3>1, <3>2 DEF Changed
        <4> QED
          BY <3>1, <4>1, SumChanges
      <3>5. mid[verdict] \in Int
        BY <1>3, <3>1
      <3> QED
        BY <1>5, <2>2, <3>3, <3>4, <3>5
    <2> QED
      BY <2>1, <2>2
  <1>7. SumFunction(new) \in Int /\ new["label"] \in Int /\ old["label"] \in Int
    BY <1>1, <1>2, <1>5, <1>6
  <1>8. SumFunction(new) - new["label"]
          = SumFunction(old) - old["label"] + IF verdict = "accepted" THEN 0 ELSE 1
    BY <1>3, <1>5, <1>6, <1>7
  <1> QED
    BY <1>2, <1>5, <1>7, <1>8 DEF old, new

LEMMA EntriesCount ==
  ASSUME NEW r, IsFiniteSet(DOMAIN r.entries), r.entries \in [DOMAIN r.entries -> Int],
         NEW update
  PROVE  /\ SumFunction(r.entries) \in Int
         /\ SumFunction(Entry(r, update)) = SumFunction(r.entries) + 1
         /\ IsFiniteSet(DOMAIN Entry(r, update))
         /\ Entry(r, update) \in [DOMAIN Entry(r, update) -> Int]
         /\ DOMAIN Entry(r, update) =
              DOMAIN r.entries \cup {[kind |-> update.kind, series |-> Series(update)]}
  <1> DEFINE key == [kind |-> update.kind, series |-> Series(update)]
             S == DOMAIN r.entries
             old == r.entries
             new == Entry(r, update)
             was == IF key \in S THEN old[key] ELSE 0
  <1>1. /\ new = [k \in S \cup {key} |-> IF k = key THEN was + 1 ELSE old[k]]
        /\ old \in [S -> Int] /\ IsFiniteSet(S)
    BY DEF Entry
  <1> HIDE DEF key, S, old, new
  <1>2. was \in Int
    BY <1>1
  <1>3. /\ new \in [S \cup {key} -> Int] /\ DOMAIN new = S \cup {key} /\ new[key] = was + 1
        /\ \A x \in S : x # key => new[x] = old[x]
    BY <1>1, <1>2
  <1>4. /\ SumFunction(old) \in Int
        /\ SumFunction(new) = SumFunction(old) + new[key] - was
    <2>1. Changed(old, S, key, new)
      BY <1>1, <1>3 DEF Changed
    <2>2. /\ SumFunction(old) \in Int /\ SumFunction(new) \in Int
          /\ key \in S => SumFunction(new) = SumFunction(old) + new[key] - old[key]
          /\ key \notin S => SumFunction(new) = SumFunction(old) + new[key]
      BY <2>1, SumChanges
    <2> DEFINE a == SumFunction(old)
               b == new[key]
    <2>3. a \in Int /\ b \in Int
      BY <1>2, <1>3, <2>2
    <2>4. key \in S => was = old[key] /\ SumFunction(new) = a + b - old[key]
      BY <2>2
    <2>5. key \notin S => was = 0 /\ SumFunction(new) = a + b
      BY <2>2
    <2> HIDE DEF was, a, b
    <2>6. SumFunction(new) = a + b - was
      BY <1>2, <2>3, <2>4, <2>5
    <2> QED
      BY <2>3, <2>6 DEF a, b
  <1>5. IsFiniteSet(S \cup {key})
    BY <1>1, FS_AddElement
  <1>6. SumFunction(new) = SumFunction(old) + 1
    <2> HIDE DEF was
    <2> QED
      BY <1>2, <1>3, <1>4
  <1> QED
    BY <1>3, <1>4, <1>5, <1>6 DEF key, S, old, new

\* One update: it is counted, or it is dropped, and then that is counted.
LEMMA RecordedOK ==
  ASSUME MaxSeries \in Nat, NEW r, RegistryOK(r), NEW update, KnownUpdate(update),
         NEW sampled, NEW at
  PROVE  /\ RegistryOK(Recorded(r, update, sampled, at))
         /\ Accounted(r) \in Int
         /\ Accounted(Recorded(r, update, sampled, at)) = Accounted(r) + 1
  <1> DEFINE verdict == Verdict(r, update, sampled, at)
             drops == CountedDrops(r, update, verdict)
             counted == [r EXCEPT !.drops = drops]
             m == update.metric
             known == r.series[m]
             series == Series(update)
             key == [kind |-> update.kind, series |-> series]
             entries == Entry(r, update)
             new == Recorded(r, update, sampled, at)
  <1>1. /\ DOMAIN r = {"entries", "series", "gate", "drops"}
        /\ r.drops \in [Drops -> Int] /\ "label" \in Drops
        /\ IsFiniteSet(DOMAIN r.entries) /\ r.entries \in [DOMAIN r.entries -> Int]
        /\ DOMAIN r.series = Metrics /\ m \in Metrics
        /\ IsFiniteSet(known) /\ Cardinality(known) \in Nat /\ Cardinality(known) <= MaxSeries
    BY FS_CardinalityType DEF RegistryOK, KnownUpdate, Drops
  <1>2. verdict \in (Drops \ {"label"}) \cup {"accepted"}
    BY DEF Verdict, Drops
  <1>3. verdict = "accepted" => series \in known \/ Cardinality(known) < MaxSeries
    BY <1>1 DEF Verdict
  <1>4. InvalidTags(update.tags) \in Nat
    BY InvalidTagsType DEF KnownUpdate
  <1> HIDE DEF verdict
  <1>5. /\ SumFunction(r.drops) \in Int /\ drops \in [Drops -> Int] /\ SumFunction(drops) \in Int
        /\ SumFunction(drops) - drops["label"]
             = SumFunction(r.drops) - r.drops["label"] + IF verdict = "accepted" THEN 0 ELSE 1
    BY <1>1, <1>2, <1>4, DropsCount
  <1>6. /\ SumFunction(r.entries) \in Int /\ SumFunction(entries) = SumFunction(r.entries) + 1
        /\ IsFiniteSet(DOMAIN entries) /\ entries \in [DOMAIN entries -> Int]
        /\ DOMAIN entries = DOMAIN r.entries \cup {key}
    BY <1>1, EntriesCount
  <1> HIDE DEF drops, entries
  <1>7. /\ DOMAIN counted = {"entries", "series", "gate", "drops"}
        /\ counted.drops = drops /\ counted.entries = r.entries /\ counted.series = r.series
    BY <1>1
  <1> DEFINE total == SumFunction(r.entries)
             old == SumFunction(r.drops)
             label == r.drops["label"]
             sum == SumFunction(drops)
             tags == drops["label"]
  <1>8. total \in Int /\ old \in Int /\ label \in Int /\ sum \in Int /\ tags \in Int
    BY <1>1, <1>5, <1>6
  <1>9. Accounted(r) = total + old - label
    BY DEF Accounted, DroppedMetrics
  <1>10. CASE verdict # "accepted"
    <2>1. new = counted
      BY <1>10 DEF Recorded, verdict, drops
    <2>2. /\ new.entries = r.entries /\ new.series = r.series /\ new.drops = drops
          /\ DOMAIN new = {"entries", "series", "gate", "drops"}
      BY <1>7, <2>1
    <2>3. Accounted(new) = total + sum - tags
      BY <2>2 DEF Accounted, DroppedMetrics
    <2>4. sum - tags = old - label + 1
      BY <1>5, <1>10
    <2> HIDE DEF new, total, old, label, sum, tags
    <2>5. Accounted(new) = Accounted(r) + 1 /\ Accounted(r) \in Int
      BY <1>8, <1>9, <2>3, <2>4
    <2>6. RegistryOK(new)
      BY <1>5, <2>2 DEF RegistryOK
    <2> QED
      BY <2>5, <2>6 DEF new
  <1>11. CASE verdict = "accepted"
    <2> DEFINE gate == Gate(r, update, at)
               admitted == [r.series EXCEPT ![m] = @ \cup {series}]
    <2>1. new = [counted EXCEPT !.entries = entries, !.gate = gate,
                                !.series[m] = @ \cup {series}]
      BY <1>11 DEF Recorded, verdict, drops, entries
    <2> HIDE DEF gate
    <2>2. /\ new.entries = entries /\ new.drops = drops /\ new.series = admitted
          /\ DOMAIN new = {"entries", "series", "gate", "drops"}
      <3> HIDE DEF counted, new
      <3> QED
        BY <1>7, <2>1
    <2>3. /\ DOMAIN admitted = Metrics /\ admitted[m] = known \cup {series}
          /\ \A k \in Metrics : k # m => admitted[k] = r.series[k]
      BY <1>1
    <2>4. IsFiniteSet(known \cup {series}) /\ Cardinality(known \cup {series}) <= MaxSeries
      <3>1. CASE series \in known
        <4>1. known \cup {series} = known
          BY <3>1
        <4> QED
          BY <1>1, <4>1
      <3>2. CASE series \notin known
        <4>1. Cardinality(known) < MaxSeries
          BY <1>3, <1>11, <3>2
        <4>2. /\ IsFiniteSet(known \cup {series})
              /\ Cardinality(known \cup {series}) = Cardinality(known) + 1
          BY <1>1, <3>2, FS_AddElement
        <4> HIDE DEF known, series
        <4> QED
          BY <1>1, <4>1, <4>2
      <3> QED
        BY <3>1, <3>2
    <2>5. Accounted(new) = (total + 1) + sum - tags
      BY <1>6, <2>2 DEF Accounted, DroppedMetrics
    <2>6. sum - tags = old - label
      <3> HIDE DEF sum, tags, old, label
      <3> QED
        BY <1>5, <1>8, <1>11 DEF sum, tags, old, label
    <2> HIDE DEF new, total, old, label, sum, tags, admitted
    <2>7. Accounted(new) = Accounted(r) + 1 /\ Accounted(r) \in Int
      BY <1>8, <1>9, <2>5, <2>6
    <2>8. \A k \in Metrics : /\ IsFiniteSet(admitted[k]) /\ Cardinality(admitted[k]) <= MaxSeries
                             /\ r.series[k] \subseteq admitted[k]
      BY <1>1, <2>3, <2>4 DEF RegistryOK
    <2>9. ASSUME NEW e \in DOMAIN entries, NEW k \in Metrics, e.series.metric = k
          PROVE  e.series \in admitted[k]
      <3>1. CASE e \in DOMAIN r.entries
        BY <2>8, <2>9, <3>1 DEF RegistryOK
      <3>2. CASE e = key
        <4>1. e.series = series /\ series.metric = m
          BY <3>2 DEF Series
        <4> QED
          BY <2>3, <2>9, <4>1
      <3> QED
        BY <1>6, <2>9, <3>1, <3>2
    <2>10. RegistryOK(new)
      BY <1>5, <1>6, <2>2, <2>3, <2>8, <2>9 DEF RegistryOK
    <2> QED
      BY <2>7, <2>10 DEF new
  <1> QED
    BY <1>10, <1>11

\* Updates in a row: each is counted or dropped.
LEMMA RecordedAllOK ==
  ASSUME MaxSeries \in Nat, NEW r, RegistryOK(r), NEW updates, Len(updates) \in Nat,
         \A n \in 1 .. Len(updates) : KnownUpdate(updates[n]),
         NEW sampled, NEW at
  PROVE  /\ RegistryOK(RecordedAll(r, updates, sampled, at))
         /\ Accounted(r) \in Int =>
              Accounted(RecordedAll(r, updates, sampled, at)) = Accounted(r) + Len(updates)
  <1> DEFINE N == Len(updates)
  <1>0. PICK after : After(r, updates, sampled, at, after)
    BY RecordedUnfolds
  <1>1. /\ after[0] = r
        /\ \A n \in 1 .. N : after[n] = Recorded(after[n - 1], updates[n], sampled[n], at)
        /\ RecordedAll(r, updates, sampled, at) = after[N]
    BY <1>0 DEF After
  <1> DEFINE T == {n \in Nat : n <= N =>
                     /\ RegistryOK(after[n])
                     /\ Accounted(r) \in Int => Accounted(after[n]) = Accounted(r) + n}
  <1>2. 0 \in T
    <2>1. Accounted(r) \in Int => Accounted(r) + 0 = Accounted(r)
      OBVIOUS
    <2> QED
      BY <1>1, <2>1
  <1>3. ASSUME NEW n \in Nat, n \in T PROVE n + 1 \in T
    <2> SUFFICES ASSUME n + 1 <= N
                 PROVE  /\ RegistryOK(after[n + 1])
                        /\ Accounted(r) \in Int =>
                             Accounted(after[n + 1]) = Accounted(r) + (n + 1)
      OBVIOUS
    <2>1. n + 1 \in 1 .. N /\ (n + 1) - 1 = n /\ n <= N
      OBVIOUS
    <2>2. RegistryOK(after[n]) /\ (Accounted(r) \in Int => Accounted(after[n]) = Accounted(r) + n)
      BY <1>3, <2>1
    <2>3. /\ after[n + 1] = Recorded(after[n], updates[n + 1], sampled[n + 1], at)
          /\ KnownUpdate(updates[n + 1])
      BY <1>1, <2>1
    <2>4. /\ RegistryOK(after[n + 1]) /\ Accounted(after[n]) \in Int
          /\ Accounted(after[n + 1]) = Accounted(after[n]) + 1
      BY <2>2, <2>3, RecordedOK
    <2> QED
      BY <2>2, <2>4
  <1>4. Nat \subseteq T
    <2> HIDE DEF T
    <2> QED
      BY <1>2, <1>3, SetInduction
  <1>5. N \in T
    BY <1>4
  <1>6. /\ RegistryOK(after[N])
        /\ Accounted(r) \in Int => Accounted(after[N]) = Accounted(r) + N
    BY <1>5
  <1> HIDE DEF T
  <1> QED
    BY <1>1, <1>6

\* The registry is sound, and every update it was asked for is accounted for.
AccountInv == RegistryOK(registry) /\ requested = Accounted(registry) /\ Accounted(registry) \in Int

LEMMA RecordStep ==
  ASSUME MaxSeries \in Nat, AccountInv, NEW updates, Len(updates) \in Nat,
         \A n \in 1 .. Len(updates) : KnownUpdate(updates[n]), Record(updates)
  PROVE  AccountInv'
  <1>1. PICK sampled : registry' = RecordedAll(registry, updates, sampled, second)
    BY DEF Record
  <1>2. /\ RegistryOK(RecordedAll(registry, updates, sampled, second))
        /\ Accounted(RecordedAll(registry, updates, sampled, second))
             = Accounted(registry) + Len(updates)
    BY RecordedAllOK DEF AccountInv
  <1>3. RegistryOK(registry') /\ Accounted(registry') = Accounted(registry) + Len(updates)
    BY <1>1, <1>2
  <1>4. requested' = requested + Len(updates)
    BY DEF Record
  <1> QED
    BY <1>3, <1>4 DEF AccountInv

\* The updates of the instrumentation helpers, of the bot's events and of its life
\* are to metrics that the registry knows.
LEMMA TagsFinite ==
  /\ IsFiniteSet(DOMAIN <<>>)
  /\ \A x : /\ IsFiniteSet(DOMAIN [operation |-> x]) /\ IsFiniteSet(DOMAIN [source |-> x])
            /\ IsFiniteSet(DOMAIN [class |-> x]) /\ IsFiniteSet(DOMAIN [type |-> x])
            /\ IsFiniteSet(DOMAIN [method |-> x]) /\ IsFiniteSet(DOMAIN [action |-> x])
            /\ IsFiniteSet(DOMAIN [event |-> x]) /\ IsFiniteSet(DOMAIN [tag |-> x])
  <1>1. IsFiniteSet({}) /\ \A x : IsFiniteSet({x})
    BY FS_EmptySet, FS_Singleton
  <1>2. DOMAIN <<>> = {}
    OBVIOUS
  <1>3. \A x : /\ DOMAIN [operation |-> x] = {"operation"} /\ DOMAIN [source |-> x] = {"source"}
               /\ DOMAIN [class |-> x] = {"class"} /\ DOMAIN [type |-> x] = {"type"}
               /\ DOMAIN [method |-> x] = {"method"} /\ DOMAIN [action |-> x] = {"action"}
               /\ DOMAIN [event |-> x] = {"event"} /\ DOMAIN [tag |-> x] = {"tag"}
    OBVIOUS
  <1> QED
    BY <1>1, <1>2, <1>3

LEMMA KnownIncrement ==
  ASSUME NEW metric \in Metrics, NEW tags, IsFiniteSet(DOMAIN tags)
  PROVE  KnownUpdate(Increment(metric, tags)) /\ KnownUpdate(Observe(metric, tags))
  BY DEF KnownUpdate, Increment, Observe

AllKnown(updates) ==
  Len(updates) \in Nat /\ \A n \in 1 .. Len(updates) : KnownUpdate(updates[n])

LEMMA KnownLists ==
  /\ AllKnown(<<>>)
  /\ \A u : KnownUpdate(u) => AllKnown(<<u>>)
  /\ \A u, v : KnownUpdate(u) /\ KnownUpdate(v) => AllKnown(<<u, v>>)
  BY DEF AllKnown

LEMMA KnownConcat ==
  ASSUME NEW S, NEW s \in Seq(S), NEW t \in Seq(S), AllKnown(s), AllKnown(t)
  PROVE  AllKnown(s \o t)
  <1>1. Len(s) \in Nat /\ Len(t) \in Nat /\ Len(s \o t) = Len(s) + Len(t)
    OBVIOUS
  <1>2. ASSUME NEW n \in 1 .. Len(s \o t) PROVE KnownUpdate((s \o t)[n])
    <2>1. CASE n <= Len(s)
      <3>1. n \in 1 .. Len(s) /\ (s \o t)[n] = s[n]
        BY <1>1, <2>1
      <3> QED
        BY <3>1 DEF AllKnown
    <2>2. CASE n > Len(s)
      <3>1. n - Len(s) \in 1 .. Len(t) /\ (s \o t)[n] = t[n - Len(s)]
        BY <1>1, <2>2
      <3> QED
        BY <3>1 DEF AllKnown
    <2> QED
      BY <1>1, <2>1, <2>2
  <1> QED
    BY <1>1, <1>2 DEF AllKnown

LEMMA SettledKnown ==
  ASSUME TelemetryAssumption, NEW c, NEW ok \in BOOLEAN
  PROVE  AllKnown(SettledUpdates(c, ok))
  <1> DEFINE kind == call[c].kind
             tags == CallTags(c)
             failed == [tags EXCEPT !.operation = "error"]
  <1>1. "total" \in Metrics /\ "duration" \in Metrics /\ "errors" \in Metrics
    BY DEF TelemetryAssumption, UpdatedMetrics
  <1>2. IsFiniteSet(DOMAIN tags) /\ DOMAIN failed = DOMAIN tags
    BY TagsFinite DEF CallTags
  <1> HIDE DEF kind, tags
  <1>3. /\ KnownUpdate(Increment("total", tags)) /\ KnownUpdate(Observe("duration", tags))
        /\ KnownUpdate(Observe("duration", failed))
        /\ KnownUpdate(Increment("errors", [source |-> kind]))
    BY <1>1, <1>2, TagsFinite, KnownIncrement
  <1> HIDE DEF failed
  <1>4. SettledUpdates(c, ok) =
          IF kind = "span" THEN <<>>
          ELSE IF kind = "tracked" THEN <<Observe("duration", IF ok THEN tags ELSE failed)>>
          ELSE IF ok THEN <<Increment("total", tags), Observe("duration", tags)>>
          ELSE <<Increment("errors", [source |-> kind])>>
    BY DEF SettledUpdates, kind, tags, failed
  <1> QED
    BY <1>3, <1>4, KnownLists

LEMMA EventKnown ==
  ASSUME TelemetryAssumption, NEW event \in Events
  PROVE  AllKnown(EventUpdates(event))
  <1> DEFINE tag == event.tag
             action == Increment("botUpdates", [action |-> tag])
             latency == Observe("botLatency", [action |-> tag])
  <1>1. /\ "botErrors" \in Metrics /\ "botUpdates" \in Metrics /\ "botCalls" \in Metrics
        /\ "botLatency" \in Metrics
        /\ event.name \in EventNames /\ event.timed \in BOOLEAN
    BY DEF TelemetryAssumption, UpdatedMetrics
  <1> HIDE DEF tag
  <1>2. /\ KnownUpdate(Increment("botErrors", [class |-> tag]))
        /\ KnownUpdate(Increment("botUpdates", [type |-> tag]))
        /\ KnownUpdate(Increment("botCalls", [method |-> tag]))
        /\ KnownUpdate(Observe("botLatency", [method |-> tag]))
        /\ KnownUpdate(Increment("botErrors", [method |-> tag]))
        /\ KnownUpdate(action) /\ KnownUpdate(latency)
    BY <1>1, TagsFinite, KnownIncrement
  <1> HIDE DEF action, latency
  <1>3. CASE event.name \in {"queue_event", "db_event"}
    <2>1. EventUpdates(event) = <<action>> \o IF event.timed THEN <<latency>> ELSE <<>>
      BY <1>3 DEF EventUpdates, tag, action, latency
    <2> DEFINE first == <<action>>
               rest == IF event.timed THEN <<latency>> ELSE <<>>
               S == {action, latency}
    <2>2. first \in Seq(S) /\ rest \in Seq(S)
      <3>1. action \in S /\ latency \in S
        OBVIOUS
      <3> HIDE DEF S
      <3>2. <<action>> \in Seq(S) /\ <<latency>> \in Seq(S) /\ <<>> \in Seq(S)
        BY <3>1
      <3> QED
        BY <3>2
    <2>3. AllKnown(first) /\ AllKnown(rest)
      BY <1>2, KnownLists
    <2> HIDE DEF first, rest, S
    <2>4. AllKnown(first \o rest)
      BY <2>2, <2>3, KnownConcat
    <2> QED
      BY <2>1, <2>4 DEF first, rest
  <1>4. CASE event.name = "error"
    BY <1>2, <1>4, KnownLists DEF EventUpdates, tag
  <1>5. CASE event.name = "update"
    BY <1>2, <1>5, KnownLists DEF EventUpdates, tag
  <1>6. CASE event.name = "api_call"
    BY <1>2, <1>6, KnownLists DEF EventUpdates, tag
  <1>7. CASE event.name = "api_result"
    BY <1>2, <1>7, KnownLists DEF EventUpdates, tag
  <1>8. CASE event.name = "api_error"
    BY <1>2, <1>8, KnownLists DEF EventUpdates, tag
  <1> QED
    BY <1>1, <1>3, <1>4, <1>5, <1>6, <1>7, <1>8 DEF EventNames

\* Reading a counter drops the invalid tags of the question.
LEMMA ReadStep ==
  ASSUME AccountInv, NEW tags, IsFiniteSet(DOMAIN tags),
         registry' = ReadCounter(registry, tags), requested' = requested
  PROVE  AccountInv'
  <1> DEFINE old == registry.drops
             new == [old EXCEPT !["label"] = @ + InvalidTags(tags)]
  <1>1. /\ DOMAIN registry = {"entries", "series", "gate", "drops"}
        /\ old \in [Drops -> Int] /\ "label" \in Drops /\ InvalidTags(tags) \in Nat
    BY InvalidTagsType DEF AccountInv, RegistryOK, Drops
  <1>2. registry' = [registry EXCEPT !.drops = new]
    BY DEF ReadCounter
  <1> HIDE DEF new
  <1>3. /\ DOMAIN registry' = {"entries", "series", "gate", "drops"}
        /\ registry'.entries = registry.entries /\ registry'.series = registry.series
        /\ registry'.drops = new
    BY <1>1, <1>2
  <1>4. /\ new \in [Drops -> Int]
        /\ \A reason \in Drops : reason # "label" => new[reason] = old[reason]
    BY <1>1 DEF new
  <1>5. Changed(old, Drops, "label", new)
    <2>1. Drops \cup {"label"} = Drops
      BY <1>1
    <2> QED
      BY <1>1, <1>4, <2>1, DropsFinite DEF Changed
  <1>6. /\ SumFunction(old) \in Int /\ SumFunction(new) \in Int
        /\ SumFunction(new) = SumFunction(old) + new["label"] - old["label"]
    BY <1>1, <1>5, SumChanges
  <1>7. new["label"] \in Int /\ old["label"] \in Int
    BY <1>1, <1>4
  <1>8. SumFunction(new) - new["label"] = SumFunction(old) - old["label"]
    BY <1>6, <1>7
  <1>9. SumFunction(registry.entries) \in Int
    BY EntriesCount DEF AccountInv, RegistryOK
  <1> HIDE DEF old
  <1>10. Accounted(registry') = Accounted(registry)
    BY <1>3, <1>6, <1>7, <1>8, <1>9 DEF Accounted, DroppedMetrics, old
  <1>11. RegistryOK(registry')
    BY <1>3, <1>4 DEF AccountInv, RegistryOK
  <1> QED
    BY <1>10, <1>11 DEF AccountInv

\* Every update that the registry was asked to record is in a counter or a histogram,
\* or among the drops that health reports, and no metric has more series than
\* maxSeriesPerMetric (MetricsRegistry.makeKey, increment, observe, health).
THEOREM UpdatesAreAccounted == TelemetrySpec => []UpdatesAccounted
  <1> USE MetricsAssumption, TelemetryAssumption
  <1>0. MaxSeries \in Nat /\ MaxSeries >= 0
    BY DEF MetricsAssumption
  <1>1. TelemetryInit => AccountInv
    <2> SUFFICES ASSUME TelemetryInit PROVE AccountInv
      OBVIOUS
    <2> DEFINE drops == [reason \in Drops |-> 0]
               entries == <<>>
    <2>1. /\ DOMAIN registry = {"entries", "series", "gate", "drops"}
          /\ registry.entries = entries /\ registry.drops = drops
          /\ registry.series = [m \in Metrics |-> {}] /\ requested = 0
      BY DEF TelemetryInit, EmptyRegistry
    <2>2. drops \in [Drops -> {0}] /\ drops \in [Drops -> Int] /\ drops["label"] = 0
      BY DEF Drops
    <2>3. DOMAIN entries = {} /\ entries \in [{} -> {0}] /\ entries \in [DOMAIN entries -> Int]
      OBVIOUS
    <2> HIDE DEF drops, entries
    <2>4. IsFiniteSet({}) /\ Cardinality({}) = 0
      BY FS_EmptySet
    <2>5. SumFunction(drops) = 0
      BY <2>2, DropsFinite, SumZero
    <2>6. SumFunction(entries) = 0
      BY <2>3, <2>4, SumZero
    <2>7. Accounted(registry) = 0
      BY <2>1, <2>2, <2>5, <2>6 DEF Accounted, DroppedMetrics
    <2>8. RegistryOK(registry)
      BY <1>0, <2>1, <2>2, <2>3, <2>4 DEF RegistryOK
    <2> QED
      BY <2>1, <2>7, <2>8 DEF AccountInv
  <1>2. AccountInv /\ [TelemetryNext]_telemetry => AccountInv'
    <2> SUFFICES ASSUME AccountInv, [TelemetryNext]_telemetry PROVE AccountInv'
      OBVIOUS
    <2>1. ASSUME NEW updates, AllKnown(updates), Record(updates) PROVE AccountInv'
      BY <1>0, <2>1, RecordStep DEF AllKnown
    <2>2. ASSUME UNCHANGED metrics PROVE AccountInv'
      BY <2>2 DEF AccountInv, metrics
    <2>3. ASSUME NEW c \in Calls,
                 \/ \E kind \in CallKinds : Begin(c, kind)
                 \/ Suspend(c) \/ Resume(c) \/ End(c) \/ ThrowSync(c)
          PROVE  AccountInv'
      BY <2>2, <2>3 DEF Begin, Suspend, Resume, End, ThrowSync
    <2>4. ASSUME NEW c \in Calls, NEW ok \in BOOLEAN, SettleCall(c, ok) PROVE AccountInv'
      <3>1. AllKnown(SettledUpdates(c, ok))
        BY SettledKnown
      <3> QED
        BY <2>1, <2>4, <3>1 DEF SettleCall
    <2>5. ASSUME Attach \/ Detach PROVE AccountInv'
      <3>1. "lifecycle" \in Metrics
        BY DEF TelemetryAssumption, UpdatedMetrics
      <3>2. \A x : AllKnown(<<Increment("lifecycle", [event |-> x])>>)
        BY <3>1, TagsFinite, KnownIncrement, KnownLists
      <3> QED
        BY <2>1, <2>5, <3>2 DEF Attach, Detach
    <2>6. ASSUME NEW event \in Events, Emit(event) \/ Hook(event) PROVE AccountInv'
      <3>1. AllKnown(EventUpdates(event))
        BY EventKnown
      <3> QED
        BY <2>1, <2>2, <2>6, <3>1 DEF Emit, Hook
    <2>7. ASSUME NEW event \in Events, Read([tag |-> event.tag]) PROVE AccountInv'
      BY <2>7, TagsFinite, ReadStep DEF Read
    <2>8. CASE PassSecond \/ UNCHANGED telemetry
      BY <2>2, <2>8 DEF PassSecond, telemetry
    <2> QED
      BY <2>3, <2>4, <2>5, <2>6, <2>7, <2>8 DEF TelemetryNext
  <1>3. AccountInv => UpdatesAccounted
    <2> SUFFICES ASSUME AccountInv PROVE UpdatesAccounted
      OBVIOUS
    <2>1. requested = SumFunction(registry.entries)
                    + DroppedMetrics(registry) - registry.drops["label"]
      BY DEF AccountInv, Accounted
    <2>2. ASSUME NEW m \in Metrics
          PROVE  Cardinality({key.series : key \in {k \in DOMAIN registry.entries :
                                                      k.series.metric = m}}) <= MaxSeries
      <3> DEFINE S == {key.series : key \in {k \in DOMAIN registry.entries : k.series.metric = m}}
      <3>1. S \subseteq registry.series[m]
        BY DEF AccountInv, RegistryOK
      <3> HIDE DEF S
      <3>2. IsFiniteSet(registry.series[m]) /\ Cardinality(registry.series[m]) <= MaxSeries
        BY DEF AccountInv, RegistryOK
      <3>3. IsFiniteSet(S) /\ Cardinality(S) <= Cardinality(registry.series[m])
        BY <3>1, <3>2, FS_Subset
      <3>4. Cardinality(S) \in Nat /\ Cardinality(registry.series[m]) \in Nat
        BY <3>2, <3>3, FS_CardinalityType
      <3>5. Cardinality(S) <= MaxSeries
        BY <1>0, <3>2, <3>3, <3>4
      <3> QED
        BY <3>5 DEF S
    <2> QED
      BY <2>1, <2>2 DEF UpdatesAccounted
  <1> QED
    BY <1>1, <1>2, <1>3, PTL DEF TelemetrySpec

===============================================================================
