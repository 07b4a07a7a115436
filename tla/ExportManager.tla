----------------------------- MODULE ExportManager -----------------------------
(***************************************************************************)
(* ExportManager (packages/observability/src/export-manager.ts): a queue of *)
(* telemetry items that a timer, the application and the signal handlers    *)
(* flush to an exporter, with a timeout and retries per flush and a circuit *)
(* over flushes.                                                           *)
(*                                                                         *)
(* Items are numbered in the order in which they are enqueued.  There is    *)
(* one flush at a time:                                                    *)
(*   idle        flushing is false                                         *)
(*   exporting   exportBatch runs                                          *)
(*   waiting     between two attempts                                      *)
(* An attempt that timed out is not cancelled: its exportBatch goes on and  *)
(* settles when it likes.                                                  *)
(***************************************************************************)
EXTENDS Naturals, Sequences, FiniteSets

CONSTANTS QueueSize,   \* queueSize
          MaxRetries,  \* maxRetries
          Threshold,   \* circuitBreakerThreshold
          MaxItems,    \* bound: items offered
          MaxFaults,   \* bound: attempts that fail or time out
          MaxStops     \* bound: stop and flushAndStop calls

ASSUME ExportManagerAssumption ==
  /\ QueueSize \in Nat /\ MaxRetries \in Nat /\ Threshold \in Nat
  /\ MaxItems \in Nat /\ MaxFaults \in Nat /\ MaxStops \in Nat

VARIABLES timer,         \* the interval is set
          queue,
          pc, batch, attempt,  \* of the running flush
          late,          \* batches whose attempt timed out but still runs
          failures, exportErrors, dropped,
          circuit,       \* closed; open; elapsed: open for circuitOpenMs or longer
          offered,       \* enqueue calls
          accepted,      \* items that were queued
          exported,      \* items that the exporter has taken
          faults, stops

flush == <<pc, batch, attempt>>
vars == <<timer, queue, flush, late, failures, exportErrors, dropped, circuit,
          offered, accepted, exported, faults, stops>>

Init ==
  /\ timer = FALSE /\ queue = <<>>
  /\ pc = "idle" /\ batch = <<>> /\ attempt = 0
  /\ late = {}
  /\ failures = 0 /\ exportErrors = 0 /\ dropped = 0 /\ circuit = "closed"
  /\ offered = 0 /\ accepted = {} /\ exported = {}
  /\ faults = 0 /\ stops = 0

Items(sequence) == {sequence[i] : i \in DOMAIN sequence}

-------------------------------------------------------------------------------
(* The application and the timer.                                          *)

Start ==
  /\ timer' = TRUE
  /\ UNCHANGED <<queue, flush, late, failures, exportErrors, dropped, circuit,
                 offered, accepted, exported, faults, stops>>

Stop ==
  /\ stops < MaxStops
  /\ stops' = stops + 1
  /\ timer' = FALSE
  /\ UNCHANGED <<queue, flush, late, failures, exportErrors, dropped, circuit,
                 offered, accepted, exported, faults>>

\* Defect: one item more than queueSize.
EnqueueOffByOne ==
  /\ offered < MaxItems
  /\ offered' = offered + 1
  /\ IF Len(queue) > QueueSize
       THEN dropped' = dropped + 1 /\ UNCHANGED <<queue, accepted>>
       ELSE /\ queue' = Append(queue, offered + 1)
            /\ accepted' = accepted \cup {offered + 1}
            /\ UNCHANGED dropped
  /\ UNCHANGED <<timer, flush, late, failures, exportErrors, circuit, exported,
                 faults, stops>>

\* A full queue drops the new item, and throws too unless failOpen.
Enqueue ==
  /\ offered < MaxItems
  /\ offered' = offered + 1
  /\ IF Len(queue) >= QueueSize
       THEN dropped' = dropped + 1 /\ UNCHANGED <<queue, accepted>>
       ELSE /\ queue' = Append(queue, offered + 1)
            /\ accepted' = accepted \cup {offered + 1}
            /\ UNCHANGED dropped
  /\ UNCHANGED <<timer, flush, late, failures, exportErrors, circuit, exported,
                 faults, stops>>

\* Defect: only diagnostics notices that the circuit has been open long enough.
MayFlushClosed == pc = "idle" /\ queue # <<>> /\ circuit = "closed"

\* What flush does before its first await: the whole queue becomes the batch.
MayFlush == pc = "idle" /\ queue # <<>> /\ circuit # "open"

BeginFlush ==
  /\ MayFlush
  /\ pc' = "exporting" /\ batch' = queue /\ attempt' = 0
  /\ queue' = <<>>
  /\ circuit' = "closed"

\* flush, by the timer or by the application.
Tick ==
  /\ timer
  /\ BeginFlush
  /\ UNCHANGED <<timer, late, failures, exportErrors, dropped, offered, accepted,
                 exported, faults, stops>>

Flush ==
  /\ BeginFlush
  /\ UNCHANGED <<timer, late, failures, exportErrors, dropped, offered, accepted,
                 exported, faults, stops>>

\* flushAndStop, also by the handlers of SIGTERM and SIGINT: a flush that cannot
\* begin does nothing.
FlushAndStop ==
  /\ stops < MaxStops
  /\ stops' = stops + 1
  /\ timer' = FALSE
  /\ \/ BeginFlush
     \/ ~MayFlush /\ UNCHANGED <<queue, flush, circuit>>
  /\ UNCHANGED <<late, failures, exportErrors, dropped, offered, accepted, exported,
                 faults>>

\* Date.now() passes circuitOpenMs.
Elapse ==
  /\ circuit = "open"
  /\ circuit' = "elapsed"
  /\ UNCHANGED <<timer, queue, flush, late, failures, exportErrors, dropped, offered,
                 accepted, exported, faults, stops>>

\* diagnostics: asking whether the circuit is open closes one that has elapsed.
Diagnostics ==
  /\ circuit = "elapsed"
  /\ circuit' = "closed"
  /\ UNCHANGED <<timer, queue, flush, late, failures, exportErrors, dropped, offered,
                 accepted, exported, faults, stops>>

-------------------------------------------------------------------------------
(* The running flush.                                                      *)

EndFlush == pc' = "idle" /\ batch' = <<>> /\ attempt' = 0

ExportSucceeds ==
  /\ pc = "exporting"
  /\ exported' = exported \cup Items(batch)
  /\ failures' = 0
  /\ EndFlush
  /\ UNCHANGED <<timer, queue, late, exportErrors, dropped, circuit, offered, accepted,
                 faults, stops>>

\* Defect: the batch of a failed flush is forgotten.
GiveUpForgetting ==
  /\ attempt >= MaxRetries
  /\ exportErrors' = exportErrors + 1
  /\ failures' = failures + 1
  /\ circuit' = IF failures' >= Threshold THEN "open" ELSE circuit
  /\ UNCHANGED queue
  /\ EndFlush

\* The last attempt failed: the batch goes back in front of what was enqueued
\* meanwhile, however long the queue becomes.
GiveUp ==
  /\ attempt >= MaxRetries
  /\ exportErrors' = exportErrors + 1
  /\ failures' = failures + 1
  /\ circuit' = IF failures' >= Threshold THEN "open" ELSE circuit
  /\ queue' = batch \o queue
  /\ EndFlush

Retry ==
  /\ attempt < MaxRetries
  /\ pc' = "waiting"
  /\ UNCHANGED <<batch, attempt, exportErrors, failures, circuit, queue>>

\* exportBatch rejects; the exporter may have taken the batch all the same.
ExportFails ==
  /\ pc = "exporting"
  /\ faults < MaxFaults /\ faults' = faults + 1
  /\ GiveUp \/ Retry
  /\ exported' \in {exported, exported \cup Items(batch)}
  /\ UNCHANGED <<timer, late, dropped, offered, accepted, stops>>

ExportTimesOut ==
  /\ pc = "exporting"
  /\ faults < MaxFaults /\ faults' = faults + 1
  /\ GiveUp \/ Retry
  /\ late' = late \cup {Items(batch)}
  /\ UNCHANGED <<timer, dropped, offered, accepted, exported, stops>>

\* sleep(backoffMs * 2 ** attempt) is over.
NextAttempt ==
  /\ pc = "waiting"
  /\ pc' = "exporting" /\ attempt' = attempt + 1
  /\ UNCHANGED <<timer, queue, batch, late, failures, exportErrors, dropped, circuit,
                 offered, accepted, exported, faults, stops>>

\* An attempt that had timed out settles: nobody hears of it.
LateSettles(items) ==
  /\ late' = late \ {items}
  /\ exported' \in {exported, exported \cup items}
  /\ UNCHANGED <<timer, queue, flush, failures, exportErrors, dropped, circuit, offered,
                 accepted, faults, stops>>

Settle == ExportSucceeds \/ ExportFails \/ ExportTimesOut \/ NextAttempt

Next ==
  \/ Start \/ Stop \/ Enqueue \/ Tick \/ Flush \/ FlushAndStop \/ Elapse \/ Diagnostics
  \/ Settle \/ \E items \in late : LateSettles(items)

Spec == Init /\ [][Next]_vars

\* Intervals fire, attempts settle or time out, and time passes.
FairSpec ==
  Spec /\ WF_vars(Tick) /\ WF_vars(Settle) /\ WF_vars(Elapse)

-------------------------------------------------------------------------------
(* Properties.                                                             *)

TypeOK ==
  /\ timer \in BOOLEAN
  /\ queue \in Seq(Nat) /\ batch \in Seq(Nat)
  /\ pc \in {"idle", "exporting", "waiting"}
  /\ attempt \in 0 .. MaxRetries
  /\ late \subseteq SUBSET Nat
  /\ circuit \in {"closed", "open", "elapsed"}
  /\ failures \in Nat /\ exportErrors \in Nat /\ dropped \in Nat /\ offered \in Nat
  /\ faults \in Nat /\ stops \in Nat
  /\ accepted \subseteq 1 .. offered /\ exported \subseteq Nat

\* The items that flushes still have to export, oldest first.
Pending == batch \o queue

\* No flush loses an item, however it fails, times out or is cut short by
\* flushAndStop: what was accepted has been exported or is still pending, in the
\* order in which it was enqueued; and diagnostics owns up to all the rest.
NothingLost ==
  /\ accepted \subseteq exported \cup Items(Pending)
  /\ \A i, j \in DOMAIN Pending : i < j => Pending[i] < Pending[j]
  /\ offered = Cardinality(accepted) + dropped

\* queueSize does not bound the queue ("cached locally in memory up to a configured
\* threshold", docs/RELIABILITY_SEMANTICS.md:61), for a failed batch is put back
\* whatever was enqueued meanwhile; what bounds it is the number of failed flushes.
GrowsByFailedFlushes ==
  /\ Len(queue) <= QueueSize * (exportErrors + 1)
  /\ Len(batch) <= QueueSize * (exportErrors + 1)

\* As long as the timer runs, every accepted item is exported: failures, timeouts,
\* retries and an open circuit only delay it.
Exports ==
  \A item \in 1 .. MaxItems :
    item \in accepted ~> (item \in exported \/ ~timer)

===============================================================================
