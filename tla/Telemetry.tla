------------------------------- MODULE Telemetry -------------------------------
(***************************************************************************)
(* Tracer, the instrumentation helpers and attachBotObservability           *)
(* (packages/observability/src) over one MetricsRegistry (Metrics).         *)
(*                                                                         *)
(* A call is one run of instrumentUpdateHandler, instrumentTelegramCall,    *)
(* instrumentDbOperation, instrumentQueueJob, instrumentScheduledTask,      *)
(* trackAsync (kind tracked) or Tracer.withSpan (kind span).  Its function  *)
(* runs in pieces between awaits:                                          *)
(*   idle, running, suspended                                              *)
(*   settled   the function has settled, and then() waits its turn         *)
(*   ended     endSpan has run                                             *)
(*   thrown    a function that is not async threw out of withSpan          *)
(* JavaScript runs one piece at a time, but a piece may call further        *)
(* functions: `stack` is what runs now.  The correlation context is one     *)
(* global variable, because nothing ever enters the AsyncLocalStorage.      *)
(***************************************************************************)
EXTENDS Metrics

CONSTANTS Calls, CallKinds,
          NoCall,
          Events,       \* what the bot may emit
          Samples,      \* {TRUE}, or BOOLEAN with sampleRate below 1
          MaxEvents,    \* bound: events, attachments and reads
          MaxSeconds,   \* bound: seconds that pass
          MaxSuspends   \* bound: awaits of one call

EventNames ==
  {"error", "update", "api_call", "api_result", "api_error", "queue_event", "db_event"}
UpdatedMetrics ==
  {"total", "duration", "errors", "botErrors", "botUpdates", "botCalls", "botLatency",
   "lifecycle"}

ASSUME TelemetryAssumption ==
  /\ CallKinds \subseteq {"update", "telegram", "db", "queue", "scheduler",
                          "tracked", "span"}
  /\ NoCall \notin Calls
  /\ \A event \in Events : event.name \in EventNames /\ event.timed \in BOOLEAN
  /\ UpdatedMetrics \subseteq Metrics
  /\ Samples \subseteq BOOLEAN
  /\ MaxEvents \in Nat /\ MaxSeconds \in Nat /\ MaxSuspends \in Nat

VARIABLES registry, second,
          attached,     \* attachBotObservability has not been undone
          events,       \* events, attachments and reads so far
          requested,    \* updates the registry was asked to record
          context,      \* correlationContextCurrent
          stack,        \* the calls that run now, each with the context it restores
          call          \* pc, kind, caller, trace, parent and awaits of each call

metrics == <<registry, requested>>
telemetry == <<second, attached, events, metrics, context, stack, call>>

NoContext == [trace |-> NoCall, span |-> NoCall]
NewCall == [pc |-> "idle", kind |-> "none", caller |-> NoCall,
            trace |-> NoCall, parent |-> NoCall, awaits |-> 0]

TelemetryInit ==
  /\ registry = EmptyRegistry /\ requested = 0 /\ second = 0
  /\ attached = FALSE /\ events = 0
  /\ context = NoContext /\ stack = <<>>
  /\ call = [c \in Calls |-> NewCall]

Record(updates) ==
  /\ requested' = requested + Len(updates)
  /\ \E sampled \in [DOMAIN updates -> Samples] :
       registry' = RecordedAll(registry, updates, sampled, second)

PassSecond ==
  /\ second < MaxSeconds
  /\ second' = second + 1
  /\ UNCHANGED <<attached, events, metrics, context, stack, call>>

-------------------------------------------------------------------------------
(* Calls.                                                                  *)

Top == stack[Len(stack)]
Runs(c) == stack # <<>> /\ Top.call = c
Caller == IF stack = <<>> THEN NoCall ELSE Top.call

\* withSpan: startSpan takes trace and parent from the context, and the function
\* starts in a context of its own.  trackAsync makes no span.
Begin(c, kind) ==
  /\ call[c].pc = "idle"
  /\ stack' = Append(stack, [call |-> c, restore |-> context, fresh |-> TRUE])
  /\ LET trace == IF context.trace = NoCall THEN c ELSE context.trace
     IN  IF kind = "tracked"
           THEN /\ call' = [call EXCEPT ![c] = [NewCall EXCEPT
                              !.pc = "running", !.kind = kind, !.caller = Caller]]
                /\ UNCHANGED context
           ELSE /\ call' = [call EXCEPT ![c] =
                              [pc |-> "running", kind |-> kind, caller |-> Caller,
                               trace |-> trace, parent |-> context.span, awaits |-> 0]]
                /\ context' = [trace |-> trace, span |-> c]
  /\ UNCHANGED <<second, attached, events, metrics>>

\* Defect: the context is restored when the promise settles.
LeaveLate ==
  /\ stack' = SubSeq(stack, 1, Len(stack) - 1)
  /\ UNCHANGED context

\* The piece is over: withCorrelationContext restores what was there before.
LeavePiece ==
  /\ stack' = SubSeq(stack, 1, Len(stack) - 1)
  /\ context' = Top.restore

\* The function awaits something ...
Suspend(c) ==
  /\ Runs(c)
  /\ call[c].awaits < MaxSuspends
  /\ LeavePiece
  /\ call' = [call EXCEPT ![c].pc = "suspended", ![c].awaits = @ + 1]
  /\ UNCHANGED <<second, attached, events, metrics>>

\* ... and goes on, in whatever context there is then.
Resume(c) ==
  /\ stack = <<>>
  /\ call[c].pc = "suspended"
  /\ stack' = <<[call |-> c, restore |-> context, fresh |-> FALSE]>>
  /\ call' = [call EXCEPT ![c].pc = "running"]
  /\ UNCHANGED <<second, attached, events, metrics, context>>

\* The tags of a call; those of an update handler have none.
CallTags(c) == IF call[c].kind = "update" THEN <<>> ELSE [operation |-> call[c].kind]

\* The updates that a call makes when its function settles.
SettledUpdates(c, ok) ==
  LET kind == call[c].kind
      tags == CallTags(c)
  IN  CASE kind = "span" -> <<>>
        [] kind = "tracked" ->
             <<Observe("duration", IF ok THEN tags ELSE [tags EXCEPT !.operation = "error"])>>
        [] OTHER ->
             IF ok THEN <<Increment("total", tags), Observe("duration", tags)>>
             ELSE <<Increment("errors", [source |-> kind])>>

SettleCall(c, ok) ==
  /\ Runs(c)
  /\ Record(SettledUpdates(c, ok))
  /\ LeavePiece
  /\ call' = [call EXCEPT ![c].pc = "settled"]
  /\ UNCHANGED <<second, attached, events>>

\* endSpan, in then() or catch().
End(c) ==
  /\ stack = <<>>
  /\ call[c].pc = "settled"
  /\ call' = [call EXCEPT ![c].pc = "ended"]
  /\ UNCHANGED <<second, attached, events, metrics, context, stack>>

\* A function of withSpan that is not async throws: its span never ends.
ThrowSync(c) ==
  /\ Runs(c) /\ Top.fresh
  /\ call[c].kind = "span"
  /\ LeavePiece
  /\ call' = [call EXCEPT ![c].pc = "thrown"]
  /\ UNCHANGED <<second, attached, events, metrics>>

-------------------------------------------------------------------------------
(* The bot and the reader of the metrics.                                  *)

\* The handlers that attachBotObservability subscribes.
EventUpdates(event) ==
  CASE event.name = "error"      -> <<Increment("botErrors", [class |-> event.tag])>>
    [] event.name = "update"     -> <<Increment("botUpdates", [type |-> event.tag])>>
    [] event.name = "api_call"   -> <<Increment("botCalls", [method |-> event.tag])>>
    [] event.name = "api_result" -> <<Observe("botLatency", [method |-> event.tag])>>
    [] event.name = "api_error"  -> <<Increment("botErrors", [method |-> event.tag])>>
    [] event.name \in {"queue_event", "db_event"} ->
         <<Increment("botUpdates", [action |-> event.tag])>>
           \o IF event.timed THEN <<Observe("botLatency", [action |-> event.tag])>> ELSE <<>>

Spend == events < MaxEvents /\ events' = events + 1

Attach ==
  /\ ~attached /\ Spend
  /\ attached' = TRUE
  /\ Record(<<Increment("lifecycle", [event |-> "launch"])>>)
  /\ UNCHANGED <<second, context, stack, call>>

Detach ==
  /\ attached /\ Spend
  /\ attached' = FALSE
  /\ Record(<<Increment("lifecycle", [event |-> "shutdown"])>>)
  /\ UNCHANGED <<second, context, stack, call>>

Emit(event) ==
  /\ Spend
  /\ IF attached THEN Record(EventUpdates(event)) ELSE UNCHANGED metrics
  /\ UNCHANGED <<second, attached, context, stack, call>>

\* createRuntimeObservabilityHooks: the same updates, attached or not.
Hook(event) ==
  /\ Spend
  /\ Record(EventUpdates(event))
  /\ UNCHANGED <<second, attached, context, stack, call>>

Read(tags) ==
  /\ Spend
  /\ registry' = ReadCounter(registry, tags)
  /\ UNCHANGED <<second, attached, requested, context, stack, call>>

TelemetryNext ==
  \/ \E c \in Calls :
       \/ \E kind \in CallKinds : Begin(c, kind)
       \/ Suspend(c) \/ Resume(c) \/ End(c) \/ ThrowSync(c)
       \/ \E ok \in BOOLEAN : SettleCall(c, ok)
  \/ Attach \/ Detach \/ PassSecond
  \/ \E event \in Events : Emit(event) \/ Hook(event) \/ Read([tag |-> event.tag])

TelemetrySpec == TelemetryInit /\ [][TelemetryNext]_telemetry

-------------------------------------------------------------------------------
(* Properties.                                                             *)

\* Every update the registry was asked for is in a counter or a histogram, or
\* health admits that it was dropped; droppedMetrics also counts the invalid tags
\* of updates that were recorded.  No metric has more series than its limit.
UpdatesAccounted ==
  /\ requested = SumFunction(registry.entries)
               + DroppedMetrics(registry) - registry.drops["label"]
  /\ \A m \in Metrics :
       Cardinality({key.series : key \in {k \in DOMAIN registry.entries :
                                            k.series.metric = m}}) <= MaxSeries

\* The calls on whose behalf a call was made: those in every set of calls that has
\* its caller and, with a call, the caller of that.
WithCallers(S) == \A d \in S : call[d].caller \in S \cup {NoCall}
CallersOf(c) ==
  {d \in Calls :
     /\ call[c].caller # NoCall
     /\ \A S \in SUBSET Calls : call[c].caller \in S /\ WithCallers(S) => d \in S}

\* Traces do not mix, however the pieces of concurrent calls interleave: between
\* two pieces there is no context, so a span has no parent or one of its callers,
\* whose trace it shares, and otherwise a trace of its own.
TracesApart ==
  /\ stack = <<>> => context = NoContext
  /\ \A c \in Calls :
       call[c].trace # NoCall =>
         IF call[c].parent = NoCall THEN call[c].trace = c
         ELSE /\ call[c].parent \in CallersOf(c)
              /\ call[c].trace = call[call[c].parent].trace

===============================================================================
