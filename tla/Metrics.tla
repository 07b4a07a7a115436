-------------------------------- MODULE Metrics --------------------------------
(***************************************************************************)
(* MetricsRegistry (packages/observability/src/metrics.ts) as operators     *)
(* over a record of its maps and counters.                                 *)
(*                                                                         *)
(* The tags of an update are a function from keys to values; a series is a  *)
(* metric with its tags, and the text of its key is the series itself: that *)
(* composeSeriesKey and parseSeriesKey are inverse to each other needs keys *)
(* and values without '|', ',' and '=', which isValidLabelToken sees to     *)
(* when allowedTagKeys is set.                                             *)
(***************************************************************************)
EXTENDS Integers, Sequences, FiniteSets, Functions

CONSTANTS Metrics,          \* the names of metrics in use
          MaxSeries,        \* maxSeriesPerMetric
          MaxPerSecond,     \* maxSeriesUpdatesPerSecond
          MaxEntries,       \* 100_000
          AllowedTagKeys,   \* <<the set>>, or <<>>: not configured
          DeniedTagKeys,
          InvalidTokens,    \* keys and values that isValidLabelToken refuses
          Shortened         \* what truncation and hashing make of some values

ASSUME MetricsAssumption ==
  MaxSeries \in Nat /\ MaxPerSecond \in Nat /\ MaxEntries \in Nat

Drops == {"sampling", "cardinality", "overflow", "rateLimit", "label"}

\* entries: the counters, and the counts of the histograms.
EmptyRegistry ==
  [entries |-> <<>>, series |-> [m \in Metrics |-> {}], gate |-> <<>>,
   drops   |-> [reason \in Drops |-> 0]]

\* increment by one, and observe.
Increment(metric, tags) == [kind |-> "counter", metric |-> metric, tags |-> tags]
Observe(metric, tags) == [kind |-> "histogram", metric |-> metric, tags |-> tags]

\* isValidLabelToken.
ValidTag(tags, key) == key \notin InvalidTokens /\ tags[key] \notin InvalidTokens

\* sanitizeValue.
Sanitized(value) == IF value \in DOMAIN Shortened THEN Shortened[value] ELSE value

\* normalizeTags: without a list of allowed keys nothing is looked at.
NormalizedTags(tags) ==
  IF AllowedTagKeys = <<>> THEN tags
  ELSE [key \in {k \in DOMAIN tags : /\ ValidTag(tags, k)
                                     /\ k \notin DeniedTagKeys
                                     /\ k \in AllowedTagKeys[1]} |-> Sanitized(tags[key])]

\* ... and every invalid tag counts as a dropped metric.
InvalidTags(tags) ==
  IF AllowedTagKeys = <<>> THEN 0
  ELSE Cardinality({key \in DOMAIN tags : ~ValidTag(tags, key)})

Series(update) == [metric |-> update.metric, tags |-> NormalizedTags(update.tags)]

\* The gate of a series in this second.
AcceptedIn(registry, series, second) ==
  IF series \in DOMAIN registry.gate /\ registry.gate[series].second = second
    THEN registry.gate[series].accepted ELSE 0

\* makeKey: the first test that fails decides.
Verdict(registry, update, sampled, second) ==
  LET series == Series(update)
      known  == registry.series[update.metric]
  IN  CASE ~sampled -> "sampling"
        [] series \notin known /\ Cardinality(known) >= MaxSeries -> "cardinality"
        [] Cardinality(DOMAIN registry.entries) > MaxEntries -> "overflow"
        [] AcceptedIn(registry, series, second) >= MaxPerSecond -> "rateLimit"
        [] OTHER -> "accepted"

\* The counter or the histogram of the series, with the update counted.
Entry(registry, update) ==
  LET key == [kind |-> update.kind, series |-> Series(update)]
      old == IF key \in DOMAIN registry.entries THEN registry.entries[key] ELSE 0
  IN  [k \in DOMAIN registry.entries \cup {key} |->
         IF k = key THEN old + 1 ELSE registry.entries[k]]

\* Defect: an update over the limit of its series is dropped unnoticed.
CountedDropsSilent(registry, update, verdict) ==
  [reason \in Drops |->
     registry.drops[reason]
       + (IF reason = verdict /\ verdict # "rateLimit" THEN 1 ELSE 0)
       + (IF reason = "label" /\ verdict # "sampling" THEN InvalidTags(update.tags) ELSE 0)]

\* The parts of droppedMetrics: the update, and each of its invalid tags.
CountedDrops(registry, update, verdict) ==
  [reason \in Drops |->
     registry.drops[reason]
       + (IF reason = verdict THEN 1 ELSE 0)
       + (IF reason = "label" /\ verdict # "sampling" THEN InvalidTags(update.tags) ELSE 0)]

\* The gate of the series, opened anew every second.
Gate(registry, update, second) ==
  LET series == Series(update)
  IN  [s \in DOMAIN registry.gate \cup {series} |->
         IF s = series
           THEN [second   |-> second,
                 accepted |-> AcceptedIn(registry, series, second) + 1]
           ELSE registry.gate[s]]

\* One update of the registry; `sampled` is what Math.random() decided.
Recorded(registry, update, sampled, second) ==
  LET verdict == Verdict(registry, update, sampled, second)
      counted == [registry EXCEPT !.drops = CountedDrops(registry, update, verdict)]
  IN  IF verdict # "accepted" THEN counted
      ELSE [counted EXCEPT !.entries = Entry(registry, update),
                           !.gate = Gate(registry, update, second),
                           !.series[update.metric] = @ \cup {Series(update)}]

\* Several updates in a row.
RecordedAll(registry, updates, sampled, second) ==
  LET after[n \in 0 .. Len(updates)] ==
        IF n = 0 THEN registry
        ELSE Recorded(after[n - 1], updates[n], sampled[n], second)
  IN  after[Len(updates)]

\* getCounter: reading drops invalid tags too.
ReadCounter(registry, tags) ==
  [registry EXCEPT !.drops.label = @ + InvalidTags(tags)]

\* health: droppedMetrics.
DroppedMetrics(registry) == SumFunction(registry.drops)

===============================================================================
