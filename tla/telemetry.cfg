\* Two calls, each suspended at most once; one series per metric and one update of
\* a series per second.
SPECIFICATION TelemetrySpec
CONSTANTS
  Calls = {c1, c2}
  NoCall = NoCall
  CallKinds = {"update", "tracked", "span"}
  Metrics = {"total", "duration", "errors", "botErrors", "botUpdates", "botCalls", "botLatency", "lifecycle"}
  MaxSeries = 1
  MaxPerSecond = 1
  MaxEntries = 3
  AllowedTagKeys <- MCAllowed
  DeniedTagKeys = {"method"}
  InvalidTokens = {"bad label"}
  Shortened <- MCShortened
  Events <- MCEvents
  Samples = {TRUE, FALSE}
  MaxEvents = 2
  MaxSeconds = 1
  MaxSuspends = 1
SYMMETRY CallSymmetry
INVARIANTS UpdatesAccounted TracesApart
CHECK_DEADLOCK FALSE
