\* Three callers with one retry each; two failures open the circuit for two ticks.
SPECIFICATION FairApi
CONSTANTS
  Threshold = 2
  Cooldown = 2
  MaxProbes = 1
  Callers = {a, b, c}
  MaxRetries = 1
INVARIANTS ClosedBelowThreshold ProbesInFlight
PROPERTIES Recovers
