\* Five items over a queue of two; up to four failed attempts, two per flush, and
\* two failed flushes open the circuit.
SPECIFICATION FairSpec
CONSTANTS
  QueueSize = 2
  MaxRetries = 1
  Threshold = 2
  MaxItems = 5
  MaxFaults = 4
  MaxStops = 1
INVARIANTS NothingLost GrowsByFailedFlushes
PROPERTIES Exports
CHECK_DEADLOCK FALSE
