\* Two requests at once, two loops, two updates; two faults.
SPECIFICATION FairSpec
CONSTANTS
  Requests = {r1, r2}
  Loops = {l1, l2}
  Modes = {"direct", "ingest"}
  Platforms = {"aws"}
  Updates = {u1, u2}
  MaxFaults = 2
  MaxStops = 1
  MaxStarts = 2
  MaxForged = 1
INVARIANTS  QueueInOrder 
 
CHECK_DEADLOCK FALSE
