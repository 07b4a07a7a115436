SPECIFICATION SupervisedSpec
CONSTANTS
  Loops = {l1}
  OneLoop = TRUE
  Queued = TRUE
  MaxUpdate = 3
  Limit = 2
  MaxStarts = 3
  MaxStops = 1
  MaxErrors = 1
  MaxCrashes = 1
INVARIANTS AcknowledgedOnlySettled HandledOnceInOrder
PROPERTIES Delivered StopCompletes
CHECK_DEADLOCK FALSE
