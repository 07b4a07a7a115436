SPECIFICATION FairGuards
CONSTANTS
  Clients = {c1, c2, c3, c4}
  MaxConcurrency = 2
  MaxQueue = 1
  Cost = 2
  Capacity = 4
  Window = 3
  Limit = 2
  Block = 2
  Grace = 1
  Skew = 1
  MaxTime = 4
INVARIANTS NobodyWaitsInVain BucketBounded WindowBounded
PROPERTIES RefusedOnlyWhenFull WaitersServed
