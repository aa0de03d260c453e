SPECIFICATION FairFeed
CONSTANTS
  Slaves = {s1}
  Requests <- MCRequests
  Default = 1
  MaxChunk = 2
  Cap = 3
  Adapters = {"fallback", "elsewhere"}
  Fallback = "fallback"
  MaxBytes = 4
  MaxMoves = 1
INVARIANT WithoutAGap
PROPERTIES OwedIsServed StopEnds
CHECK_DEADLOCK FALSE
