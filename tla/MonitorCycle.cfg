SPECIFICATION FairSpec
CONSTANTS
  Caller = {s}
  Scheduler = s
  Worker = {w1}
  Region = {r1}
  Lot = {l1}
  Total = {1}
  PageSize = 1
  MaxPages = 1
  DeltaThreshold = 0
  WRITES = 3
  None = None
INVARIANTS OneDispatchPerLot PointsFollowRows HistoryIsWhole
PROPERTIES RequestIsServed
CHECK_DEADLOCK FALSE
