SPECIFICATION FairBackfillSpec
CONSTANTS
  Caller = {c1}
  Worker = {w1, w2}
  Region = {r1}
  Lot = {l1}
  Total = {1}
  PageSize = 1
  MaxPages = 2
  DeltaThreshold = 0
  None = None
INVARIANTS SingleFlight SkipSetIsExact VerdictIsSound ProgressHasRun
PROPERTIES RunsEnd
CHECK_DEADLOCK FALSE
