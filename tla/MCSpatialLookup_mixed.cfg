\* Annotation 1 split over chunks 0 and 1; annotation 2 wholly in chunk 1.
CONSTANTS
  Ids = {1, 2}
  Cols <- PairCols
  NChunks = 2
  Loc <- MixedLoc
  SvOf <- PairSv
  Workers = {w1, w2}
  MaxRetries = 0
  MaxWorkerCrashes = 0
  MaxDriverRuns = 1
  DriverErrors = FALSE
  MonitorFaults = FALSE
  Resume = TRUE
  Throttle = FALSE
  QueueThreshold = 2
  NoRow = NoRow
  NoMsg = NoMsg
SPECIFICATION Spec
INVARIANT ReportedRowsCorrect
