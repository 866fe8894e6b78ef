\* Two geometry columns: annotation 1 split over chunks 0 and 1, annotation 2
\* wholly in chunk 1; retries and one lost worker.
CONSTANTS
  Ids = {1, 2}
  Cols <- PairCols
  NChunks = 2
  Loc <- MixedLoc
  SvOf <- PairSv
  Workers = {w1, w2}
  MaxRetries = 1
  MaxWorkerCrashes = 1
  MaxDriverRuns = 1
  DriverErrors = TRUE
  MonitorFaults = TRUE
  Resume = TRUE
  Throttle = FALSE
  QueueThreshold = 2
  NoRow = NoRow
  NoMsg = NoMsg
SPECIFICATION Spec
INVARIANT ReportedSupervoxelsKept
