\* One geometry column, three chunks (one empty), two workers, retries,
\* one lost worker, one redelivery of the driver, throttling.
CONSTANTS
  Ids = {1, 2}
  Cols <- SingleCols
  NChunks = 3
  Loc <- SingleLoc
  SvOf <- SingleSv
  Workers = {w1, w2}
  MaxRetries = 1
  MaxWorkerCrashes = 1
  MaxDriverRuns = 2
  DriverErrors = FALSE
  MonitorFaults = FALSE
  Resume = TRUE
  Throttle = TRUE
  QueueThreshold = 2
  NoRow = NoRow
  NoMsg = NoMsg
SPECIFICATION Spec
INVARIANT TypeOK
INVARIANT ReportedRowsCorrect
PROPERTY ChunksSettle
PROPERTY WorkflowSettles
