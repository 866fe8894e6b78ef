\* One driver run, no lost workers: when may the monitor declare completion?
CONSTANTS
  Ids = {1, 2}
  Cols <- SingleCols
  NChunks = 3
  Loc <- SingleLoc
  SvOf <- SingleSv
  Workers = {w1, w2}
  MaxRetries = 1
  MaxWorkerCrashes = 0
  MaxDriverRuns = 1
  DriverErrors = FALSE
  MonitorFaults = FALSE
  Resume = TRUE
  Throttle = FALSE
  QueueThreshold = 2
  NoRow = NoRow
  NoMsg = NoMsg
SPECIFICATION Spec
INVARIANT CompletedAfterChunks
