\* The driver and the monitor may raise: are the dropped indices always rebuilt?
CONSTANTS
  Ids = {1, 2}
  Cols <- SingleCols
  NChunks = 3
  Loc <- SingleLoc
  SvOf <- SingleSv
  Workers = {w1, w2}
  MaxRetries = 1
  MaxWorkerCrashes = 1
  MaxDriverRuns = 1
  DriverErrors = TRUE
  MonitorFaults = TRUE
  Resume = TRUE
  Throttle = TRUE
  QueueThreshold = 2
  NoRow = NoRow
  NoMsg = NoMsg
SPECIFICATION Spec
PROPERTY IndicesRestored
