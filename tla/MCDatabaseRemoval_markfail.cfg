\* Six databases, any subset expired, threshold 1 or 3; the version update may
\* fail after DROP DATABASE succeeded.
CONSTANTS
  DBs = {1, 2, 3, 4, 5, 6}
  Thresholds = {1, 3}
  DropMayFail = TRUE
  MarkMayFail = TRUE
  NoDb = NoDb
SPECIFICATION Spec
\* One run of the periodic task ends; it is scheduled again from outside.
CHECK_DEADLOCK FALSE
INVARIANT ThresholdKept
