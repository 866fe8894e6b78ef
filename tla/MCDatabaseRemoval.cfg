\* Six databases, any subset expired, threshold 1 or 3, DROP may fail, the
\* version update succeeds.
CONSTANTS
  DBs = {1, 2, 3, 4, 5, 6}
  Thresholds = {1, 3}
  DropMayFail = TRUE
  MarkMayFail = FALSE
  NoDb = NoDb
SPECIFICATION Spec
\* One run of the periodic task ends; it is scheduled again from outside.
CHECK_DEADLOCK FALSE
PROPERTY ImplementsPruneExpired
