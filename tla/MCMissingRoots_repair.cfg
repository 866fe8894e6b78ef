\* Every uniform table of four ids, failing database and graph calls, one retry.
CONSTANTS
  Ids = {1, 2, 3, 4}
  Cols <- MCCols
  SvOf <- MCSv
  ChunkSize = 2
  MaxRetries = 1
  TransientErrors = TRUE
  InitTables <- AllTables
  Null = Null
  NoRow = NoRow
SPECIFICATION Spec
\* The repair pass is one-shot: it stops once the chord has ended.
CHECK_DEADLOCK FALSE
INVARIANT TypeOK
INVARIANT RepairedRowsResolved
PROPERTY NullRowsSettle
PROPERTY ImplementsRootRepair
