\* Every uniform table of four ids, no failing external call.
CONSTANTS
  Ids = {1, 2, 3, 4}
  Cols <- MCCols
  SvOf <- MCSv
  ChunkSize = 2
  MaxRetries = 0
  TransientErrors = FALSE
  InitTables <- AllTables
  Null = Null
  NoRow = NoRow
SPECIFICATION Spec
\* The repair pass is one-shot: it stops once the chord has ended.
CHECK_DEADLOCK FALSE
PROPERTY ChordCompletes
