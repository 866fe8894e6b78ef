\* Four annotations in two chunks; the INSERT and the table creation may raise.
CONSTANTS
  Ids = {1, 2, 3, 4}
  ChunkSize = 2
  MaxRetries = 1
  MaxLost = 0
  LookupErrors = FALSE
  InsertErrors = TRUE
  CreateErrors = TRUE
SPECIFICATION Spec
\* The workflow is one-shot: it stops once the chord has ended.
CHECK_DEADLOCK FALSE
INVARIANT ChordDoneCovers
