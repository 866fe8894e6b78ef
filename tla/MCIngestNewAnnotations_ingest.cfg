\* Four annotations in two chunks, any valid and existing rows and any earlier table state, failing lookups with one retry, one lost worker.
CONSTANTS
  Ids = {1, 2, 3, 4}
  ChunkSize = 2
  MaxRetries = 1
  MaxLost = 1
  LookupErrors = TRUE
  InsertErrors = FALSE
  CreateErrors = FALSE
SPECIFICATION Spec
\* The workflow is one-shot: it stops once the chord has ended.
CHECK_DEADLOCK FALSE
INVARIANT ChordDoneCovers
PROPERTY IngestSettles
