------------------------ MODULE IngestNewAnnotations ------------------------
(***************************************************************************)
(* The new-annotation ingest of ingest_new_annotations.py:                 *)
(* ingest_new_annotations_workflow cuts the annotation ids into chunks and *)
(* runs a chord of ingest_new_annotations tasks.  Each task selects the    *)
(* valid annotations of its id range that have no segmentation row (outer  *)
(* join), looks up their supervoxels and roots, and inserts the rows with  *)
(* a plain INSERT whose SQLAlchemyError is logged and swallowed.  Errors   *)
(* before the insert are retried (autoretry, max_retries = 6).            *)
(*                                                                         *)
(* Row contents are left out: the supervoxel and root of a new row come    *)
(* from the volume and the graph as in the spatial lookup, and every       *)
(* property here is about which ids have a row.  Chunks are disjoint id    *)
(* ranges, so one task execution is one step; the steps of other actors   *)
(* that interleave with it are upstream soft deletes and lost workers.     *)
(***************************************************************************)
EXTENDS Naturals, FiniteSets

CONSTANTS
  Ids,          \* annotation ids 1..N
  ChunkSize,    \* size of the id chunks of generate_chunked_model_ids
  MaxRetries,   \* ingest_new_annotations max_retries (6 in the code)
  MaxLost,      \* bound on workers lost while running a task
  LookupErrors, \* the annotation query, the volume or the graph may raise
  InsertErrors, \* the INSERT may raise a SQLAlchemyError (connection, timeout)
  CreateErrors  \* the metadata query, CREATE TABLE or the metadata commit may raise

ASSUME /\ Ids = 1..Cardinality(Ids) /\ Ids # {}
       /\ ChunkSize \in Nat \ {0}
       /\ MaxRetries \in Nat /\ MaxLost \in Nat
       /\ LookupErrors \in BOOLEAN /\ InsertErrors \in BOOLEAN
       /\ CreateErrors \in BOOLEAN

VARIABLES
  valid,    \* ids of annotations with valid = True
  rows,     \* ids with a segmentation row
  large,    \* row_count >= 1_000_000
  phase,    \* "idle", "running" (chord applied), "done", "error", "skipped",
            \* "raised" (the workflow function raised before the chord)
  segTable, \* the segmentation table exists
  segMeta,  \* a SegmentationMetadata row registers it
  queue,    \* ingest_new_annotations messages whose result the chord awaits
  failed,   \* history: chunks whose task exhausted its retries
  lost      \* workers lost so far

vars == <<valid, rows, large, phase, segTable, segMeta, queue, failed, lost>>

-----------------------------------------------------------------------------
\* generate_chunked_model_ids: [start, end] id ranges of ChunkSize ids.
ChunkedModelIds ==
  LET n == Cardinality(Ids)
  IN {[lo |-> 1 + k * ChunkSize,
       hi |-> IF (k + 1) * ChunkSize < n THEN (k + 1) * ChunkSize ELSE n]
      : k \in 0..((n - 1) \div ChunkSize)}

Msg == [ch : ChunkedModelIds, retries : 0..MaxRetries]

\* Mutant: the outer join on the segmentation table is left out.
MissingAnnotationsNoJoin(ch) == {i \in ch.lo..ch.hi : i \in valid}

\* get_annotations_with_missing_supervoxel_ids: valid annotations of the
\* range with no segmentation row.
MissingAnnotations(ch) == {i \in ch.lo..ch.hi : i \in valid /\ i \notin rows}

\* get_new_root_ids: when some of the ids already have a row, the inner
\* merge with their current roots keeps only those ids.
NewRootIds(ids) == IF ids \cap rows # {} THEN ids \cap rows ELSE ids

\* insert_segmentation_data: one INSERT transaction; a duplicate id or a
\* database error rolls it back and is swallowed.
InsertSegmentationData(ids) ==
  \/ /\ ids \cap rows = {}
     /\ rows' = rows \cup ids
  \/ /\ InsertErrors \/ ids \cap rows # {}
     /\ UNCHANGED rows

\* Mutant: CREATE TABLE without checkfirst, which raises on a table that
\* exists without its metadata row.
CreateMissingSegmentationTableNoCheckfirst ==
  IF segMeta
  THEN {[table |-> segTable, meta |-> TRUE, raised |-> FALSE]}
  ELSE IF segTable
  THEN {[table |-> TRUE, meta |-> FALSE, raised |-> TRUE]}
  ELSE {[table |-> TRUE, meta |-> TRUE, raised |-> FALSE]}
       \cup (IF CreateErrors
             THEN {[table |-> TRUE, meta |-> FALSE, raised |-> FALSE],
                   [table |-> segTable, meta |-> FALSE, raised |-> TRUE]}
             ELSE {})

\* create_missing_segmentation_table: the outcomes of one call, as
\* [table, meta, raised].  With a metadata row it only closes the session.
\* Otherwise it creates the table (checkfirst) and commits a metadata row; a
\* failed commit is rolled back and swallowed, while an error of the query or
\* of CREATE TABLE propagates to ingest_new_annotations_workflow.
CreateMissingSegmentationTable ==
  IF segMeta
  THEN {[table |-> segTable, meta |-> TRUE, raised |-> FALSE]}
  ELSE {[table |-> TRUE, meta |-> TRUE, raised |-> FALSE]}
       \cup (IF CreateErrors
             THEN {[table |-> TRUE, meta |-> FALSE, raised |-> FALSE],
                   [table |-> segTable, meta |-> FALSE, raised |-> TRUE]}
             ELSE {})

-----------------------------------------------------------------------------
\* A metadata row is only ever added with its table, and rows only exist in
\* an existing table.
Init ==
  /\ valid \in SUBSET Ids
  /\ rows \in SUBSET Ids
  /\ large \in BOOLEAN
  /\ segTable \in BOOLEAN /\ segMeta \in BOOLEAN
  /\ segMeta => segTable
  /\ rows # {} => segTable
  /\ phase = "idle"
  /\ queue = {} /\ failed = {} /\ lost = 0

\* mat_metadata["row_count"] >= 1_000_000 (large), and its mutant with the
\* comparison reversed.
SkipIngestSmall(isLarge) == ~isLarge
SkipIngest(isLarge) == isLarge

\* ingest_new_annotations_workflow: tables of a million rows or more are
\* skipped; otherwise the missing segmentation table is created and the
\* chord of one task per id chunk is applied, unless the creation raised.
Start ==
  /\ phase = "idle"
  /\ IF SkipIngest(large)
     THEN phase' = "skipped" /\ UNCHANGED <<queue, segTable, segMeta>>
     ELSE \E o \in CreateMissingSegmentationTable :
            /\ segTable' = o.table /\ segMeta' = o.meta
            /\ IF o.raised
               THEN phase' = "raised" /\ UNCHANGED queue
               ELSE /\ phase' = "running"
                    /\ queue' = {[ch |-> c, retries |-> 0] : c \in ChunkedModelIds}
  /\ UNCHANGED <<valid, rows, large, failed, lost>>

\* autoretry / self.retry(countdown=3): re-publish, or give up.
Requeue(m) == (queue \ {m}) \cup {[m EXCEPT !.retries = @ + 1]}
Retry(m) ==
  /\ IF m.retries < MaxRetries
     THEN queue' = Requeue(m) /\ UNCHANGED failed
     ELSE queue' = queue \ {m} /\ failed' = failed \cup {m.ch}
  /\ UNCHANGED <<valid, rows, large, phase, segTable, segMeta, lost>>

\* ingest_new_annotations: nothing missing returns at once; an error before
\* the insert is retried; the insert's own errors are swallowed and the
\* task succeeds either way.
IngestNewAnnotations(m) ==
  LET missing == MissingAnnotations(m.ch)
  IN /\ phase = "running"
     /\ m \in queue
     /\ \/ /\ missing = {}
           /\ queue' = queue \ {m}
           /\ UNCHANGED <<valid, rows, large, phase, segTable, segMeta, failed, lost>>
        \/ /\ missing # {} /\ LookupErrors
           /\ Retry(m)
        \/ /\ missing # {}
           /\ InsertSegmentationData(NewRootIds(missing))
           /\ queue' = queue \ {m}
           /\ UNCHANGED <<valid, large, phase, segTable, segMeta, failed, lost>>

\* acks_late: the message of a lost worker is delivered again; its mutant
\* acknowledges on receipt, so the message is gone.
RedeliverNoAck(m) == queue \ {m}
Redeliver(m) == queue

\* The worker running a task is lost, before or after the insert committed.
WorkerLost(m) ==
  /\ phase = "running"
  /\ m \in queue
  /\ lost < MaxLost
  /\ \/ UNCHANGED rows
     \/ /\ MissingAnnotations(m.ch) # {}
        /\ rows' = rows \cup NewRootIds(MissingAnnotations(m.ch))
  /\ lost' = lost + 1
  /\ queue' = Redeliver(m)
  /\ UNCHANGED <<valid, large, phase, segTable, segMeta, failed>>

\* The chord callback fin runs once every header task has a result; a task
\* that exhausted its retries fails the chord.
ChordEnd ==
  /\ phase = "running"
  /\ queue = {}
  /\ phase' = IF failed = {} THEN "done" ELSE "error"
  /\ UNCHANGED <<valid, rows, large, segTable, segMeta, queue, failed, lost>>

\* Upstream soft delete of an annotation (valid = False); the ingest never
\* removes rows.
SoftDelete ==
  /\ \E i \in valid : valid' = valid \ {i}
  /\ UNCHANGED <<rows, large, phase, segTable, segMeta, queue, failed, lost>>

Next ==
  \/ Start
  \/ \E m \in queue : IngestNewAnnotations(m) \/ WorkerLost(m)
  \/ ChordEnd
  \/ SoftDelete

\* Celery runs every published task and the chord callback; lost workers
\* and soft deletes are not forced to happen.
Fairness ==
  /\ WF_vars(Start)
  /\ WF_vars(\E m \in queue : IngestNewAnnotations(m))
  /\ WF_vars(ChordEnd)

Spec == Init /\ [][Next]_vars /\ Fairness

-----------------------------------------------------------------------------
(* Properties.                                                              *)

(* When the chord completes without a failed task, every annotation that is *)
(* still valid has a segmentation row: no task reported success while its  *)
(* rows were not inserted (spec 3(a)).                                     *)
ChordDoneCovers == phase = "done" => valid \subseteq rows

InFailedChunk(i) == \E ch \in failed : i \in ch.lo..ch.hi

(* Unless the table is skipped or a database error raised while creating  *)
(* its segmentation table, every annotation that stays valid eventually    *)
(* has a segmentation row or lies in a chunk that gave up, through retries *)
(* and lost workers.  This includes a table that an earlier run created    *)
(* but failed to register (its metadata commit was swallowed): the next    *)
(* run must not be stopped by the table it finds.                          *)
IngestSettles ==
  <>[](\/ large
       \/ CreateErrors /\ phase = "raised"
       \/ \A i \in valid : i \in rows \/ InFailedChunk(i))

=============================================================================
