# TLA+ models of the MaterializationEngine workflows

This directory holds TLA+ specifications of the Celery workflows in
`src/materializationengine/workflows/`, the TLC configurations that check them,
and `PROJECT.json`, which records the components, the runs, the mutants, the
map from every definition to the source lines it models, the findings and the
hazards.

## 1. The system and its parts

The engine keeps a per-table *segmentation table*. Each annotation row `id` has
a supervoxel id and a root id for every geometry column (`pre_pt`, `post_pt`, ...).
The rows are filled by the workflows below. They all run on Celery workers with
a Redis broker. Tasks use `acks_late`, so a message whose worker is lost is
delivered again. `autoretry_for=Exception` re-publishes a failed task until
`max_retries` is reached.

| Part | Source | State it keeps | Operations |
|---|---|---|---|
| Spatial-lookup driver | `spatial_lookup.py` `run_spatial_lookup_workflow` (54-216) | Redis checkpoint (status, total_chunks, completed_chunks), the chunk iterator position, table indices | initialise or resume the checkpoint, create the table and drop its secondary indices, submit one `process_chunk` per chunk (throttled on queue length), write completed_chunks, status `submitted`, start the monitor |
| Chunk worker | `process_chunk` (254-363), `get_new_root_ids`/`get_root_ids` in `ingest_new_annotations.py` (542-635) | the task message (chunk, retries) | select points in the chunk, resolve supervoxels, read current root ids for the batch (inner merge), look up roots for rows whose roots are all null, upsert, `increment_completed`; retry on error |
| Upsert | `insert_segmentation_data` (685-754) | segmentation rows | backfill absent columns with 0, `ON CONFLICT (id) DO UPDATE` keeping the old value where the new one is 0 |
| Monitor and index rebuild | `monitor_spatial_lookup_completion` (366-429), `rebuild_indices_for_spatial_lookup` (432-460) | monitor loop | read the queue length, read the checkpoint, complete (drop all indices, submit the add-index chain, mark completed), error, 72-hour timeout, sleep and retry |
| Checkpoint store | `RedisCheckpointManager` (not under `src/`; spec 4.2) | one hash per workflow | `initialize_workflow`, `update_workflow` (completed_chunks only grows), atomic `increment_completed` |
| Chunking strategy | `ChunkingStrategy` (not under `src/`; spec 4.3) | total chunks, bounding box | `chunk_generator`, `skip_to_index` |
| Missing-roots repair | `ingest_new_annotations.py` 83-239, 493-539, 638-656 | rows with NULL roots | scan an id range, look up roots, update |
| New-annotation ingest | `ingest_new_annotations.py` 36-80, 242-443, 659-688 | new rows | find annotations without a segmentation row, look up supervoxels and roots, insert |
| Expired-database removal | `periodic_database_removal.py` 33-141 | the list of versioned databases | drop expired databases while more than `delete_threshold` remain, mark versions invalid |
| Upload API, views, legacy tasks, scripts | `blueprints/upload/api.py`, `views.py`, `app/app/tasks.py`, `materializationmanager.py`, `scripts/` | request/session state | Flask request handling and one-off I/O |

How they interact: the driver publishes chunk messages into the broker queue.
Workers take them concurrently and write rows and checkpoint increments. The
monitor decides from the queue length and the checkpoint that the work is done.
It then drops the table's indices, including the primary key that the
workers' upsert depends on, and chains the rebuild. A lost driver is
redelivered and resumes from the checkpoint.

What makes them correct (the properties the models state):
* every chunk the checkpoint counts as done has its annotations written, with resolved ids;
* a row written by several chunks keeps the supervoxel id of every reported chunk's point, whatever order or number of times the chunks run;
* the workflow is marked completed only after every chunk has been processed;
* a resumed driver skips only chunks that were submitted;
* every chunk is eventually processed or given up, and the workflow settles as
  completed with its indices rebuilt, or as error;
* the indices dropped for the bulk load are eventually rebuilt;
* the repair writes only resolved roots and ends done only with every NULL row repaired;
* a successful ingest chord leaves every valid annotation with a row;
* the removal keeps at least `delete_threshold` databases and never a single one.

## 2. Modules

### `SpatialLookup.tla`: driver, workers, upsert, checkpoint, monitor

Constants:
* `Ids`, the annotation ids, and `Cols`, the geometry columns;
* `NChunks`, the total chunk count;
* `Loc[i][c]`, the chunk that holds point `c` of annotation `i` (this is what the
  chunking strategy and the bounding-box query compute);
* `SvOf[i][c]`, its supervoxel, where 0 means the scaled key is missing;
* `Workers`;
* `MaxRetries`, `MaxWorkerCrashes`, `MaxDriverRuns`;
* `DriverErrors`, whether the driver's own calls may raise;
* `MonitorFaults`, whether the monitor task may end abnormally;
* `Resume`, `Throttle`, `QueueThreshold`.

Root lookup is abstracted to `RootOf(sv)`: nonzero exactly when the supervoxel is.
The supervoxel data of a chunk is `ScatteredSv` (`get_scatter_points`: the
value `scattered_points` gives, or 0) passed through `SvData`
(`_safe_pivot_svid_df_to_dict`: 0 for a column whose point lies in another
chunk).

State, and what it stands for:
* `ckpt`: the Redis hash (status, total, completed).
* `dpc`, `startIdx`, `nextChunk`, `driverRuns`, `driverRetries`: the driver's
  program point (`failed` once its retries are spent), the `skip_to_index`
  start, the generator position, deliveries of the driver task, and its
  `self.request.retries`.
* `queue`: a bag of `[chunk, retries]` messages in the broker, waiting or in a
  retry countdown. The monitor reads its size. Messages held by workers are in
  `wk`, not in `queue`, just as reserved messages are not in the Redis list.
* `wk[w]`: the message a worker holds and its step (`idle`, `resolved`, `upserted`).
  The rows it computed are held between the steps.
* `seg[i]`: the segmentation row or `NoRow`. `indices` is `all`/`pk`/`none`.
  `chainPending` is the submitted add-index chain.
* `mpc`, `qSeen`: the monitor's program point and the queue length it read.
* `submitted`, `reported`, `failed`: history sets of chunks submitted by some
  driver run, counted by `increment_completed`, and given up after
  `max_retries`.

Actions:
* `DriverStart`: lines 74-159 as one step (initialise, resume read,
  `update_workflow`, index drop). The call to
  `create_missing_segmentation_table` at line 152 is taken to find or create
  the table; that function is modelled in `IngestNewAnnotations`.
* `DriverSubmit`: one loop iteration 161-185, with the throttle guard. It
  publishes through `SubmitTask` (`submit_task`, 219-253).
* `DriverFinish`: 187-216, the `completed_chunks = start + chunk_tasks` write,
  status `submitted`, and the monitor start.
* `DriverCrash`: the driver's worker is lost before it finishes, and the
  message is redelivered.
* `DriverError`: an exception in the driver, after `initialize_workflow` or
  during submission. The decorator's `autoretry_for=Exception, max_retries=1`
  runs it again once from the top (`DriverMaxRetries`). The second exception
  fails the task: the checkpoint and the indices stay as they are, and no
  monitor is started.
* `Resolve`, `Upsert`, `Report`: the three steps of `process_chunk` whose
  effects are visible to others: the root read plus lookup, the upsert
  transaction, and the increment. An empty chunk increments directly (306-311).
  Any step may raise, and then `Retry` re-publishes with `retries + 1` or gives
  up. `Upsert` always fails when the primary key is gone.
* `WorkerCrash`: a lost worker. Its message goes back to the queue with the same
  retry count.
* `MonitorReadQueue`, `MonitorComplete`, `MonitorSleep`, `MonitorTimeout`, and
  `AddIndexChain`.
* `MonitorLost`: the monitor task is declared without `acks_late` and without
  `autoretry`. A worker lost during its loop (the message was acknowledged on
  receipt) ends it for good. So does an exception from `get_queue_length` or
  `get_workflow_data`, which are outside its `try` block. The status and the
  indices stay as they are.

The checkpoint operators are modelled from spec 4.2, because that code is not in
`src/`.

### `MCSpatialLookup.tla`

Supplies the schemas:
* `SingleCols`/`SingleLoc`/`SingleSv`: one column, three chunks, chunk 2 empty,
  one annotation whose supervoxel is missing.
* `PairCols` with `MixedLoc`: a split synapse and a synapse inside one chunk.

### `MissingRoots.tla` and `MCMissingRoots.tla`: the missing-roots repair

Constants:
* `Ids`, positive primary keys, and `Cols`;
* `SvOf[i][c]`, the supervoxel already stored;
* `ChunkSize` (500 in the code), `MaxRetries` (6);
* `TransientErrors`, whether database and graph calls may fail;
* `InitTables`, the starting tables.

Each row's roots are `Null`, 0 or a root, or the row is `NoRow`. The MC module
enumerates every table of four or five ids whose rows are uniform, i.e. all of
a row's root columns are in the same state.

State:
* `seg`: the table;
* `phase`: scan, chord running, done, or error;
* `queue`: the `lookup_root_ids` messages, with their retry counts;
* `done`, `failed`, `nullAtScan`: history.

Actions:
* `Scan`: `process_missing_roots_workflow` together with
  `get_ids_with_missing_roots`. It computes min/max of rows with any NULL root
  and `create_chunks`. When min = max it produces the bare `[min_id]`.
* `LookupRootIds`: one whole task, as a single step. Chunks are disjoint id
  ranges and the repair is the only writer in this module, so concurrent tasks
  commute. The step fails on a bare id, fails on an id range with no rows, and
  may fail transiently. Otherwise it reads the current roots (a failed read is
  swallowed), looks up all-NULL rows, and bulk-updates them.
* `ChordEnd`: the chord callback, then `update_metadata`. It runs only if no
  header task failed.

`RootRepair.tla` is the abstract specification of the repair (spec 4.9):
* one scan records the rows whose roots are all NULL (`todo`);
* `Refresh(S)` sets the roots of existing rows in `S` to those of their
  supervoxels;
* `Finish` is allowed only when `todo` is empty, and `Fail` at any time.

`MissingRoots` instantiates it with `todo <- {i \in nullAtScan : seg[i] #
Resolved(i)}`, and the repair run checks `ImplementsRootRepair == Abs!Spec`.
* A committed `lookup_root_ids` is one `Refresh` of the rows it changed.
* Failed attempts, retries and the scan's bookkeeping are stutters.

### `IngestNewAnnotations.tla`: the new-annotation ingest

`ingest_new_annotations_workflow` and the `ingest_new_annotations` task.

Constants:
* `Ids`, the annotation ids;
* `ChunkSize`, the size of the id chunks of `generate_chunked_model_ids` (not
  under `src/`; its inclusive `[start, end]` ranges are modelled from how the
  task uses them);
* `MaxRetries` (6 in the code) and `MaxLost`;
* `LookupErrors` (the annotation query, volume or graph raise),
  `InsertErrors` (the INSERT raises a `SQLAlchemyError`) and `CreateErrors`
  (the metadata query, CREATE TABLE or the metadata commit raise).

State:
* `valid`, `rows`: the ids of valid annotations and of segmentation rows;
* `large`: `row_count >= 1_000_000`;
* `segTable`, `segMeta`: the segmentation table exists, and a
  `SegmentationMetadata` row registers it. A row only exists with its
  table, and rows only exist in an existing table;
* `phase` (`raised` when the workflow function raised before the chord),
  `queue`, `failed`, `lost`.

Row contents are left out: every property here is about which ids have a row.

Actions:
* `Start`: a large table returns `fin` at once. Otherwise
  `CreateMissingSegmentationTable` runs, and the chord is applied unless it
  raised. With a metadata row present the function only closes its session.
  Otherwise it creates the table (`checkfirst`) and commits a metadata row. A
  failed commit is rolled back and swallowed, so the table is used
  unregistered. An error of the query or of CREATE TABLE propagates.
* `IngestNewAnnotations(m)`: one whole task.
  * No missing annotation: it returns.
  * An error before the insert: `Retry`.
  * Otherwise `MissingAnnotations` (valid, outer join, no row), `NewRootIds`
    (the inner merge: if some of the ids already have rows, only those are
    kept) and `InsertSegmentationData`. The insert is one transaction. A
    duplicate id or an error rolls it back, and the error is swallowed.
* `WorkerLost(m)`: a lost worker, before or after its insert committed. Its
  message is redelivered (`acks_late`).
* `ChordEnd`: `fin` when every task has a result, `error` if one gave up.
* `SoftDelete`: an upstream soft delete, not forced to happen.

### `DatabaseRemoval.tla`: expired-database removal

The spec lists this housekeeping task as an external collaborator. It is
modelled from the code alone.

One run of `remove_expired_databases` for one datastack. The input is the task
argument `delete_threshold` (chosen from `Thresholds`), plus any set of expired
databases among `DBs`.

The loop is split into one action per branch of its body:
* `LoopEnd`;
* `StopAtOne`, the "only one remaining" break;
* `Candidate` and `Skip`, the threshold test;
* `Drop`, the SELECT 1, terminate and DROP block, which may raise;
* `Mark`, the `AnalysisVersion` update and `dropped_dbs.append`, which may raise.

`PruneExpired.tla` is the task's promise without its loop: `Prune(d)` removes an
expired database when at least `delete_threshold` others remain and not a
single one, and marks its version invalid in the same step.

`DatabaseRemoval` maps its state onto it. A database in the `mark` step
already counts as invalid (`AbsValid`), so the DROP is the `Prune` step, and
the version update, the loop's own steps and failed DROPs are stutters. The
removal run checks `ImplementsPruneExpired == Abs!Spec`.

## 3. Runs

| Run | cfg | Expect | What it shows |
|---|---|---|---|
| single | `MCSpatialLookup_single.cfg` | pass | One column, 3 chunks, 2 workers, 1 retry, 1 lost worker, one redelivery of the driver, throttle at 2. Reported chunks have their rows with resolved ids (`ReportedRowsCorrect`). Every chunk settles (`ChunksSettle`). The workflow settles as completed with every index rebuilt, or as error (`WorkflowSettles`), so the throttled driver never blocks for good. |
| pair | `MCSpatialLookup_pair.cfg` | pass | Two columns, retries, a lost worker, driver exceptions, a monitor that may be lost. Annotation 1 is split over both chunks, so each chunk upserts its whole row with 0 in the other chunk's column. Every existing row keeps the supervoxel id of every point of a reported chunk (`ReportedSupervoxelsKept`). Rows the inner merge never writes are left to the mixed run. |
| skip | `MCSpatialLookup_skip.cfg` | violation | Two redeliveries: the resumed driver skips a chunk no run submitted (`ResumeSkipsOnlySubmitted`). |
| early | `MCSpatialLookup_early.cfg` | violation | Completed, and indices dropped, while a worker still holds a chunk (`CompletedAfterChunks`). |
| mixed | `MCSpatialLookup_mixed.cfg` | violation | A reported chunk with a new annotation dropped by the inner merge, and a split synapse whose second point keeps root 0 (`ReportedRowsCorrect`). |
| rebuild | `MCSpatialLookup_rebuild.cfg` | violation | Driver exceptions: after the second one the task fails with the secondary indices dropped for good (`IndicesRestored`). |
| repair | `MCMissingRoots_repair.cfg` | pass | All 256 tables of four ids, failing calls, one retry. Committed chunks leave their NULL rows resolved (`RepairedRowsResolved`). Every NULL row ends repaired or in a given-up chunk (`NullRowsSettle`). The repair implements `RootRepair` (`ImplementsRootRepair`). |
| once | `MCMissingRoots_once.cfg` | violation | With every call succeeding, a table with a single NULL row fails its only task, so the chord never completes (`ChordCompletes`). |
| removal | `MCDatabaseRemoval.cfg` | pass | Six databases, any expired subset, threshold 1 or 3, failing DROPs. The run implements `PruneExpired` (`ImplementsPruneExpired`). Each DROP therefore leaves at least the threshold, and every dropped database has its version marked invalid in the step after the DROP. |
| markfail | `MCDatabaseRemoval_markfail.cfg` | violation | A version update failing after DROP leaves the count stale, and the run drops below the threshold (`ThresholdKept`). |
| ingest | `MCIngestNewAnnotations_ingest.cfg` | pass | Four ids in two chunks, any valid and existing rows, any earlier table state, failing lookups, one retry, one lost worker. The earlier table states include a table whose metadata commit was swallowed by an earlier run. A chord that ends done leaves every valid annotation with a row (`ChordDoneCovers`). Every valid annotation eventually has a row or lies in a given-up chunk (`IngestSettles`). So the table left unregistered does not stop the next run, because of `checkfirst=True`. `IngestSettles` exempts a raised creation only when `CreateErrors` is set; this cfg leaves it unset. |
| swallow | `MCIngestNewAnnotations_swallow.cfg` | violation | The INSERT and the table creation may fail. A failing INSERT is swallowed: the chord ends done with valid annotations and no rows (`ChordDoneCovers`). |

Bounds and why they are enough:
* Two workers are the least that interleave.
* Three chunks give a chunk before, at, and after a resume point, plus one empty chunk.
* One retry and one lost worker give every failure path (retry, give up,
  redelivery) once.
* Two driver deliveries are enough for a resume. Three are needed for the
  double-count skip, and TLC finds it there.
* One driver retry is the code's own `max_retries=1`. Two exceptions therefore
  reach both the retry and the failure.
* Repair: `ChunkSize = 2` over four ids gives several chunks, a last short
  chunk, and chunks made only of missing rows. Enumerating every uniform table
  covers zero, one and many NULL rows.
* Ingest: two chunks of two ids give two concurrent tasks. Every subset of
  valid annotations and existing rows covers empty chunks, fully ingested
  chunks and chunks mixing both.
* Removal: six databases with threshold 3 leave room for the `Skip` branch.
  Threshold 1 reaches the "only one remaining" break. That break is
  unreachable for any threshold of 2 or more unless the count is stale.
* Ids and values are abstract: a supervoxel or root is 0 or "known" (1). That
  is the only distinction the upsert's CASE and the 0-vs-NULL tests make.

Fairness: weak fairness on every driver, worker and monitor step and on the
add-index chain. Celery runs every delivered task and a running task proceeds,
and `self.retry` re-publishes. There is no fairness on lost workers, a lost monitor, lost
drivers, exceptions, soft deletes or the timeout: the code does not force them
to happen. With this fairness a run may still end in a state where nothing is
enabled (all done, or the driver failed). `Finished` makes that final state
stutter, so deadlock checking still catches a blocked driver or worker. The
repair, ingest and removal runs are one-shot tasks that really stop, so their
cfgs disable deadlock checking. Their fairness is weak fairness on the task
steps: Celery runs every published task and chord callback.

Every property of a passing run has a mutant in `PROJECT.json`: a plausible
code bug that TLC must catch.
* `MoreChunksPastEnd`: a generator that yields one chunk too many.
* `KeepOverwrite`: an upsert without the CASE.
* `NewRootIdsNoLookup`: a lookup that skips the root lookup (used in both
  modules).
* `CompletionReadyStrict`: `>` in place of `>=`.
* `RequeueDropped`: a retry that never re-publishes.
* `RetryOffByOne`: `<=` in the retry limit.
* `RetryForever`: no retry limit.
* `NewRootIdsZeroOnFailedRead`: a failed root read that writes 0 instead of
  looking up.
* `OneRemainingOffByOne`: the one-remaining test against 0.
* `MarkVersionNoCommit`: an update without the commit.
* `MissingAnnotationsNoJoin`: the query without the outer join.
* `SkipIngestSmall`: the row-count comparison reversed.
* `CreateMissingSegmentationTableNoCheckfirst`: CREATE TABLE without
  `checkfirst`.

## 4. Findings

1. `spatial_lookup.py:145`: resume at `skip_to_index(completed_chunks)` can skip
   a chunk that was never submitted (run skip).
2. `spatial_lookup.py:398`: the monitor can complete, and drop the primary key,
   while chunks are in flight. The queue length does not count reserved or
   countdown messages, and completed_chunks was set at submission (run early).
3. `ingest_new_annotations.py:617`: an annotation whose points are in two
   chunks keeps root id 0 for one point, and the NULL-only repair never sees it
   (run mixed).
4. `ingest_new_annotations.py:600`: an inner merge where the spec says left
   merge drops new annotations in chunks with existing ones (run mixed, same
   counterexample).
5. `ingest_new_annotations.py:167`: a single NULL row makes
   `get_ids_with_missing_roots` return a bare id. `lookup_root_ids` fails on it
   on every retry, so the row is never repaired and the chord fails (run once).
6. `periodic_database_removal.py:133`: a failed version update after a
   successful DROP is not counted. The loop then drops below `delete_threshold`,
   and the dropped database's version stays valid (run markfail).
7. `ingest_new_annotations.py:683`: `insert_segmentation_data` swallows
   `SQLAlchemyError`. The task then succeeds, no retry happens, and the chord
   ends done with valid annotations that have no row. A single duplicate id
   rolls back the whole batch the same way (run swallow).
8. `spatial_lookup.py:59` and `:413`: error exits never restore the dropped
   indices. A driver whose single retry is spent leaves the secondary indices
   dropped and the status `processing`, with no monitor. A monitor exception in
   the rebuild, or its timeout, marks `error` and leaves the table without its
   indices, or without even the primary key the upsert needs (run rebuild).
   A lost monitor (hazard `spatial_lookup.py:364`) leaves the status
   `submitted` and the secondary indices dropped. The rebuild cfg enables it
   too. TLC reports the driver path first; with `DriverErrors = FALSE` the same
   cfg gives a counterexample that ends in `MonitorLost` right after
   `DriverFinish`.

Hazard `ingest_new_annotations.py:574` is a defect of the same kind as finding
5. An id chunk of `[min, max]` with no rows fails on every retry, so the chord
never reaches `update_metadata`. `ChordCompletes` covers it: with tables of at
least two NULL rows, TLC reports it in place of finding 5.

## 5. Plan and what is not modelled yet

Next, in order:
1. `Chunking.tla`: the cuboid enumeration of `ChunkingStrategy`, as RECURSIVE
   operators checked against a set-comprehension reference over small boxes.
   `ChunkingStrategy` is not under `src/`, so it would be modelled from spec 4.3.
2. An abstract `ChunkedJob` for the spatial lookup: each chunk is processed,
   then the job is completed. Finding 2 shows that the code does not implement
   it.
3. Two concurrent callers of `create_missing_segmentation_table` (the
   spatial-lookup driver and the ingest on one table). The metadata check and
   CREATE TABLE are separate steps. What a second metadata commit does depends
   on constraints defined outside `src/`, so the model would choose both
   outcomes.

The 12 runs of the project are all in use. Each of these needs a run slot of
its own.

Not modelled:
* the upload wizard and Flask views (request I/O, no concurrency of their own);
* the legacy `app/app/tasks.py`, `materializationmanager.py` and scripts;
* `process_new_annotations_workflow`, which cannot run as written (`table_name`
  is undefined, and it calls the one-argument ingest workflow with two);
* the numeric detail of supervoxel key scaling (`get_scatter_points`, abstracted
  to "found or 0");
* bounding-box growth on resume;
* rows whose root columns are partly NULL. No path in `src/` writes them:
  the spatial upsert fills absent values with 0, and the ingest looks up every
  column of a new row. So the repair's any-NULL scan and its all-NULL lookup
  never disagree on a row the system wrote;
* `get_root_ids=False` and `upload_to_database=False`. The model fixes both at
  their defaults. With `get_root_ids=False`, `process_chunk` never assigns
  `root_id_data`, and line 335 raises `UnboundLocalError` on every non-empty
  chunk, so every chunk exhausts its retries. A unit test of that flag would
  show this; a model adds nothing. `get_scatter_points` never returns None, so
  the `data is None` return at line 318 is unreachable;
* `convert_array_to_int`, which the model takes to receive integers;
* overlapping runs of the removal task (its schedule is outside `src/`), and
  the datastack-prefix filter of database names.
