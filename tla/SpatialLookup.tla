---------------------------- MODULE SpatialLookup ----------------------------
(***************************************************************************)
(* The spatial-lookup workflow of materializationengine/workflows/         *)
(* spatial_lookup.py for one annotation table:                             *)
(*   - the driver task run_spatial_lookup_workflow, which initialises the  *)
(*     checkpoint, resumes from it, drops the secondary indices, submits   *)
(*     one process_chunk message per chunk and starts the monitor;         *)
(*   - the Celery "process" queue, a bag of messages, and a pool of        *)
(*     workers running process_chunk (acks_late, autoretry, redelivery of  *)
(*     the message when a worker is lost);                                 *)
(*   - get_new_root_ids (ingest_new_annotations.py) and the zero-preserving *)
(*     upsert insert_segmentation_data into the segmentation table;        *)
(*   - the Redis checkpoint record (RedisCheckpointManager, not under src/,*)
(*     modelled from the spec);                                            *)
(*   - monitor_spatial_lookup_completion and the index rebuild chain.      *)
(* Supervoxel and root IDs are abstracted to 0 (unresolved) and 1 (the     *)
(* value the segmentation volume / chunked graph gives for that point).    *)
(***************************************************************************)
EXTENDS Naturals, FiniteSets, Bags, BagsExt

CONSTANTS
  Ids,              \* annotation ids of the table
  Cols,             \* geometry column prefixes (e.g. "pre_pt", "post_pt")
  NChunks,          \* chunking.total_chunks
  Loc,              \* Loc[i][c]: index of the chunk holding point c of annotation i
  SvOf,             \* SvOf[i][c]: 1 if scattered_points finds a supervoxel there, else 0
  Workers,          \* Celery worker processes consuming the "process" queue
  MaxRetries,       \* process_chunk max_retries (10 in the code; a bound here)
  MaxWorkerCrashes, \* bound on lost workers (message redelivered, acks_late)
  MaxDriverRuns,    \* bound on executions of the driver task (redelivery on loss)
  DriverErrors,     \* the driver's database, Redis or broker calls may raise
  MonitorFaults,    \* the monitor task may end abnormally (see MonitorLost)
  Resume,           \* resume_from_checkpoint
  Throttle,         \* mat_metadata["throttle_queues"]
  QueueThreshold,   \* queue length at which wait_if_queue_full blocks
  NoRow,            \* model value: no row for this id
  NoMsg             \* model value: worker holds no message

Chunks == 0..(NChunks - 1)
Val == {0, 1}
Row == [Cols -> [sv : Val, root : Val]]
Msg == [chunk : Chunks, retries : 0..MaxRetries]
Status == {"none", "initializing", "processing", "submitted", "completed", "error"}
NoData == [i \in Ids |-> NoRow]

ASSUME /\ NChunks \in Nat \ {0}
       /\ Loc \in [Ids -> [Cols -> Chunks]]
       /\ SvOf \in [Ids -> [Cols -> Val]]
       /\ MaxRetries \in Nat /\ QueueThreshold \in Nat \ {0}
       /\ Resume \in BOOLEAN /\ Throttle \in BOOLEAN /\ DriverErrors \in BOOLEAN
       /\ MonitorFaults \in BOOLEAN

VARIABLES
  ckpt,       \* the Redis checkpoint record of the table
  dpc,        \* driver program counter: "start", "submitting", "done"
  startIdx,   \* completed_chunks read at driver start (skip_to_index argument)
  nextChunk,  \* next chunk index the generator yields
  driverRuns, \* executions of the driver task so far
  driverRetries, \* self.request.retries of the driver task
  queue,      \* bag of messages waiting in the "process" broker list
  wk,         \* per worker: pc, message being processed, rows to upsert
  crashes,    \* workers lost so far
  seg,        \* segmentation table: id -> row or NoRow
  indices,    \* indices of the segmentation table: "all", "pk" (only the primary key), "none"
  chainPending, \* add_index chain submitted and not yet run
  mpc,        \* monitor program counter: "off", "polling", "checking", "done", "lost"
  qSeen,      \* queue length read by the monitor in this poll
  submitted,  \* history: chunks for which a message was ever published
  reported,   \* history: chunks whose process_chunk reached increment_completed
  failed      \* history: chunks whose message exhausted its retries

vars == <<ckpt, dpc, startIdx, nextChunk, driverRuns, driverRetries, queue, wk, crashes, seg,
          indices, chainPending, mpc, qSeen, submitted, reported, failed>>

-----------------------------------------------------------------------------
(* Checkpoint store (RedisCheckpointManager; modelled from spec 4.2).       *)

\* initialize_workflow: create the record, or mark an existing one as restarting.
InitializeWorkflow(r) ==
  IF r.status = "none"
  THEN [status |-> "initializing", total |-> 0, completed |-> 0]
  ELSE [r EXCEPT !.status = "initializing"]

\* update_workflow(completed_chunks=n): completed_chunks is strictly monotonic.
SetCompleted(r, n) == [r EXCEPT !.completed = IF n > @ THEN n ELSE @]

\* increment_completed: atomic HINCRBY.
IncrementCompleted(r) == [r EXCEPT !.completed = @ + 1]

-----------------------------------------------------------------------------
(* Pure helpers of process_chunk.                                           *)

\* get_pts_from_bbox / select_all_points_in_bbox: the (id, column) points in a chunk.
PointsIn(k) == {p \in Ids \X Cols : Loc[p[1]][p[2]] = k}
BatchIds(k) == {p[1] : p \in PointsIn(k)}

\* get_scatter_points: the supervoxel scattered_points returns for the scaled
\* position of a point, 0 (match_point_and_get_value) when it has none.
ScatteredSv(i, c) == SvOf[i][c]

\* _safe_pivot_svid_df_to_dict: one supervoxel column per type found in the
\* chunk, initialised to 0 for every id and set from that id's points here;
\* insert_segmentation_data fills the columns of other types with 0.
SvData(k, i, c) == IF Loc[i][c] = k THEN ScatteredSv(i, c) ELSE 0

\* chunkedgraph get_roots at the materialization timestamp.
RootOf(sv) == IF sv = 0 THEN 0 ELSE 1

\* Mutant: roots are never looked up, only copied from the table or left 0.
NewRootIdsNoLookup(k, readOk) ==
  [i \in Ids |-> IF i \in BatchIds(k)
                 THEN [c \in Cols |-> [sv |-> SvData(k, i, c),
                                       root |-> IF seg[i] = NoRow THEN 0 ELSE seg[i][c].root]]
                 ELSE NoRow]

\* Mutant: the inner merge is applied even when no current rows were read.
NewRootIdsAlwaysMerged(k, readOk) ==
  LET existing == IF readOk THEN {i \in BatchIds(k) : seg[i] # NoRow} ELSE {}
  IN [i \in Ids |-> IF i \in existing
                    THEN [c \in Cols |-> [sv |-> SvData(k, i, c), root |-> seg[i][c].root]]
                    ELSE NoRow]

\* get_new_root_ids: read the current root ids of the batch (a failed read is
\* treated as no rows), inner-merge them onto the supervoxel data, and look up
\* roots only for rows whose root columns are all null.
NewRootIds(k, readOk) ==
  LET existing == IF readOk THEN {i \in BatchIds(k) : seg[i] # NoRow} ELSE {}
  IN IF existing # {}
     THEN [i \in Ids |-> IF i \in existing
                         THEN [c \in Cols |-> [sv |-> SvData(k, i, c),
                                               root |-> seg[i][c].root]]
                         ELSE NoRow]
     ELSE [i \in Ids |-> IF i \in BatchIds(k)
                         THEN [c \in Cols |-> [sv |-> SvData(k, i, c),
                                               root |-> RootOf(SvData(k, i, c))]]
                         ELSE NoRow]

\* ON CONFLICT (id) DO UPDATE SET col = CASE WHEN excluded.col != 0 THEN excluded.col ELSE col
KeepOverwrite(old, new) == new
Keep(old, new) == IF new # 0 THEN new ELSE old
UpsertRow(old, new) ==
  IF old = NoRow THEN new
  ELSE [c \in Cols |-> [sv |-> Keep(old[c].sv, new[c].sv),
                        root |-> Keep(old[c].root, new[c].root)]]

-----------------------------------------------------------------------------
Init ==
  /\ ckpt = [status |-> "none", total |-> 0, completed |-> 0]
  /\ dpc = "start"
  /\ startIdx = 0
  /\ nextChunk = 0
  /\ driverRuns = 1
  /\ driverRetries = 0
  /\ queue = EmptyBag
  /\ wk = [w \in Workers |-> [pc |-> "idle", msg |-> NoMsg, data |-> NoData]]
  /\ crashes = 0
  /\ seg = [i \in Ids |-> NoRow]
  /\ indices = "all"
  /\ chainPending = FALSE
  /\ mpc = "off"
  /\ qSeen = 0
  /\ submitted = {}
  /\ reported = {}
  /\ failed = {}

-----------------------------------------------------------------------------
(* Driver: run_spatial_lookup_workflow.                                     *)

\* Lines 74-159: initialise the checkpoint, read completed_chunks when resuming,
\* record total_chunks, status "processing", and drop the secondary indices.
DriverStart ==
  LET r0 == InitializeWorkflow(ckpt)
      c  == IF Resume THEN r0.completed ELSE 0
  IN /\ dpc = "start"
     /\ ckpt' = [SetCompleted(r0, c) EXCEPT !.total = NChunks, !.status = "processing"]
     /\ startIdx' = c
     /\ nextChunk' = c
     /\ indices' = IF indices = "none" THEN "none" ELSE "pk"
     /\ dpc' = "submitting"
     /\ UNCHANGED <<driverRuns, driverRetries, queue, wk, crashes, seg, chainPending, mpc, qSeen,
                    submitted, reported, failed>>

\* ChunkingStrategy.chunk_generator (via enumerate): it yields the chunk
\* indices 0 .. total_chunks - 1, so the submit loop goes on while n < total.
MoreChunksPastEnd(n) == n <= NChunks
MoreChunks(n) == n < NChunks

\* submit_task: publish process_chunk.si(..., report_completion=True) for
\* chunk k on the "process" queue, with no retries spent.
SubmitTask(q, k) == BagAdd(q, [chunk |-> k, retries |-> 0])

\* Lines 163-185: submit_task for the next chunk; with throttling, the wait
\* after the previous submission blocks until the queue is below threshold.
DriverSubmit ==
  /\ dpc = "submitting"
  /\ MoreChunks(nextChunk)
  /\ Throttle /\ nextChunk > startIdx => BagCardinality(queue) < QueueThreshold
  /\ queue' = SubmitTask(queue, nextChunk)
  /\ submitted' = submitted \cup {nextChunk}
  /\ nextChunk' = nextChunk + 1
  /\ UNCHANGED <<ckpt, dpc, startIdx, driverRuns, driverRetries, wk, crashes, seg, indices,
                 chainPending, mpc, qSeen, reported, failed>>

\* Lines 187-210: completed_chunks := start + number submitted (when any were
\* submitted), status "submitted", and the monitor task is started.
DriverFinish ==
  LET chunkTasks == IF startIdx < NChunks THEN NChunks - startIdx ELSE 0
      r1 == IF chunkTasks > 0 THEN SetCompleted(ckpt, startIdx + chunkTasks) ELSE ckpt
  IN /\ dpc = "submitting"
     /\ ~MoreChunks(nextChunk)
     /\ ckpt' = [r1 EXCEPT !.status = "submitted"]
     /\ mpc' = "polling"
     /\ dpc' = "done"
     /\ UNCHANGED <<startIdx, nextChunk, driverRuns, driverRetries, queue, wk, crashes, seg,
                    indices, chainPending, qSeen, submitted, reported, failed>>

\* The worker running the driver is lost before the task is acknowledged
\* (acks_late): the broker redelivers it and it runs again from the top.
DriverCrash ==
  /\ dpc \in {"start", "submitting"}
  /\ driverRuns < MaxDriverRuns
  /\ driverRuns' = driverRuns + 1
  /\ dpc' = "start"
  /\ UNCHANGED <<ckpt, startIdx, nextChunk, driverRetries, queue, wk, crashes, seg,
                 indices, chainPending, mpc, qSeen, submitted, reported, failed>>

\* run_spatial_lookup_workflow's decorator: autoretry_for=(Exception,),
\* max_retries=1.
DriverMaxRetries == 1

\* An exception anywhere in the driver (after initialize_workflow, or during
\* submission) is retried once from the top; the second one fails the task,
\* leaving the checkpoint and the indices as they are and no monitor.
DriverError ==
  /\ DriverErrors
  /\ dpc \in {"start", "submitting"}
  /\ ckpt' \in IF dpc = "start" THEN {ckpt, InitializeWorkflow(ckpt)} ELSE {ckpt}
  /\ IF driverRetries < DriverMaxRetries
     THEN dpc' = "start" /\ driverRetries' = driverRetries + 1
     ELSE dpc' = "failed" /\ UNCHANGED driverRetries
  /\ UNCHANGED <<startIdx, nextChunk, driverRuns, queue, wk, crashes, seg, indices,
                 chainPending, mpc, qSeen, submitted, reported, failed>>

-----------------------------------------------------------------------------
(* Workers: process_chunk.                                                  *)

Idle == [pc |-> "idle", msg |-> NoMsg, data |-> NoData]

\* Lines 361-363 (and Celery's Task.retry): the exception re-publishes the
\* message with retries + 1, or the task fails once max_retries is reached.
RequeueDropped(m, q) == q
Requeue(m, q) ==
  IF m.retries < MaxRetries THEN BagAdd(q, [m EXCEPT !.retries = @ + 1]) ELSE q
GiveUp(m, f) == IF m.retries < MaxRetries THEN f ELSE f \cup {m.chunk}

Retry(w) ==
  /\ queue' = Requeue(wk[w].msg, queue)
  /\ failed' = GiveUp(wk[w].msg, failed)
  /\ wk' = [wk EXCEPT ![w] = Idle]

\* Lines 301-333: take a message, query the chunk's points; an empty chunk
\* is reported at once; otherwise resolve supervoxels and root ids.  Any
\* external call may raise, which retries the task.
Resolve(w) ==
  /\ wk[w].pc = "idle"
  /\ \E m \in BagToSet(queue) :
       LET k == m.chunk
       IN /\ \/ /\ PointsIn(k) = {}
                /\ ckpt' = IncrementCompleted(ckpt)
                /\ reported' = reported \cup {k}
                /\ queue' = BagRemove(queue, m)
                /\ wk' = [wk EXCEPT ![w] = Idle]
                /\ UNCHANGED failed
             \/ /\ PointsIn(k) # {}
                /\ \E readOk \in BOOLEAN :
                     wk' = [wk EXCEPT ![w] = [pc |-> "resolved", msg |-> m,
                                              data |-> NewRootIds(k, readOk)]]
                /\ queue' = BagRemove(queue, m)
                /\ UNCHANGED <<ckpt, reported, failed>>
             \/ /\ PointsIn(k) # {}
                /\ queue' = Requeue(m, BagRemove(queue, m))
                /\ failed' = GiveUp(m, failed)
                /\ wk' = [wk EXCEPT ![w] = Idle]
                /\ UNCHANGED <<ckpt, reported>>
  /\ UNCHANGED <<dpc, startIdx, nextChunk, driverRuns, driverRetries, crashes, seg, indices,
                 chainPending, mpc, qSeen, submitted>>

\* Lines 335-337 and insert_segmentation_data: one transaction upserting the
\* batch; it fails (and retries) when the unique index on id has been dropped.
Upsert(w) ==
  /\ wk[w].pc = "resolved"
  /\ \/ /\ indices # "none"
        /\ seg' = [i \in Ids |-> IF wk[w].data[i] = NoRow THEN seg[i]
                                 ELSE UpsertRow(seg[i], wk[w].data[i])]
        /\ wk' = [wk EXCEPT ![w].pc = "upserted"]
        /\ UNCHANGED <<queue, failed>>
     \/ /\ Retry(w)
        /\ UNCHANGED seg
  /\ UNCHANGED <<ckpt, dpc, startIdx, nextChunk, driverRuns, driverRetries, crashes, indices,
                 chainPending, mpc, qSeen, submitted, reported>>

\* Lines 343-346: increment_completed, then the message is acknowledged.
Report(w) ==
  /\ wk[w].pc = "upserted"
  /\ ckpt' = IncrementCompleted(ckpt)
  /\ reported' = reported \cup {wk[w].msg.chunk}
  /\ wk' = [wk EXCEPT ![w] = Idle]
  /\ UNCHANGED <<dpc, startIdx, nextChunk, driverRuns, driverRetries, queue, crashes, seg,
                 indices, chainPending, mpc, qSeen, submitted, failed>>

\* A worker is lost mid-task: the unacknowledged message returns to the queue.
WorkerCrash(w) ==
  /\ wk[w].pc # "idle"
  /\ crashes < MaxWorkerCrashes
  /\ crashes' = crashes + 1
  /\ queue' = BagAdd(queue, wk[w].msg)
  /\ wk' = [wk EXCEPT ![w] = Idle]
  /\ UNCHANGED <<ckpt, dpc, startIdx, nextChunk, driverRuns, driverRetries, seg, indices,
                 chainPending, mpc, qSeen, submitted, reported, failed>>

-----------------------------------------------------------------------------
(* Monitor: monitor_spatial_lookup_completion and the index rebuild.        *)

\* Line 398: the completion condition on the queue length and the checkpoint.
CompletionReadyStrict == qSeen = 0 /\ ckpt.completed > NChunks
CompletionReady == qSeen = 0 /\ ckpt.completed >= NChunks

\* Line 388: get_queue_length counts only messages waiting in the broker list.
MonitorReadQueue ==
  /\ mpc = "polling"
  /\ qSeen' = BagCardinality(queue)
  /\ mpc' = "checking"
  /\ UNCHANGED <<ckpt, dpc, startIdx, nextChunk, driverRuns, driverRetries, queue, wk, crashes,
                 seg, indices, chainPending, submitted, reported, failed>>

\* Lines 390-418 with rebuild_indices_for_spatial_lookup: when the queue was
\* empty and completed_chunks >= total_chunks, drop every index (primary key
\* included), submit the add_index chain and mark the workflow completed; an
\* exception there (after or before the drop) marks it "error".
MonitorComplete ==
  /\ mpc = "checking"
  /\ CompletionReady
  /\ \/ /\ indices' = "none"
        /\ chainPending' = TRUE
        /\ ckpt' = [ckpt EXCEPT !.status = "completed"]
     \/ /\ indices' \in {indices, "none"}
        /\ ckpt' = [ckpt EXCEPT !.status = "error"]
        /\ UNCHANGED chainPending
  /\ mpc' = "done"
  /\ UNCHANGED <<dpc, startIdx, nextChunk, driverRuns, driverRetries, queue, wk, crashes, seg,
                 qSeen, submitted, reported, failed>>

\* Lines 420-429: not complete yet: sleep and poll again.
MonitorSleep ==
  /\ mpc = "checking"
  /\ ~CompletionReady
  /\ mpc' = "polling"
  /\ UNCHANGED <<ckpt, dpc, startIdx, nextChunk, driverRuns, driverRetries, queue, wk, crashes,
                 seg, indices, chainPending, qSeen, submitted, reported, failed>>

\* Lines 420-426: the 72-hour deadline passed before completion.
MonitorTimeout ==
  /\ mpc = "checking"
  /\ ~CompletionReady
  /\ ckpt' = [ckpt EXCEPT !.status = "error"]
  /\ mpc' = "done"
  /\ UNCHANGED <<dpc, startIdx, nextChunk, driverRuns, driverRetries, queue, wk, crashes, seg,
                 indices, chainPending, qSeen, submitted, reported, failed>>

\* The monitor task is declared without acks_late and without autoretry: a
\* worker lost during its loop (the message was acknowledged on receipt), or
\* an exception of get_queue_length or get_workflow_data outside the try
\* block, ends it for good, with the status and the indices as they are.
MonitorLost ==
  /\ MonitorFaults
  /\ mpc \in {"polling", "checking"}
  /\ mpc' = "lost"
  /\ UNCHANGED <<ckpt, dpc, startIdx, nextChunk, driverRuns, driverRetries, queue, wk, crashes,
                 seg, indices, chainPending, qSeen, submitted, reported, failed>>

\* Lines 445-460: the chained add_index tasks recreate every index.
AddIndexChain ==
  /\ chainPending
  /\ indices' = "all"
  /\ chainPending' = FALSE
  /\ UNCHANGED <<ckpt, dpc, startIdx, nextChunk, driverRuns, driverRetries, queue, wk, crashes,
                 seg, mpc, qSeen, submitted, reported, failed>>

-----------------------------------------------------------------------------
\* Nothing left to do: the driver finished or failed, no monitor polling,
\* workers idle, queue empty.
Finished ==
  /\ dpc \in {"done", "failed"} /\ mpc \in {"off", "done", "lost"} /\ ~chainPending
  /\ queue = EmptyBag /\ \A w \in Workers : wk[w].pc = "idle"
  /\ UNCHANGED vars

Next ==
  \/ DriverStart \/ DriverSubmit \/ DriverFinish \/ DriverCrash \/ DriverError
  \/ \E w \in Workers : Resolve(w) \/ Upsert(w) \/ Report(w) \/ WorkerCrash(w)
  \/ MonitorReadQueue \/ MonitorComplete \/ MonitorSleep \/ MonitorTimeout \/ MonitorLost
  \/ AddIndexChain
  \/ Finished

\* Celery keeps running the driver, the workers and the monitor; lost workers,
\* the monitor's end and the 72-hour timeout are not forced.
Fairness ==
  /\ WF_vars(DriverStart) /\ WF_vars(DriverSubmit) /\ WF_vars(DriverFinish)
  /\ \A w \in Workers : WF_vars(Resolve(w)) /\ WF_vars(Upsert(w)) /\ WF_vars(Report(w))
  /\ WF_vars(MonitorReadQueue) /\ WF_vars(MonitorComplete) /\ WF_vars(MonitorSleep)
  /\ WF_vars(AddIndexChain)

Spec == Init /\ [][Next]_vars /\ Fairness

-----------------------------------------------------------------------------
(* Properties.                                                              *)

TypeOK ==
  /\ ckpt \in [status : Status, total : 0..NChunks, completed : Nat]
  /\ dpc \in {"start", "submitting", "done", "failed"}
  /\ driverRetries \in 0..DriverMaxRetries
  /\ startIdx \in Nat /\ nextChunk \in Nat
  /\ driverRuns \in 1..MaxDriverRuns /\ crashes \in 0..MaxWorkerCrashes
  /\ IsABag(queue) /\ BagToSet(queue) \subseteq Msg
  /\ wk \in [Workers -> [pc : {"idle", "resolved", "upserted"}, msg : Msg \cup {NoMsg},
                         data : [Ids -> Row \cup {NoRow}]]]
  /\ seg \in [Ids -> Row \cup {NoRow}]
  /\ indices \in {"all", "pk", "none"} /\ chainPending \in BOOLEAN
  /\ mpc \in {"off", "polling", "checking", "done", "lost"} /\ qSeen \in Nat
  /\ submitted \subseteq Chunks /\ reported \subseteq Chunks /\ failed \subseteq Chunks

(* Once process_chunk has reported a chunk to the checkpoint, every point *)
(* of that chunk has a row in the segmentation table carrying the          *)
(* supervoxel the volume gives and the root the chunked graph gives for    *)
(* it: upsert before increment, across retries, lost workers, other chunks *)
(* writing the same row and the primary-key drop.                          *)
ReportedRowsCorrect ==
  \A k \in reported : \A p \in PointsIn(k) :
    /\ seg[p[1]] # NoRow
    /\ seg[p[1]][p[2]] = [sv |-> SvOf[p[1]][p[2]], root |-> RootOf(SvOf[p[1]][p[2]])]

(* Once a chunk is reported, every row holding a point of it carries that  *)
(* point's supervoxel id, although the other chunks holding points of the  *)
(* same annotation upsert the whole row, with 0 in the columns they do not *)
(* hold (fillna(0), spatial_lookup.py:726), before or after it, and         *)
(* retries, lost workers and redeliveries write the row again: the CASE of *)
(* the ON CONFLICT clause must keep the other chunk's value.  Rows the      *)
(* inner merge never wrote are the mixed run's subject, not this one's.     *)
ReportedSupervoxelsKept ==
  \A k \in reported : \A p \in PointsIn(k) :
    seg[p[1]] # NoRow => seg[p[1]][p[2]].sv = SvOf[p[1]][p[2]]

(* Every chunk is eventually either reported or given up after its retries. *)
ChunksSettle == <>[](\A k \in Chunks : k \in reported \cup failed)

(* The workflow eventually settles for good: the checkpoint says           *)
(* "completed" with every index of the segmentation table rebuilt, or it   *)
(* says "error".  A driver blocked in the throttle, a monitor that never   *)
(* sees completion, or a rebuild chain that never runs violate it.         *)
WorkflowSettles ==
  <>[](\/ ckpt.status = "completed" /\ indices = "all"
       \/ ckpt.status = "error")

(* The indices dropped for the bulk upserts (secondary ones by the driver,  *)
(* all of them by the monitor) are eventually all rebuilt (spec 4.7, 4.8). *)
IndicesRestored == <>[](indices = "all")

(* When the checkpoint says "completed", every chunk has been processed or  *)
(* given up: the monitor does not finish while chunks are still in flight. *)
CompletedAfterChunks ==
  ckpt.status = "completed" => \A k \in Chunks : k \in reported \cup failed

(* A driver that resumes at skip_to_index(completed_chunks) never skips a   *)
(* chunk that no run has submitted (spec 4.1 resume exactness).            *)
ResumeSkipsOnlySubmitted ==
  dpc = "submitting" => \A k \in Chunks : k < startIdx => k \in submitted

=============================================================================
