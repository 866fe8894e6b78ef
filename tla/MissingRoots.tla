---------------------------- MODULE MissingRoots ----------------------------
(***************************************************************************)
(* The missing-roots repair pass of ingest_new_annotations.py:             *)
(* process_missing_roots_workflow scans the segmentation table for the     *)
(* min and max id of rows with a NULL root id, cuts [min, max] into id     *)
(* chunks (create_chunks), and runs a chord of lookup_root_ids tasks, one  *)
(* per chunk, followed by update_metadata.  Each task reads the rows of    *)
(* its id range from SQL, re-reads their current roots, looks up roots of  *)
(* rows whose roots are all NULL, and bulk-updates the rows.               *)
(*                                                                         *)
(* Chunks are disjoint id ranges and the repair is the only writer here,   *)
(* so a task execution is one atomic step: concurrent tasks commute.       *)
(***************************************************************************)
EXTENDS Naturals, FiniteSets, FiniteSetsExt

CONSTANTS
  Ids,            \* annotation ids (primary keys), a finite set of positive integers
  Cols,           \* geometry columns (one root/supervoxel pair each)
  SvOf,           \* SvOf[i][c]: the supervoxel id stored for row i, column c (0 or 1)
  ChunkSize,      \* create_chunks size (500 in the code)
  MaxRetries,     \* lookup_root_ids max_retries (6 in the code)
  TransientErrors,\* whether the database and the chunked graph may fail
  InitTables,     \* the tables the repair may start from
  Null,           \* a NULL root id
  NoRow           \* no row with this id in the segmentation table

RootVal == {Null, 0, 1}
Row == [Cols -> RootVal]

ASSUME /\ Ids \subseteq Nat \ {0} /\ Ids # {}
       /\ SvOf \in [Ids -> [Cols -> {0, 1}]]
       /\ ChunkSize \in Nat \ {0} /\ MaxRetries \in Nat
       /\ TransientErrors \in BOOLEAN
       /\ InitTables \subseteq [Ids -> Row \cup {NoRow}]

\* A task argument: the ids [lo, hi], or the bare id returned when min = max.
Chunk == [lo : Ids, hi : Ids, single : BOOLEAN]
Msg == [ch : Chunk, retries : 0..MaxRetries]

VARIABLES
  seg,        \* seg[i]: the root ids of row i, or NoRow
  phase,      \* "scan", "running" (chord submitted), "done" (update_metadata ran), "error"
  queue,      \* lookup_root_ids messages not yet finished
  done,       \* history: chunks whose task committed its update
  failed,     \* history: chunks whose task exhausted its retries
  nullAtScan  \* history: ids whose roots were all NULL when the scan ran

vars == <<seg, phase, queue, done, failed, nullAtScan>>

-----------------------------------------------------------------------------
(* Helpers.                                                                 *)

AnyNull(r) == r # NoRow /\ \E c \in Cols : r[c] = Null
AllNull(r) == r # NoRow /\ \A c \in Cols : r[c] = Null

\* chunkedgraph get_roots: a root for a nonzero supervoxel, 0 for 0.
RootOf(sv) == IF sv = 0 THEN 0 ELSE 1
Resolved(i) == [c \in Cols |-> RootOf(SvOf[i][c])]

\* get_ids_with_missing_roots: ids of rows where any root column IS NULL.
MissingIds == {i \in Ids : AnyNull(seg[i])}

\* range(min_id, max_id + 1), and its mutant without the + 1.
IdRangeExclusive(lo, hi) == lo..(hi - 1)
IdRange(lo, hi) == lo..hi

\* create_chunks(ids, size): consecutive slices of ChunkSize ids; the task
\* receives the slice and keeps its first and last element.
CreateChunks(lo, hi) ==
  LET r == IdRange(lo, hi)
      first == Min(r)
      last == Max(r)
  IN {[lo |-> first + k * ChunkSize,
       hi |-> Min({first + k * ChunkSize + ChunkSize - 1, last}),
       single |-> FALSE] : k \in 0..((Cardinality(r) - 1) \div ChunkSize)}

\* get_sql_supervoxel_ids: the rows with an id in [lo, hi].
SqlRows(ch) == {i \in ch.lo..ch.hi : seg[i] # NoRow}

\* Mutant: the current roots are written back and nothing is looked up.
NewRootIdsNoLookup(i, readOk) == seg[i]

\* Mutant: when the read of the current roots fails, rows that are not all
\* NULL get root 0 instead of being looked up.
NewRootIdsZeroOnFailedRead(i, readOk) ==
  IF AllNull(seg[i]) THEN Resolved(i)
  ELSE IF readOk THEN seg[i] ELSE [c \in Cols |-> 0]

\* get_new_root_ids on rows read from SQL: the current roots are read (a
\* failed read gives none, and then every row is looked up); roots are
\* looked up only for rows whose root columns are all NULL.
NewRootIds(i, readOk) ==
  IF ~readOk \/ AllNull(seg[i]) THEN Resolved(i) ELSE seg[i]

\* update_segmentation_data: bulk_update_mappings of the merged records by
\* primary key, then commit.
UpdateSegmentationData(rows, readOk) ==
  [i \in Ids |-> IF i \in rows THEN NewRootIds(i, readOk) ELSE seg[i]]

-----------------------------------------------------------------------------
Init ==
  /\ seg \in InitTables
  /\ phase = "scan"
  /\ queue = {}
  /\ done = {} /\ failed = {}
  /\ nullAtScan = {}

\* process_missing_roots_workflow for one table: get_ids_with_missing_roots
\* (min and max id of rows with a NULL root; one chunk list, or [min_id] when
\* min = max, or None), then apply the chord, or skip when there is nothing.
Scan ==
  LET ids == MissingIds
      lo == Min(ids)
      hi == Max(ids)
      chunks == IF lo < hi THEN CreateChunks(lo, hi)
                ELSE {[lo |-> lo, hi |-> lo, single |-> TRUE]}
  IN /\ phase = "scan"
     /\ nullAtScan' = {i \in Ids : AllNull(seg[i])}
     /\ IF ids = {}
        THEN /\ phase' = "done"
             /\ UNCHANGED queue
        ELSE /\ phase' = "running"
             /\ queue' = {[ch |-> c, retries |-> 0] : c \in chunks}
     /\ UNCHANGED <<seg, done, failed>>

\* autoretry / self.retry: re-publish with one more retry, or give up.
Requeue(m) == (queue \ {m}) \cup {[m EXCEPT !.retries = @ + 1]}
RetryOffByOne(m) ==
  /\ IF m.retries <= MaxRetries
     THEN queue' = Requeue(m) /\ UNCHANGED failed
     ELSE queue' = queue \ {m} /\ failed' = failed \cup {m.ch}
  /\ UNCHANGED <<seg, phase, done, nullAtScan>>
\* Mutant: no retry limit (max_retries=None): the message is re-published
\* for ever; the model's counter stops at MaxRetries.
RetryForever(m) ==
  /\ IF m.retries < MaxRetries
     THEN queue' = Requeue(m) /\ UNCHANGED failed
     ELSE UNCHANGED <<queue, failed>>
  /\ UNCHANGED <<seg, phase, done, nullAtScan>>
Retry(m) ==
  /\ IF m.retries < MaxRetries
     THEN queue' = Requeue(m) /\ UNCHANGED failed
     ELSE queue' = queue \ {m} /\ failed' = failed \cup {m.ch}
  /\ UNCHANGED <<seg, phase, done, nullAtScan>>

\* lookup_root_ids: missing_root_id_chunk[0] fails on a bare id (TypeError);
\* an id range with no rows gives an empty frame and supervoxel_df["id"]
\* fails (KeyError); any database or graph call may fail.  Otherwise
\* update_segmentation_data bulk-updates the rows and commits.
LookupRootIds(m) ==
  LET rows == SqlRows(m.ch)
  IN /\ phase = "running"
     /\ m \in queue
     /\ \/ /\ m.ch.single \/ rows = {} \/ TransientErrors
           /\ Retry(m)
        \/ /\ ~m.ch.single /\ rows # {}
           /\ \E readOk \in IF TransientErrors THEN BOOLEAN ELSE {TRUE} :
                seg' = UpdateSegmentationData(rows, readOk)
           /\ queue' = queue \ {m}
           /\ done' = done \cup {m.ch}
           /\ UNCHANGED <<phase, failed, nullAtScan>>

\* lookup_missing_root_ids_workflow: the chord body (fin, then
\* update_metadata) runs only when every header task succeeded.
ChordEnd ==
  /\ phase = "running"
  /\ queue = {}
  /\ phase' = IF failed = {} THEN "done" ELSE "error"
  /\ UNCHANGED <<seg, queue, done, failed, nullAtScan>>

Next ==
  \/ Scan
  \/ \E m \in queue : LookupRootIds(m)
  \/ ChordEnd

\* Celery runs every published task and every chord callback; nothing else.
Fairness ==
  /\ WF_vars(Scan)
  /\ WF_vars(\E m \in queue : LookupRootIds(m))
  /\ WF_vars(ChordEnd)

Spec == Init /\ [][Next]_vars /\ Fairness

-----------------------------------------------------------------------------
(* Properties.                                                              *)

TypeOK ==
  /\ seg \in [Ids -> Row \cup {NoRow}]
  /\ phase \in {"scan", "running", "done", "error"}
  /\ queue \subseteq Msg
  /\ done \subseteq Chunk /\ failed \subseteq Chunk
  /\ nullAtScan \subseteq Ids

InChunk(i, S) == \E ch \in S : i \in ch.lo..ch.hi

(* Every row whose roots were all NULL at the scan and that lies in a chunk *)
(* whose lookup_root_ids committed now has the roots of its supervoxels.   *)
RepairedRowsResolved ==
  \A i \in nullAtScan : InChunk(i, done) => seg[i] = Resolved(i)

(* Every row found NULL by the scan is eventually either repaired or in a  *)
(* chunk whose task gave up: no such row falls outside every chunk.        *)
NullRowsSettle ==
  <>[](\A i \in nullAtScan : seg[i] = Resolved(i) \/ InChunk(i, failed))

(* When the database and the graph answer, the chord completes and          *)
(* update_metadata runs.                                                   *)
ChordCompletes == <>(phase = "done")

(* Refinement: the repair implements RootRepair.  The rows still to repair *)
(* are those found all-NULL by the scan that do not have their roots yet.  *)
(* Each committed lookup_root_ids is one Refresh of the rows it changed;   *)
(* failed attempts and retries are stutters.  It fails when a task writes  *)
(* a root other than the one of the row's supervoxel, touches a missing    *)
(* row, or the chord ends done with a NULL row left.                       *)
Abs == INSTANCE RootRepair WITH todo <- {i \in nullAtScan : seg[i] # Resolved(i)}

ImplementsRootRepair == Abs!Spec

=============================================================================
