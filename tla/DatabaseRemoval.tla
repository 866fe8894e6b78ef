--------------------------- MODULE DatabaseRemoval ---------------------------
(***************************************************************************)
(* remove_expired_databases (periodic_database_removal.py) for one         *)
(* datastack: read the expired analysis versions and the existing          *)
(* materialized databases once, then walk the expired ones oldest first,   *)
(* dropping each while more than delete_threshold databases would remain   *)
(* by the run's own count, and marking its AnalysisVersion invalid.        *)
(* The count is len(databases) - len(dropped_dbs): it is read once and     *)
(* decreases only when both the DROP and the version update succeed.      *)
(***************************************************************************)
EXTENDS Naturals, FiniteSets, Sequences, SequencesExt

CONSTANTS
  DBs,             \* materialized databases of the datastack, numbered by time_stamp
  Thresholds,      \* values of the delete_threshold argument (5 by default)
  DropMayFail,     \* DROP DATABASE may raise (new connections, permissions)
  MarkMayFail,     \* the AnalysisVersion lookup or commit may raise
  NoDb

ASSUME /\ DBs \subseteq Nat 
       /\ Thresholds \subseteq Nat
       /\ DropMayFail \in BOOLEAN /\ MarkMayFail \in BOOLEAN
       /\ NoDb \notin DBs

VARIABLES
  deleteThreshold, \* the task's delete_threshold argument
  expired,   \* databases whose AnalysisVersion.expires_on has passed
  exists,    \* databases present in pg_database
  valid,     \* valid[d]: AnalysisVersion.valid of d's version
  pc,        \* "start", "loop", "drop", "mark", "done"
  n,         \* len(databases), read once
  toDelete,  \* databases_to_delete, ordered by time_stamp
  idx,       \* position of the loop in toDelete
  dropped,   \* len(dropped_dbs)
  cur        \* the database of the current iteration

vars == <<deleteThreshold, expired, exists, valid, pc, n, toDelete, idx, dropped, cur>>

-----------------------------------------------------------------------------
\* databases_to_delete: expired versions that are present, oldest first.
ToDelete(present) == SetToSortSeq(expired \cap present, <)

\* The guard of the loop body: more than delete_threshold remain after it.
KeepsThreshold(total, k) == total - k > deleteThreshold

\* expired_database.valid = False; session.commit(), and its mutant
\* without the commit.
MarkVersionNoCommit(d) == valid
MarkVersion(d) == [valid EXCEPT ![d] = FALSE]

Init ==
  /\ deleteThreshold \in Thresholds
  /\ expired \in SUBSET DBs
  /\ exists = DBs
  /\ valid = [d \in DBs |-> TRUE]
  /\ pc = "start"
  /\ n = 0 /\ toDelete = <<>> /\ idx = 1 /\ dropped = 0 /\ cur = NoDb

\* The expired-version query (its failure skips the datastack), the
\* pg_database read, and the len(databases) > delete_threshold test.
Start ==
  /\ pc = "start"
  /\ \/ /\ pc' = "done"
        /\ UNCHANGED <<n, toDelete>>
     \/ /\ n' = Cardinality(exists)
        /\ toDelete' = ToDelete(exists)
        /\ pc' = IF Cardinality(exists) > deleteThreshold THEN "loop" ELSE "done"
  /\ UNCHANGED <<deleteThreshold, expired, exists, valid, idx, dropped, cur>>

\* The for loop runs out of databases_to_delete.
LoopEnd ==
  /\ pc = "loop" /\ idx > Len(toDelete)
  /\ pc' = "done"
  /\ UNCHANGED <<deleteThreshold, expired, exists, valid, n, toDelete, idx, dropped, cur>>

\* The test len(databases) - (len(dropped_dbs) + 1) == 1, and its mutant
\* that compares with 0.
OneRemainingOffByOne(total, k) == total - (k + 1) = 0
OneRemaining(total, k) == total - (k + 1) = 1

\* "Only one materialized database remaining": break.
StopAtOne ==
  /\ pc = "loop" /\ idx <= Len(toDelete)
  /\ OneRemaining(n, dropped)
  /\ pc' = "done"
  /\ UNCHANGED <<deleteThreshold, expired, exists, valid, n, toDelete, idx, dropped, cur>>

\* The count allows a drop: go on to the SELECT 1 / DROP DATABASE block.
Candidate ==
  /\ pc = "loop" /\ idx <= Len(toDelete)
  /\ ~OneRemaining(n, dropped)
  /\ KeepsThreshold(n, dropped)
  /\ pc' = "drop" /\ cur' = toDelete[idx]
  /\ UNCHANGED <<deleteThreshold, expired, exists, valid, n, toDelete, idx, dropped>>

\* The count forbids a drop: the loop goes on to the next database.
Skip ==
  /\ pc = "loop" /\ idx <= Len(toDelete)
  /\ ~OneRemaining(n, dropped)
  /\ ~KeepsThreshold(n, dropped)
  /\ idx' = idx + 1
  /\ UNCHANGED <<deleteThreshold, expired, exists, valid, pc, n, toDelete, dropped, cur>>

\* SELECT 1, pg_terminate_backend and DROP DATABASE; an exception is logged
\* and the loop goes on.
Drop ==
  /\ pc = "drop"
  /\ cur \in exists
  /\ \/ /\ DropMayFail
        /\ pc' = "loop" /\ idx' = idx + 1
        /\ UNCHANGED exists
     \/ /\ exists' = exists \ {cur}
        /\ pc' = "mark"
        /\ UNCHANGED idx
  /\ UNCHANGED <<deleteThreshold, expired, valid, n, toDelete, dropped, cur>>

\* The AnalysisVersion query(...).one(), valid = False, commit, and
\* dropped_dbs.append; an exception skips the append.
Mark ==
  /\ pc = "mark"
  /\ \/ /\ valid' = MarkVersion(cur)
        /\ dropped' = dropped + 1
     \/ /\ MarkMayFail
        /\ UNCHANGED <<valid, dropped>>
  /\ pc' = "loop" /\ idx' = idx + 1
  /\ UNCHANGED <<deleteThreshold, expired, exists, n, toDelete, cur>>

Next == Start \/ LoopEnd \/ StopAtOne \/ Candidate \/ Skip \/ Drop \/ Mark

Spec == Init /\ [][Next]_vars /\ WF_vars(Next)

-----------------------------------------------------------------------------
(* Properties.                                                              *)

(* The removal never leaves fewer than delete_threshold materialized       *)
(* databases, unless there were no more than that to begin with.          *)
ThresholdKept ==
  Cardinality(exists) >= IF Cardinality(DBs) > deleteThreshold
                         THEN deleteThreshold ELSE Cardinality(DBs)

(* Refinement: the run implements PruneExpired.  A database whose DROP has *)
(* committed and whose version update is the next step counts as invalid   *)
(* already, so the DROP is the abstract Prune step and the update a        *)
(* stutter; the loop's own steps and failed DROPs are stutters too.  It    *)
(* fails when the loop's count is stale, when it drops the second-to-last  *)
(* database, or when a version is left valid.                              *)
AbsValid == [d \in DBs |-> IF pc = "mark" /\ d = cur THEN FALSE ELSE valid[d]]

Abs == INSTANCE PruneExpired WITH valid <- AbsValid

ImplementsPruneExpired == Abs!Spec

=============================================================================
