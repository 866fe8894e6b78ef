---------------------------- MODULE PruneExpired ----------------------------
(***************************************************************************)
(* What remove_expired_databases promises, without its loop: each step     *)
(* removes one expired materialized database, only while dropping it       *)
(* leaves at least delete_threshold databases and never a single one, and  *)
(* the same step marks that database's analysis version invalid.  Nothing  *)
(* else changes a database or a version.  The task may stop at any time,   *)
(* so the specification has no fairness.                                   *)
(***************************************************************************)
EXTENDS Naturals, FiniteSets

CONSTANTS
  DBs,        \* materialized databases of the datastack
  Thresholds  \* values of the delete_threshold argument

VARIABLES
  deleteThreshold, \* the delete_threshold of this run
  expired,         \* databases whose version has expired
  exists,          \* databases present
  valid            \* valid[d]: the version of d is valid

vars == <<deleteThreshold, expired, exists, valid>>

Init ==
  /\ deleteThreshold \in Thresholds
  /\ expired \in SUBSET DBs
  /\ exists = DBs
  /\ valid = [d \in DBs |-> TRUE]

\* Remove expired database d when enough others remain.
Prune(d) ==
  /\ d \in expired \cap exists
  /\ Cardinality(exists) - 1 >= deleteThreshold
  /\ Cardinality(exists) - 1 # 1
  /\ exists' = exists \ {d}
  /\ valid' = [valid EXCEPT ![d] = FALSE]
  /\ UNCHANGED <<deleteThreshold, expired>>

Next == \E d \in DBs : Prune(d)

Spec == Init /\ [][Next]_vars

=============================================================================
