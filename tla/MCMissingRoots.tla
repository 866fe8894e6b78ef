--------------------------- MODULE MCMissingRoots ---------------------------
(* Tables for the missing-roots repair: one geometry column, rows whose    *)
(* roots are NULL, 0 or known, and ids with no row (deleted annotations).  *)
EXTENDS MissingRoots

MCCols == {"pt"}
MCSv == [i \in Ids |-> [c \in MCCols |-> IF i = 2 THEN 0 ELSE 1]]

\* Every table of uniform rows (all roots of a row written by one insert).
AllTables == [Ids -> {NoRow} \cup {[c \in MCCols |-> v] : v \in RootVal}]

\* Tables with at least two NULL rows, so that the scan returns id chunks.
MultiNullTables ==
  {t \in AllTables : Cardinality({i \in Ids : AllNull(t[i])}) >= 2}
=============================================================================
