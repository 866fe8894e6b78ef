----------------------------- MODULE RootRepair -----------------------------
(***************************************************************************)
(* What the missing-roots repair promises (spec 4.9), without chunks,      *)
(* messages or retries: after one scan it refreshes the roots of existing  *)
(* rows, any number at a time, to the roots of their supervoxels; it ends  *)
(* "done" only when every row whose roots were all NULL at the scan has    *)
(* its roots, and it may end in "error" at any time.  It never creates or  *)
(* deletes a row.                                                          *)
(***************************************************************************)
EXTENDS Naturals, FiniteSets

CONSTANTS
  Ids,         \* primary keys
  Cols,        \* geometry columns
  SvOf,        \* SvOf[i][c]: the stored supervoxel of row i, column c
  InitTables,  \* the tables the repair may start from
  Null,        \* a NULL root id
  NoRow        \* no row with this id

VARIABLES
  seg,    \* seg[i]: the root ids of row i, or NoRow
  phase,  \* "scan", "running", "done", "error"
  todo    \* rows found all-NULL by the scan and not yet repaired

vars == <<seg, phase, todo>>

AllNull(r) == r # NoRow /\ \A c \in Cols : r[c] = Null
Repaired(i) == [c \in Cols |-> IF SvOf[i][c] = 0 THEN 0 ELSE 1]

Init ==
  /\ seg \in InitTables
  /\ phase = "scan"
  /\ todo = {}

\* The scan finds the all-NULL rows; with none the repair is done at once.
Scan ==
  /\ phase = "scan"
  /\ todo' = {i \in Ids : AllNull(seg[i])}
  /\ phase' \in IF todo' = {} THEN {"done", "running"} ELSE {"running"}
  /\ UNCHANGED seg

\* Refresh the roots of some existing rows.
Refresh(S) ==
  /\ phase = "running"
  /\ S # {} /\ \A i \in S : seg[i] # NoRow
  /\ seg' = [i \in Ids |-> IF i \in S THEN Repaired(i) ELSE seg[i]]
  /\ todo' = todo \ S
  /\ UNCHANGED phase

Finish ==
  /\ phase = "running"
  /\ todo = {}
  /\ phase' = "done"
  /\ UNCHANGED <<seg, todo>>

Fail ==
  /\ phase = "running"
  /\ phase' = "error"
  /\ UNCHANGED <<seg, todo>>

Next == Scan \/ (\E S \in SUBSET Ids : Refresh(S)) \/ Finish \/ Fail

Spec == Init /\ [][Next]_vars

=============================================================================
