-------------------------- MODULE MCSpatialLookup --------------------------
(* Model-checking instances of SpatialLookup.                               *)
EXTENDS SpatialLookup

\* One geometry column "pt"; chunk 0 holds annotation 1, chunk 1 holds
\* annotation 2, which lies outside the segmentation (supervoxel 0), and
\* chunk 2 is empty.
SingleCols == {"pt"}
SingleLoc == [i \in {1, 2} |-> [c \in SingleCols |-> i - 1]]
SingleSv == [i \in {1, 2} |-> [c \in SingleCols |-> IF i = 2 THEN 0 ELSE 1]]

\* Two geometry columns (a synapse), every point inside the segmentation.
PairCols == {"pre_pt", "post_pt"}
PairSv == [i \in Ids |-> [c \in PairCols |-> 1]]

\* Annotation 1 split over chunks 0 and 1, annotation 2 wholly in chunk 1.
MixedLoc == [i \in {1, 2} |-> [c \in PairCols |->
                IF i = 1 /\ c = "pre_pt" THEN 0 ELSE 1]]
=============================================================================
