---------------------------- MODULE MCSsPeqtRot ----------------------------
(***************************************************************************)
(* Instances of SsPeqtRot for TLC.                                         *)
(***************************************************************************)
EXTENDS SsPeqtRot

\* An item is in one cache of a receiver at most.
MCEqualCells ==
  {c \in SUBSET (0..(rowNum * colNum - 1)) :
     \A x, y \in c : x % rowNum = y % rowNum => x = y}

\* No item, one in the first or in the last cache, one in each bin.
MCSomeCells == {{}, {0}, {2 * rowNum}, {1, rowNum}}

MCNone == {{}}

\* Any matrices missing; at most one result file that does not open.
MCAbsent     == SUBSET ({"sender", "receiver"} \X (0..(tn - 1)))
MCUnwritable == {f \in MCAbsent : Cardinality(f) <= 1}
=============================================================================
