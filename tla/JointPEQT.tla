----------------------------- MODULE JointPEQT -----------------------------
(***************************************************************************)
(* What the joint private equality test promises: party 0 learns at most   *)
(* once, and then exactly which bins have equal sums of shares on the two  *)
(* sides (or, in the permuted test, how many), and nothing else changes.   *)
(***************************************************************************)
EXTENDS Integers, FiniteSets, FiniteSetsExt

CONSTANTS Others, Bins, Permute, Order, NoResult

VARIABLES rows,     \* per pair of party 0 and another party, its two rows
          verdict   \* what party 0 knows

\* The sum over all pairs of one side's shares in a bin.
Sum(side, b) == SumFunctionOnSet([idx \in Others |-> rows[idx][side][b]], Others)

Equal == {b \in Bins : (Sum("d", b) - Sum("e", b)) % Order = 0}

Init == verdict = NoResult

Decide ==
  /\ verdict = NoResult
  /\ verdict' = IF Permute THEN Cardinality(Equal) ELSE Equal
  /\ UNCHANGED rows

Spec == Init /\ [][Decide]_<<rows, verdict>>
=============================================================================
