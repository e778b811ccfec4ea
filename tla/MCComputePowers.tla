-------------------------- MODULE MCComputePowers --------------------------
(* Instances of ComputePowers for TLC. *)
EXTENDS PolynEval

CONSTANTS
    Degree   \* largest max_items_per_bin

MCTargets == {CreatePowersSet(LowDegree, d) : d \in LowDegree..Degree}

(* Queries over the callers' targets with at most two sources; one that is *)
(* refused; targets that lack a parent.                                    *)
MCSources(T) == {S \in SUBSET T : 1 \in S /\ Cardinality(S) <= 2}

MCRequests ==
    UNION {{[sources |-> S, targets |-> T] : S \in MCSources(T)} : T \in MCTargets}
    \union {[sources |-> {2}, targets |-> {1, 2}], [sources |-> {1}, targets |-> {1, 3}]}
=============================================================================
