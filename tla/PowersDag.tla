------------------------------ MODULE PowersDag ------------------------------
(***************************************************************************)
(* PowersDag (uMCRG/MCRG/common/apsu/powers.h, powers.cpp): the plan by    *)
(* which the receiver computes every target power of an encrypted query    *)
(* from the few source powers the sender ships.  A node is a power, its    *)
(* depth in multiplications, and the two smaller powers it is the product  *)
(* of.  The object can be configured again: Configure is the whole of      *)
(* configure(), its leading reset() and its four refusals included.        *)
(***************************************************************************)
EXTENDS Integers, FiniteSets, SequencesExt, FiniteSetsExt

CONSTANTS
    Requests,   \* the [sources, targets] pairs configure() may be called with
    MaxConfigs  \* bound: how often one PowersDag is configured

ASSUME RequestsAssumption ==
    /\ Requests \subseteq [sources : SUBSET Nat, targets : SUBSET Nat]
    /\ \A r \in Requests : IsFiniteSet(r.targets)
ASSUME MaxConfigsAssumption == MaxConfigs \in Nat \ {0}

VARIABLES
    nodes,        \* nodes_: power -> node; reset() does not clear it
    targets,      \* target_powers_
    depth,        \* depth_
    sourceCount,  \* source_count_
    configured,   \* configured_
    sources,      \* the source powers of the last successful configure()
    configs       \* calls of configure() so far

dagVars == <<nodes, targets, depth, sourceCount, configured, sources, configs>>

Node == [depth : Nat, parents : Nat \X Nat]
SourceNode == [depth |-> 0, parents |-> <<0, 0>>]
IsSource(node) == node.parents = <<0, 0>>

-----------------------------------------------------------------------------
(* create_powers_set: every power up to the degree, or, for Paterson and   *)
(* Stockmeyer, the low powers and the multiples of the first high power.   *)
CreatePowersSet(low, degree) ==
    IF low = 0
    THEN 1..degree
    ELSE (1..low) \union {p \in (low + 1)..degree : p % (low + 1) = 0}

\* The powers of a finite set in ascending order: each by how many precede it.
Ascending(S) ==
    [k \in 1..Cardinality(S) |-> CHOOSE p \in S : Cardinality({q \in S : q < p}) = k - 1]

Splits(p, T) == {s \in T : s < p /\ p - s \in T}
Cost(N, p, s) == Max({N[s].depth, N[p - s].depth}) + 1

Preset(p) == [depth |-> p - 1, parents |-> <<p - 1, 1>>]
Product(N, p, s) == [depth |-> Cost(N, p, s), parents |-> <<s, p - s>>]

\* Mutant: the first improving split is kept, not the best.
AnyBetterNode(N, p, T) ==
    LET better == {s \in Splits(p, T) : Cost(N, p, s) < p - 1}
    IN  IF better = {} THEN Preset(p) ELSE Product(N, p, Min(better))

(* One turn of configure()'s loop: the depth-optimal way to write p as a   *)
(* sum of two targets, the smallest first parent winning a tie.  A choice  *)
(* replaces the preset (p - 1) + 1, of depth p - 1, only if it is better.  *)
BestNode(N, p, T) ==
    LET better == {s \in Splits(p, T) : Cost(N, p, s) < p - 1}
        best == {s \in better : \A r \in better :
                    \/ Cost(N, p, s) < Cost(N, p, r)
                    \/ Cost(N, p, s) = Cost(N, p, r) /\ s <= r}
    IN  IF best = {} THEN Preset(p) ELSE Product(N, p, CHOOSE s \in best : TRUE)

AddPower(N, p, T) ==
    [q \in DOMAIN N \union {p} |-> IF q = p THEN BestNode(N, p, T) ELSE N[q]]

AddSources(N, S) ==
    [q \in DOMAIN N \union S |-> IF q \in S THEN SourceNode ELSE N[q]]

(* The nodes after configure(S, T) on a dag that already holds N. *)
Extended(N, S, T) ==
    FoldLeft(LAMBDA acc, p : AddPower(acc, p, T), AddSources(N, S), Ascending(T \ S))

Refused(S, T) ==
    \/ 0 \in S \/ 1 \notin S
    \/ 0 \in T \/ 1 \notin T
    \/ ~ (S \subseteq T)

-----------------------------------------------------------------------------
DagInit ==
    /\ nodes = <<>>
    /\ targets = {}
    /\ depth = 0
    /\ sourceCount = 0
    /\ configured = FALSE
    /\ sources = {}
    /\ configs = 0

ConfigureRefuses(S, T) ==
    /\ configs < MaxConfigs
    /\ Refused(S, T)
    /\ targets' = {} /\ depth' = 0 /\ sourceCount' = 0
    /\ configured' = FALSE /\ sources' = {}
    /\ configs' = configs + 1
    /\ UNCHANGED nodes

ConfigureSucceeds(S, T) ==
    /\ configs < MaxConfigs
    /\ ~ Refused(S, T)
    /\ nodes' = Extended(nodes, S, T)
    /\ targets' = T
    /\ depth' = Max({nodes'[p].depth : p \in T})
    /\ sourceCount' = Cardinality(S)
    /\ configured' = TRUE
    /\ sources' = S
    /\ configs' = configs + 1

Configure ==
    \E r \in Requests : \/ ConfigureRefuses(r.sources, r.targets)
                        \/ ConfigureSucceeds(r.sources, r.targets)

-----------------------------------------------------------------------------
(* Level(k): the targets that k rounds of multiplying two known powers     *)
(* reach, the independent meaning of a depth.                              *)
Level(k, S, T) ==
    LET Grow(L, i) == L \union {p \in T : \E a \in L : p - a \in L}
    IN  FoldLeft(Grow, S, [i \in 1..k |-> i])

DagTypeOK ==
    /\ DOMAIN nodes \subseteq Nat
    /\ \A p \in DOMAIN nodes : nodes[p] \in Node
    /\ targets \subseteq DOMAIN nodes
    /\ configured <=> targets # {}
    /\ depth \in Nat /\ sourceCount \in Nat
    /\ configured \in BOOLEAN /\ configs \in 0..MaxConfigs

(* Every node is the product of two of the targets that are computed       *)
(* strictly earlier, so the computation never asks for a power it does not *)
(* have ("The parents are always found in target_powers_vec").             *)
ParentsInTargets ==
    \A p \in targets : ~ IsSource(nodes[p]) =>
        \E a, b \in targets :
            /\ nodes[p].parents = <<a, b>>
            /\ a + b = p
            /\ nodes[a].depth < nodes[p].depth
            /\ nodes[b].depth < nodes[p].depth

(* The greedy choice is optimal: a node's depth is the least number of     *)
(* rounds of multiplications that reach its power, and depth() is the      *)
(* least that reaches every target ("in a depth-optimal way").             *)
DepthsOptimal ==
    /\ \A p \in targets :
        LET d == nodes[p].depth
        IN  /\ p \in Level(d, sources, targets)
            /\ d > 0 => p \notin Level(d - 1, sources, targets)
    /\ targets = Level(depth, sources, targets)
    /\ depth > 0 => targets # Level(depth - 1, sources, targets)

(* For the targets that create_powers_set builds from the parameters, all  *)
(* callers' targets, and any sources, configure() makes a plan that can be *)
(* carried out and has the least depth, whatever nodes an earlier          *)
(* configuration left behind.  Other targets can lack a parent: configure()*)
(* accepts them too, and parallel_apply throws.                            *)
PlanSound(low) ==
    (configured /\ targets = CreatePowersSet(low, Max(targets))) =>
        ParentsInTargets /\ DepthsOptimal

=============================================================================
