-------------------------- MODULE ComputePowers_proof --------------------------
(***************************************************************************)
(* Theorems about ComputePowers for every query, number of threads, set of *)
(* powers whose product throws, and number of configurations: the plan     *)
(* PowersDag makes can be carried out and has the least depth, and the     *)
(* workers of parallel_apply, whose only lock is a compare_exchange on the *)
(* state of a node, compute every power once and in its order.  On what    *)
(* they leave, both evaluations of PolynEval give a polynomial's value.    *)
(***************************************************************************)
EXTENDS PolynEval, FoldTheorems, SequenceTheorems, TLAPS

(***************************************************************************)
(* The plan.  Whatever nodes were there before, configure(S, T) leaves the *)
(* sources' and, at every other target, the best node for the depths that  *)
(* the smaller targets have in the same plan.                              *)
(***************************************************************************)
Planned(N, S, T) ==
  /\ T \in SUBSET Nat /\ IsFiniteSet(T) /\ S \subseteq T /\ 1 \in S /\ 0 \notin T
  /\ T \subseteq DOMAIN N
  /\ \A p \in S : N[p] = SourceNode
  /\ \A p \in T \ S : N[p] = BestNode(N, p, T)

Plan ==
  /\ DOMAIN nodes \subseteq Nat /\ \A p \in DOMAIN nodes : nodes[p] \in Node
  /\ depth \in Nat /\ sourceCount \in Nat
  /\ configs \in 0..MaxConfigs /\ configured \in BOOLEAN
  /\ ~configured => targets = {}
  /\ configured => /\ Planned(nodes, sources, targets)
                   /\ depth = Max({nodes[p].depth : p \in targets})

(***************************************************************************)
(* The computation, from StartApply on.                                    *)
(***************************************************************************)
Stages == {"queued", "check", "claim", "first_parent", "second_parent", "release",
           "begin", "end", "mark", "done", "threw"}

Begun == state # <<>>

Fresh ==
  /\ state = <<>> /\ powers = <<>> /\ applied = <<>>
  /\ worker = [w \in Workers |-> Idle] /\ awaited = 0

Types ==
  /\ main \in {"configure", "apply", "switch", "returned", "threw"}
  /\ main = "configure" => ~Begun
  /\ main \in {"apply", "switch"} => Begun
  /\ ~Begun => Fresh
  /\ Begun =>
       /\ configured
       /\ state \in [targets -> {"uncomputed", "computing", "computed"}]
       /\ powers \in [targets -> [exp : Nat, form : Forms]]
       /\ applied \in [targets -> Nat]
       /\ worker \in [Workers -> [at : Stages, idx : 1..Cardinality(targets),
                                  ready : BOOLEAN, prod : Nat]]
       /\ awaited \in 0..Threads

(* A claim is given back only by its holder, never by one that threw.      *)
Busy(w) == Holding(w) \/ worker[w].at = "threw"

Claiming ==
  Begun =>
    /\ \A v, w \in Workers : v # w /\ Busy(v) /\ Busy(w) => Claimed(v) # Claimed(w)
    /\ \A p \in targets : state[p] = "computing" <=> \E w \in Workers : Busy(w) /\ Claimed(w) = p

(* What the nodes hold, by their state.                                    *)
Ready(p) ==
  ~IsSource(nodes[p]) => /\ ParentsKnown(p)
                         /\ \A i \in {1, 2} : state[nodes[p].parents[i]] = "computed"

Nodes ==
  Begun =>
    /\ \A p \in sources : powers[p].exp = p
    /\ \A p \in targets :
         /\ state[p] = "uncomputed" => applied[p] = 0
         /\ state[p] = "computed" => /\ powers[p].exp = p /\ powers[p].form # "blank"
                                     /\ applied[p] = 1 /\ Ready(p)

(* What a worker knows, by its stage: nobody else touches the node it      *)
(* holds, and a node is computed for good.                                 *)
Knows(w) ==
  LET p == Claimed(w)
  IN  /\ worker[w].at \in {"first_parent", "second_parent", "release", "begin"} => applied[p] = 0
      /\ worker[w].at \in {"first_parent", "second_parent", "release"} => ~IsSource(nodes[p])
      /\ worker[w].at = "second_parent" =>
           /\ ParentsKnown(p)
           /\ worker[w].ready => state[nodes[p].parents[1]] = "computed"
      /\ worker[w].at \in {"begin", "end", "mark"} => Ready(p)
      /\ worker[w].at \in {"end", "mark"} => applied[p] = 1
      /\ worker[w].at = "end" => worker[w].prod = p
      /\ worker[w].at = "mark" => powers[p] = Ciphertext(p, "coefficients")
      /\ worker[w].at = "done" => AllComputed

Knowing == Begun => \A w \in Workers : Knows(w)

(* Where main is, and what it has made of the forms.                       *)
Main ==
  Begun =>
    /\ \A w \in 1..awaited : worker[w].at = "done"
    /\ main \in {"apply", "threw"} => \A p \in targets : powers[p].form \in {"blank", "coefficients"}
    /\ main \in {"switch", "returned"} =>
         /\ AllComputed /\ \A w \in Workers : worker[w].at = "done"
         /\ \A p \in targets : powers[p].form \in {"coefficients", FinalForm(p)}
    /\ main = "returned" => \A p \in targets : Switched(p)

IInv == Plan /\ Types /\ Claiming /\ Nodes /\ Knowing /\ Main

-----------------------------------------------------------------------------
(***************************************************************************)
(* A finite set of powers in ascending order.                              *)
(***************************************************************************)
\* Max of two numbers.
LEMMA MaxOfTwo ==
  ASSUME NEW a \in Nat, NEW b \in Nat
  PROVE  Max({a, b}) = IF a < b THEN b ELSE a
<1> DEFINE c == IF a < b THEN b ELSE a
<1>1. c \in {a, b} /\ \A y \in {a, b} : c >= y OBVIOUS
<1>2. \A x \in {a, b} : (\A y \in {a, b} : x >= y) => x = c OBVIOUS
<1> HIDE DEF c
<1>3. Max({a, b}) = c BY <1>1, <1>2 DEF Max
<1> QED BY <1>3 DEF c

\* The k-th power has k - 1 before it; every power has its place.
LEMMA AscendingIs ==
  ASSUME NEW S \in SUBSET Nat, IsFiniteSet(S)
  PROVE  /\ Cardinality(S) \in Nat
         /\ Ascending(S) \in [1..Cardinality(S) -> S]
         /\ \A i, j \in 1..Cardinality(S) : i < j => Ascending(S)[i] < Ascending(S)[j]
         /\ \A p \in S : \E k \in 1..Cardinality(S) : Ascending(S)[k] = p
<1> DEFINE n == Cardinality(S)
           Below(p) == {q \in S : q < p}
           rank == [p \in S |-> Cardinality(Below(p))]
<1>0. n \in Nat BY FS_CardinalityType
<1>1. ASSUME NEW p \in S PROVE rank[p] \in 0..(n - 1) /\ IsFiniteSet(Below(p))
  <2>1. IsFiniteSet(S \ {p}) /\ Cardinality(S \ {p}) = n - 1 BY FS_RemoveElement
  <2>2. Below(p) \subseteq S \ {p} OBVIOUS
  <2>3. IsFiniteSet(Below(p)) /\ Cardinality(Below(p)) <= Cardinality(S \ {p})
    BY <2>1, <2>2, FS_Subset
  <2>4. Cardinality(Below(p)) \in Nat BY <2>3, FS_CardinalityType
  <2> QED BY <2>1, <2>3, <2>4, <1>0
<1>2. ASSUME NEW p \in S, NEW r \in S, p < r PROVE rank[p] < rank[r]
  <2>1. p \notin Below(p) /\ Below(p) \cup {p} \subseteq Below(r)
    <3>1. p \in Nat /\ r \in Nat /\ \A q \in S : q \in Nat OBVIOUS
    <3>2. \A q \in S : q < p => q < r BY <3>1, <1>2
    <3>3. ~(p < p) BY <3>1
    <3>4. p \notin Below(p) BY <3>3
    <3>5. \A q \in Below(p) \cup {p} : q \in Below(r) BY <3>2, <1>2
    <3> QED BY <3>4, <3>5
  <2>2. /\ IsFiniteSet(Below(p) \cup {p})
        /\ Cardinality(Below(p) \cup {p}) = Cardinality(Below(p)) + 1
    BY <2>1, <1>1, FS_AddElement
  <2>3. Cardinality(Below(p) \cup {p}) <= Cardinality(Below(r)) BY <2>1, <1>1, FS_Subset
  <2>4. rank[p] = Cardinality(Below(p)) /\ rank[r] = Cardinality(Below(r)) OBVIOUS
  <2>5. rank[p] \in Nat /\ rank[r] \in Nat BY <1>1, <1>0
  <2> HIDE DEF rank, Below
  <2> QED BY <2>2, <2>3, <2>4, <2>5
<1> DEFINE m == 0..(n - 1)
<1>3. rank \in [S -> m]
  <2>1. \A p \in S : rank[p] \in m BY <1>1
  <2> QED BY <2>1
<1> HIDE DEF rank
<1>4. \A p, r \in S : rank[p] = rank[r] => p = r
  <2> SUFFICES ASSUME NEW p \in S, NEW r \in S, rank[p] = rank[r], p # r PROVE FALSE OBVIOUS
  <2>1. p < r \/ r < p OBVIOUS
  <2>2. rank[p] \in Int /\ rank[r] \in Int BY <1>3, <1>0
  <2> QED BY <2>1, <2>2, <1>2
<1>5. rank \in Injection(S, m) BY <1>3, <1>4 DEF Injection, IsInjective
<1>6. IsFiniteSet(m) /\ Cardinality(m) = n
  <2>1. 0 \in Int /\ n - 1 \in Int BY <1>0
  <2>2. IsFiniteSet(m) /\ Cardinality(m) = IF 0 > n - 1 THEN 0 ELSE (n - 1) - 0 + 1
    BY <2>1, FS_Interval
  <2> QED BY <2>2, <1>0
<1>7. rank \in Surjection(S, m) BY <1>5, <1>6, FS_Injection
<1>8. \A k \in 1..n : \E p \in S : rank[p] = k - 1
  <2>1. \A k \in 1..n : k - 1 \in m BY <1>0
  <2> QED BY <2>1, <1>7 DEF Surjection
<1>9. \A k \in 1..n : Ascending(S)[k] \in S /\ rank[Ascending(S)[k]] = k - 1
  <2> SUFFICES ASSUME NEW k \in 1..n
               PROVE  Ascending(S)[k] \in S /\ rank[Ascending(S)[k]] = k - 1
    OBVIOUS
  <2>1. \E p \in S : Cardinality({q \in S : q < p}) = k - 1 BY <1>8 DEF rank
  <2>2. Ascending(S)[k] = CHOOSE p \in S : Cardinality({q \in S : q < p}) = k - 1
    BY DEF Ascending
  <2>3. Ascending(S)[k] \in S /\ Cardinality(Below(Ascending(S)[k])) = k - 1 BY <2>1, <2>2
  <2> QED BY <2>3 DEF rank
<1>10. Ascending(S) \in [1..n -> S] BY <1>9 DEF Ascending
<1>11. \A i, j \in 1..n : i < j => Ascending(S)[i] < Ascending(S)[j]
  <2> SUFFICES ASSUME NEW i \in 1..n, NEW j \in 1..n, i < j
               PROVE  Ascending(S)[i] < Ascending(S)[j]
    OBVIOUS
  <2> DEFINE a == Ascending(S)[i]
             b == Ascending(S)[j]
  <2>1. a \in S /\ b \in S /\ rank[a] = i - 1 /\ rank[b] = j - 1 BY <1>9
  <2> HIDE DEF a, b
  <2>2. a \in Nat /\ b \in Nat /\ i \in Nat /\ j \in Nat BY <2>1, <1>0
  <2>3. a # b BY <2>1, <2>2
  <2>4. ~(b < a)
    <3>1. ASSUME b < a PROVE FALSE
      <4>1. rank[b] < rank[a] BY <3>1, <2>1, <1>2
      <4> QED BY <4>1, <2>1, <2>2
    <3> QED BY <3>1
  <2> QED BY <2>2, <2>3, <2>4 DEF a, b
<1>12. ASSUME NEW p \in S PROVE \E k \in 1..n : Ascending(S)[k] = p
  <2>1. rank[p] \in 0..(n - 1) BY <1>3
  <2>2. rank[p] + 1 \in 1..n BY <2>1, <1>0
  <2>3. rank[Ascending(S)[rank[p] + 1]] = rank[p] /\ Ascending(S)[rank[p] + 1] \in S
    BY <2>1, <2>2, <1>9, <1>0
  <2> QED BY <2>2, <2>3, <1>4
<1> QED BY <1>0, <1>10, <1>11, <1>12

-----------------------------------------------------------------------------
(***************************************************************************)
(* What one turn of a loop makes of what it has: configure's loop and the  *)
(* levels of the powers that k rounds reach; square and multiply, Horner's *)
(* method and the polynomial of a bin; and two sums of the proofs below.   *)
(***************************************************************************)
PassOf(kind, ctx, e, acc) ==
  IF kind = "plan" THEN AddPower(acc, e, ctx)
  ELSE IF kind = "level" THEN acc \union {p \in ctx : \E a \in acc : p - a \in acc}
  ELSE IF kind = "square" THEN SquareAndMultiply(acc)
  ELSE IF kind = "horner" THEN (e + ctx * acc) % mod
  ELSE IF kind = "power" THEN ctx * acc
  ELSE IF kind = "partial" THEN acc + ctx.w[e - 1] * ctx.c[e]
  ELSE MulMonicMonomial(acc, e)    \* "roots"

Loop == INSTANCE FoldTheorems WITH OneRound <- PassOf

\* The nodes before the first turn of configure's loop, after each, and after the last.
LEMMA PlanLoop ==
  ASSUME NEW N, NEW src, NEW all \in SUBSET Nat, IsFiniteSet(all)
  PROVE  \E g : /\ g[0] = AddSources(N, src)
                /\ \A k \in 1..Cardinality(all \ src) :
                     g[k] = AddPower(g[k - 1], Ascending(all \ src)[k], all)
                /\ Extended(N, src, all) = g[Cardinality(all \ src)]
<1> DEFINE n == Cardinality(all \ src)
           seq == Ascending(all \ src)
           base == AddSources(N, src)
           h == CHOOSE h : Loop!IsUnrolling(h, "left", "plan", all, base, seq, n)
<1>1. n \in Nat /\ DOMAIN seq = 1..n
  <2>1. all \ src \in SUBSET Nat /\ IsFiniteSet(all \ src) BY FS_Subset
  <2> QED BY <2>1, AscendingIs
<1>2. Loop!IsUnrolling(h, "left", "plan", all, base, seq, n) BY <1>1, Loop!UnrollingExists
<1>3. Extended(N, src, all) = h[1..n]
  <2> DEFINE Of(D) == (CHOOSE f :
                         f = [s \in SUBSET D |->
                                Loop!Unrolled(f, "left", "plan", all, base, seq, s)])[D]
  <2>1. Extended(N, src, all) = Of(DOMAIN seq)
    BY DEF Extended, FoldLeft, MapThenFoldSet, PassOf, Max, Min, Loop!Max, Loop!Min,
       Loop!Unrolled, Loop!LastTaken
  <2>2. h[1..n] = Of(1..n) BY DEF Loop!IsUnrolling
  <2> HIDE DEF Of
  <2> QED BY <1>1, <2>1, <2>2
<1> HIDE DEF h, seq, base, n
<1>4. PICK g : Loop!AreRounds(g, "left", "plan", all, base, seq, n) /\ g[n] = h[1..n]
  BY ONLY <1>1, <1>2, Loop!RoundByRound
<1>5. g[0] = base /\ g[n] = Extended(N, src, all) BY <1>3, <1>4 DEF Loop!AreRounds
<1>6. ASSUME NEW k \in 1..n PROVE g[k] = AddPower(g[k - 1], seq[k], all)
  <2>1. PICK j \in 0..(n - 1) : k = j + 1 /\ j = k - 1
    <3>1. k - 1 \in 0..(n - 1) /\ k = (k - 1) + 1 BY <1>1
    <3> QED BY <3>1
  <2>2. g[j + 1] = AddPower(g[j], seq[j + 1], all) BY <1>4 DEF Loop!AreRounds, PassOf
  <2> QED BY <2>1, <2>2
<1> QED BY <1>5, <1>6 DEF n, seq, base

\* The levels, round by round.
AreLevels(g, k, src, all) ==
  /\ g[0] = src
  /\ \A m \in 0..(k - 1) :
       g[m + 1] = g[m] \union {p \in all : \E a \in g[m] : p - a \in g[m]}

LEMMA LevelRounds ==
  ASSUME NEW k \in Nat, NEW src, NEW all
  PROVE  \E g : AreLevels(g, k, src, all) /\ g[k] = Level(k, src, all)
<1> DEFINE seq == [m \in 1..k |-> m]
           h == CHOOSE h : Loop!IsUnrolling(h, "left", "level", all, src, seq, k)
<1>1. Loop!IsUnrolling(h, "left", "level", all, src, seq, k) BY Loop!UnrollingExists
<1>2. Level(k, src, all) = h[1..k]
  BY DEF Level, FoldLeft, MapThenFoldSet, PassOf, Max, Min, Loop!Max, Loop!Min,
     Loop!IsUnrolling, Loop!Unrolled, Loop!LastTaken
<1> HIDE DEF h
<1>3. PICK g : Loop!AreRounds(g, "left", "level", all, src, seq, k) /\ g[k] = h[1..k]
  <2> HIDE DEF seq
  <2> QED BY ONLY k \in Nat, <1>1, Loop!RoundByRound
<1>4. /\ g[0] = src
      /\ \A m \in 0..(k - 1) : g[m + 1] = PassOf("level", all, seq[m + 1], g[m])
  BY <1>3 DEF Loop!AreRounds
<1> HIDE DEF seq
<1>5. AreLevels(g, k, src, all) BY <1>4 DEF AreLevels, PassOf
<1> QED BY <1>2, <1>3, <1>5

-----------------------------------------------------------------------------
(***************************************************************************)
(* The node of a power that is not a source.                               *)
(***************************************************************************)
\* It is the split of least cost, if that is less than the preset's.
LEMMA BestCases ==
  ASSUME NEW N, NEW p \in Nat, NEW T \in SUBSET Nat,
         \A s \in Splits(p, T) : Cost(N, p, s) \in Nat
  PROVE  \/ /\ \A s \in Splits(p, T) : Cost(N, p, s) >= p - 1
            /\ BestNode(N, p, T) = Preset(p)
         \/ \E s \in Splits(p, T) :
              /\ Cost(N, p, s) < p - 1 /\ \A r \in Splits(p, T) : Cost(N, p, s) <= Cost(N, p, r)
              /\ BestNode(N, p, T) = Product(N, p, s)
<1> DEFINE C(s) == Cost(N, p, s)
           better == {s \in Splits(p, T) : C(s) < p - 1}
           best == {s \in better : \A r \in better : C(s) < C(r) \/ (C(s) = C(r) /\ s <= r)}
<1>0. BestNode(N, p, T) = IF best = {} THEN Preset(p) ELSE Product(N, p, CHOOSE s \in best : TRUE)
  BY DEF BestNode
<1> HIDE DEF C
<1>1. \A s \in Splits(p, T) : C(s) \in Nat /\ s \in Nat BY DEF Splits, C
<1>2. CASE better = {}
  <2>1. \A s \in Splits(p, T) : C(s) >= p - 1 BY <1>1, <1>2
  <2>2. best = {} BY <1>2
  <2> QED BY <2>1, <2>2, <1>0 DEF C
<1>3. CASE better # {}
  <2> DEFINE costs == {C(s) : s \in better}
  <2>1. costs \in SUBSET Nat /\ costs # {} BY <1>1, <1>3
  <2>2. PICK c \in costs : \A d \in costs : c <= d
    <3> HIDE DEF costs
    <3> QED BY <2>1, LeastNat
  <2>3. PICK t \in better : c = C(t) BY <2>2
  <2> DEFINE least == {s \in better : C(s) = c}
  <2>4. least \in SUBSET Nat /\ least # {} BY <1>1, <2>3
  <2>5. PICK s \in least : \A r \in least : s <= r
    <3> HIDE DEF least
    <3> QED BY <2>4, LeastNat
  <2>6. \A r \in better : c <= C(r) /\ C(r) \in Nat BY <2>2, <1>1
  <2>7. \A r \in better : C(r) = c \/ c < C(r) BY <2>6, <2>3
  <2>8. s \in best
    <3>1. \A r \in better : C(s) < C(r) \/ (C(s) = C(r) /\ s <= r) BY <2>5, <2>7
    <3> QED BY <3>1, <2>5
  <2> DEFINE x == CHOOSE x \in best : TRUE
  <2>9. x \in best /\ BestNode(N, p, T) = Product(N, p, x) BY <2>8, <1>0
  <2> HIDE DEF x
  <2>10. x \in Splits(p, T) /\ C(x) < p - 1 BY <2>9
  <2>11. \A r \in better : C(x) <= C(r) BY <2>9, <2>10, <1>1
  <2>12. \A r \in Splits(p, T) : C(x) <= C(r)
    <3> SUFFICES ASSUME NEW r \in Splits(p, T), r \notin better PROVE C(x) <= C(r) BY <2>11
    <3>1. C(r) \in Nat /\ C(x) \in Nat /\ ~(C(r) < p - 1) BY <1>1, <2>10
    <3> QED BY <3>1, <2>10
  <2> QED BY <2>9, <2>10, <2>12 DEF C
<1> QED BY <1>2, <1>3

\* It depends only on the nodes of the smaller targets.
LEMMA BestSame ==
  ASSUME NEW N, NEW M, NEW p \in Nat, NEW T \in SUBSET Nat, 0 \notin T,
         \A s \in T : s < p => M[s] = N[s]
  PROVE  BestNode(M, p, T) = BestNode(N, p, T)
<1>1. \A s \in Splits(p, T) : Cost(M, p, s) = Cost(N, p, s)
  <2> SUFFICES ASSUME NEW s \in Splits(p, T) PROVE Cost(M, p, s) = Cost(N, p, s) OBVIOUS
  <2>1. s \in T /\ p - s \in T /\ s < p /\ s \in Nat /\ s # 0 BY DEF Splits
  <2>2. p - s < p BY <2>1
  <2> QED BY <2>1, <2>2 DEF Cost
<1> DEFINE Better(O) == {s \in Splits(p, T) : Cost(O, p, s) < p - 1}
           Best(O) == {s \in Better(O) : \A r \in Better(O) :
                         \/ Cost(O, p, s) < Cost(O, p, r)
                         \/ Cost(O, p, s) = Cost(O, p, r) /\ s <= r}
<1>2. Better(M) = Better(N) BY <1>1
<1>3. Best(M) = Best(N) BY <1>1, <1>2
<1> DEFINE Chosen(B) == CHOOSE s \in B : TRUE
<1>4. BestNode(M, p, T) = IF Best(M) = {} THEN Preset(p) ELSE Product(M, p, Chosen(Best(M)))
  BY DEF BestNode
<1>5. BestNode(N, p, T) = IF Best(N) = {} THEN Preset(p) ELSE Product(N, p, Chosen(Best(N)))
  BY DEF BestNode
<1>6. Best(N) # {} => Chosen(Best(N)) \in Splits(p, T) OBVIOUS
<1> HIDE DEF Best, Better, Chosen
<1> QED BY <1>1, <1>3, <1>4, <1>5, <1>6 DEF Product

\* Costs are numbers where the nodes have depths.
LEMMA CostIs ==
  ASSUME NEW N, NEW p \in Nat, NEW T \in SUBSET Nat, 0 \notin T,
         \A s \in T : s < p => N[s].depth \in Nat
  PROVE  \A s \in Splits(p, T) :
           /\ s \in T /\ p - s \in T /\ s \in Nat /\ p - s \in Nat /\ s < p /\ p - s < p
           /\ N[s].depth \in Nat /\ N[p - s].depth \in Nat
           /\ Cost(N, p, s) \in Nat
           /\ Cost(N, p, s) = IF N[s].depth < N[p - s].depth THEN N[p - s].depth + 1
                                                            ELSE N[s].depth + 1
<1> SUFFICES ASSUME NEW s \in Splits(p, T)
             PROVE  /\ s \in T /\ p - s \in T /\ s \in Nat /\ p - s \in Nat /\ s < p /\ p - s < p
                    /\ N[s].depth \in Nat /\ N[p - s].depth \in Nat
                    /\ Cost(N, p, s) \in Nat
                    /\ Cost(N, p, s) = IF N[s].depth < N[p - s].depth THEN N[p - s].depth + 1
                                                                     ELSE N[s].depth + 1
  OBVIOUS
<1>1. s \in T /\ p - s \in T /\ s < p /\ s \in Nat /\ s # 0 BY DEF Splits
<1>2. p - s < p /\ p - s \in Nat BY <1>1
<1>3. N[s].depth \in Nat /\ N[p - s].depth \in Nat BY <1>1, <1>2
<1>4. Max({N[s].depth, N[p - s].depth}) = IF N[s].depth < N[p - s].depth THEN N[p - s].depth
                                                                       ELSE N[s].depth
  BY <1>3, MaxOfTwo
<1>5. Cost(N, p, s) = IF N[s].depth < N[p - s].depth THEN N[p - s].depth + 1
                                                  ELSE N[s].depth + 1
  BY <1>4 DEF Cost
<1> QED BY <1>1, <1>2, <1>3, <1>5

\* It is a node, of two powers that add up to its own.
LEMMA BestIs ==
  ASSUME NEW N, NEW p \in Nat, p # 0, NEW T \in SUBSET Nat, 0 \notin T,
         \A s \in T : s < p => N[s] \in Node
  PROVE  /\ BestNode(N, p, T) \in Node
         /\ ~IsSource(BestNode(N, p, T))
         /\ BestNode(N, p, T).parents[1] + BestNode(N, p, T).parents[2] = p
<1>0. \A s \in T : s < p => N[s].depth \in Nat BY DEF Node
<1>1. \A s \in Splits(p, T) : Cost(N, p, s) \in Nat /\ s \in Nat /\ p - s \in Nat /\ s \in T
  BY <1>0, CostIs
<1>2. CASE BestNode(N, p, T) = Preset(p) BY <1>2 DEF Preset, Node, IsSource
<1>3. ASSUME NEW s \in Splits(p, T), BestNode(N, p, T) = Product(N, p, s)
      PROVE  /\ BestNode(N, p, T) \in Node
             /\ ~IsSource(BestNode(N, p, T))
             /\ BestNode(N, p, T).parents[1] + BestNode(N, p, T).parents[2] = p
  <2>1. Cost(N, p, s) \in Nat /\ s \in Nat /\ p - s \in Nat /\ s # 0 BY <1>1
  <2> QED BY <2>1, <1>3 DEF Product, Node, IsSource
<1> QED BY <1>1, <1>2, <1>3, BestCases

-----------------------------------------------------------------------------
\* configure() leaves a plan, whatever nodes it finds, by induction on its turns.
LEMMA Extends ==
  ASSUME NEW N, DOMAIN N \subseteq Nat, \A p \in DOMAIN N : N[p] \in Node,
         NEW S, NEW T \in SUBSET Nat, IsFiniteSet(T), ~Refused(S, T)
  PROVE  /\ DOMAIN Extended(N, S, T) \subseteq Nat
         /\ \A p \in DOMAIN Extended(N, S, T) : Extended(N, S, T)[p] \in Node
         /\ Planned(Extended(N, S, T), S, T)
<1>0. S \subseteq T /\ 1 \in S /\ 0 \notin T BY DEF Refused
<1> DEFINE n == Cardinality(T \ S)
           order == Ascending(T \ S)
<1>1. T \ S \in SUBSET Nat /\ IsFiniteSet(T \ S) BY FS_Subset
<1>2. /\ n \in Nat /\ order \in [1..n -> T \ S]
      /\ \A i, j \in 1..n : i < j => order[i] < order[j]
      /\ \A p \in T \ S : \E k \in 1..n : order[k] = p
  BY <1>1, AscendingIs
<1>3. PICK g : /\ g[0] = AddSources(N, S)
               /\ \A k \in 1..n : g[k] = AddPower(g[k - 1], order[k], T)
               /\ Extended(N, S, T) = g[n]
  BY PlanLoop
<1> HIDE DEF n, order
<1> DEFINE Typed(M) == DOMAIN M \subseteq Nat /\ \A p \in DOMAIN M : M[p] \in Node
           Sources(M) == \A p \in S : p \in DOMAIN M /\ M[p] = SourceNode
           Products(M, k) == \A j \in 1..k : /\ order[j] \in DOMAIN M
                                             /\ M[order[j]] = BestNode(M, order[j], T)
           Good(k) == Typed(g[k]) /\ Sources(g[k]) /\ Products(g[k], k)
           U == {k \in Nat : k <= n => Good(k)}
<1>4. 0 \in U
  <2>1. SourceNode \in Node BY DEF SourceNode, Node
  <2>2. Typed(g[0])
    <3>1. DOMAIN g[0] = DOMAIN N \cup S BY <1>3 DEF AddSources
    <3>2. \A p \in DOMAIN g[0] : g[0][p] \in Node BY <1>3, <2>1 DEF AddSources
    <3>3. DOMAIN N \cup S \subseteq Nat BY <1>0
    <3> QED BY <3>1, <3>2, <3>3
  <2>3. Sources(g[0]) BY <1>3 DEF AddSources
  <2>4. Products(g[0], 0) OBVIOUS
  <2> HIDE DEF Typed, Sources, Products
  <2> QED BY <2>2, <2>3, <2>4
<1>5. ASSUME NEW k \in U PROVE k + 1 \in U
  <2>0. k \in Nat BY <1>5
  <2> SUFFICES ASSUME k + 1 <= n PROVE Good(k + 1) BY <2>0
  <2> DEFINE M == g[k]
             O == g[k + 1]
             p == order[k + 1]
  <2>1. k + 1 \in 1..n /\ k <= n BY <2>0, <1>2
  <2>2. Typed(M) /\ Sources(M) /\ Products(M, k)
    <3> HIDE DEF Typed, Sources, Products
    <3> QED BY <2>1, <1>5
  <2>3. p \in T /\ p \notin S /\ p \in Nat /\ p # 0
    <3>1. p \in T \ S BY <2>1, <1>2
    <3> HIDE DEF p
    <3> QED BY <3>1, <1>0
  <2>4. O = AddPower(M, p, T)
    <3>1. (k + 1) - 1 = k BY <2>0
    <3> QED BY <2>1, <3>1, <1>3
  <2>5. \A j \in 1..k : j \in 1..n /\ j \in 1..(k + 1) /\ order[j] < p /\ order[j] \in T
    <3>1. \A j \in 1..k : j \in 1..n /\ j < k + 1 /\ j \in 1..(k + 1) BY <2>0, <2>1, <1>2
    <3> QED BY <3>1, <2>1, <1>2
  <2>6. ASSUME NEW s \in T, s < p PROVE s \in DOMAIN M
    <3>1. CASE s \in S BY <3>1, <2>2
    <3>2. CASE s \notin S
      <4>1. PICK j \in 1..n : order[j] = s BY <3>2, <1>2
      <4>2. ~(k + 1 < j) /\ j # k + 1
        <5>1. k + 1 < j => p < s BY <2>1, <4>1, <1>2
        <5>2. ~(p < s) /\ s # p
          <6>1. s \in Nat OBVIOUS
          <6> QED BY <6>1, <2>3, <2>6
        <5> QED BY <5>1, <5>2, <4>1
      <4>3. j \in 1..k BY <2>0, <4>2, <1>2
      <4> QED BY <4>1, <4>3, <2>2
    <3> QED BY <3>1, <3>2
  <2>7. \A s \in T : s < p => M[s] \in Node BY <2>2, <2>6
  <2> HIDE DEF M, O, p
  <2>8. BestNode(M, p, T) \in Node BY <2>3, <2>7, <1>0, BestIs
  <2>9. /\ DOMAIN O = DOMAIN M \cup {p} /\ O[p] = BestNode(M, p, T)
        /\ \A q \in DOMAIN M : q # p => O[q] = M[q]
    BY <2>4 DEF AddPower
  <2>10. Typed(O)
    <3>1. DOMAIN O \subseteq Nat BY <2>9, <2>2, <2>3
    <3>2. \A q \in DOMAIN O : O[q] \in Node BY <2>9, <2>8, <2>2
    <3> QED BY <3>1, <3>2
  <2>11. Sources(O) BY <2>9, <2>2, <2>3
  <2>12. \A s \in T : s < p => O[s] = M[s]
    <3> SUFFICES ASSUME NEW s \in T, s < p PROVE O[s] = M[s] OBVIOUS
    <3>1. s # p BY <2>3
    <3> QED BY <3>1, <2>6, <2>9
  <2>13. Products(O, k + 1)
    <3>1. ASSUME NEW j \in 1..k
          PROVE  order[j] \in DOMAIN O /\ O[order[j]] = BestNode(O, order[j], T)
      <4> DEFINE q == order[j]
      <4>1. q \in T /\ q < p /\ q \in Nat BY <2>5
      <4>2. q \in DOMAIN M /\ M[q] = BestNode(M, q, T) BY <2>2
      <4>3. q # p BY <4>1, <2>3
      <4> HIDE DEF q
      <4>4. \A s \in T : s < q => O[s] = M[s]
        <5> SUFFICES ASSUME NEW s \in T, s < q PROVE O[s] = M[s] OBVIOUS
        <5>1. s < p BY <4>1, <2>3
        <5> QED BY <5>1, <2>12
      <4>5. BestNode(O, q, T) = BestNode(M, q, T) BY <4>1, <4>4, <1>0, BestSame
      <4> QED BY <4>2, <4>3, <4>5, <2>9 DEF q
    <3>2. BestNode(O, p, T) = BestNode(M, p, T) BY <2>3, <2>12, <1>0, BestSame
    <3>3. p \in DOMAIN O /\ O[p] = BestNode(O, p, T) BY <3>2, <2>9
    <3>4. \A j \in 1..(k + 1) : j \in 1..k \/ j = k + 1 BY <2>0
    <3> QED BY <3>1, <3>3, <3>4 DEF p
  <2> QED BY <2>10, <2>11, <2>13 DEF O
<1>6. U = Nat
  <2>1. U \in SUBSET Nat OBVIOUS
  <2> HIDE DEF U
  <2> QED BY <2>1, <1>4, <1>5, InductionOnNat
<1>7. Good(n)
  <2> HIDE DEF Good
  <2> QED BY <1>2, <1>6
<1> DEFINE E == Extended(N, S, T)
<1>8. E = g[n] BY <1>3
<1> HIDE DEF E
<1>9. \A p \in T \ S : p \in DOMAIN E /\ E[p] = BestNode(E, p, T)
  <2> SUFFICES ASSUME NEW p \in T \ S PROVE p \in DOMAIN E /\ E[p] = BestNode(E, p, T) OBVIOUS
  <2>1. PICK k \in 1..n : order[k] = p BY <1>2
  <2> QED BY <2>1, <1>7, <1>8
<1>10. \A p \in S : p \in DOMAIN E /\ E[p] = SourceNode BY <1>7, <1>8
<1>11. Planned(E, S, T) BY <1>0, <1>9, <1>10 DEF Planned
<1>12. DOMAIN E \subseteq Nat /\ \A p \in DOMAIN E : E[p] \in Node BY <1>7, <1>8
<1> QED BY <1>11, <1>12 DEF E

\* In a plan exactly the sources have no parents, and the others' parents add up.
LEMMA PlannedParents ==
  ASSUME NEW N, \A p \in DOMAIN N : N[p] \in Node, NEW S, NEW T, Planned(N, S, T)
  PROVE  /\ \A p \in S : IsSource(N[p])
         /\ \A p \in T \ S : ~IsSource(N[p]) /\ N[p].parents[1] + N[p].parents[2] = p
<1>1. \A p \in S : IsSource(N[p]) BY DEF Planned, IsSource, SourceNode
<1>2. \A p \in T \ S : ~IsSource(N[p]) /\ N[p].parents[1] + N[p].parents[2] = p
  <2> SUFFICES ASSUME NEW p \in T \ S
               PROVE  ~IsSource(N[p]) /\ N[p].parents[1] + N[p].parents[2] = p
    OBVIOUS
  <2>1. p \in Nat /\ p # 0 /\ N[p] = BestNode(N, p, T) /\ T \in SUBSET Nat /\ 0 \notin T
    BY DEF Planned
  <2>2. \A s \in T : N[s] \in Node BY DEF Planned
  <2> QED BY <2>1, <2>2, BestIs
<1> QED BY <1>1, <1>2

-----------------------------------------------------------------------------
(***************************************************************************)
(* The plan is sound.                                                      *)
(***************************************************************************)
\* No node is deeper than its preset, so depth() is taken over a finite set.
LEMMA Depths ==
  ASSUME NEW N, \A p \in DOMAIN N : N[p] \in Node, NEW S, NEW T, Planned(N, S, T)
  PROVE  /\ \A p \in T : p \in Nat /\ p >= 1 /\ N[p].depth \in Nat /\ N[p].depth <= p - 1
         /\ IsFiniteSet({N[p].depth : p \in T})
<1>1. T \in SUBSET Nat /\ IsFiniteSet(T) /\ 0 \notin T /\ T # {} /\ \A p \in T : N[p] \in Node
  BY DEF Planned
<1>2. ASSUME NEW p \in T
      PROVE  p \in Nat /\ p >= 1 /\ N[p].depth \in Nat /\ N[p].depth <= p - 1
  <2>1. p \in Nat /\ p >= 1 /\ N[p].depth \in Nat /\ \A s \in T : N[s].depth \in Nat
    BY <1>1 DEF Node
  <2>2. CASE p \in S
    <3>1. N[p].depth = 0 BY <2>2 DEF Planned, SourceNode
    <3> QED BY <2>1, <3>1
  <2>3. CASE p \notin S
    <3>1. N[p] = BestNode(N, p, T) BY <2>3 DEF Planned
    <3>2. \A s \in Splits(p, T) : Cost(N, p, s) \in Nat BY <1>1, <2>1, CostIs
    <3>3. CASE N[p] = Preset(p) BY <2>1, <3>3 DEF Preset
    <3>4. ASSUME NEW s \in Splits(p, T), N[p] = Product(N, p, s), Cost(N, p, s) < p - 1
          PROVE  N[p].depth <= p - 1
      BY <2>1, <3>2, <3>4 DEF Product
    <3> QED BY <1>1, <2>1, <3>1, <3>2, <3>3, <3>4, BestCases
  <2> QED BY <2>2, <2>3, <2>1
<1>3. Max(T) \in Nat /\ \A p \in T : p <= Max(T) BY <1>1, MaxIs
<1>4. {N[p].depth : p \in T} \subseteq 0..Max(T)
  <2> SUFFICES ASSUME NEW p \in T PROVE N[p].depth \in 0..Max(T) OBVIOUS
  <2> DEFINE d == N[p].depth
             m == Max(T)
  <2>1. d \in Nat /\ d <= p - 1 /\ p <= m /\ m \in Nat /\ p \in Nat BY <1>2, <1>3
  <2> HIDE DEF d, m
  <2>2. d \in 0..m BY <2>1
  <2> QED BY <2>2 DEF d, m
<1>5. IsFiniteSet(0..Max(T)) BY <1>3, FS_Interval
<1> QED BY <1>2, <1>4, <1>5, FS_Subset

\* Every target that create_powers_set lists, but the three first, is the sum of
\* two others of which none is 1.
LEMMA Shape ==
  ASSUME NEW low \in Nat, NEW top \in Nat, NEW p \in CreatePowersSet(low, top), p \notin {0, 1}
  PROVE  \/ p = 2 /\ 1 \in CreatePowersSet(low, top)
         \/ p = 3 /\ 2 \in CreatePowersSet(low, top)
         \/ \E c \in CreatePowersSet(low, top) :
              c >= 2 /\ p - c >= 2 /\ p - c \in CreatePowersSet(low, top)
<1> DEFINE T == CreatePowersSet(low, top)
<1>1. CASE low = 0
  <2>1. T = 1..top BY <1>1 DEF CreatePowersSet
  <2>2. p \in 1..top BY <2>1
  <2>3. CASE p = 2 \/ p = 3 BY <2>1, <2>2, <2>3
  <2>4. CASE p > 3
    <3>1. 2 \in 1..top /\ p - 2 \in 1..top /\ p - 2 >= 2 BY <2>2, <2>4
    <3> QED BY <2>1, <3>1
  <2> QED BY <2>2, <2>3, <2>4
<1>2. CASE low # 0
  <2> DEFINE h == low + 1
  <2>0. h \in Nat /\ h >= 2 BY <1>2
  <2>1. T = (1..low) \cup {q \in h..top : q % h = 0} BY <1>2 DEF CreatePowersSet
  <2>2. \A q \in 1..low : q \in T BY <2>1
  <2>3. \A q \in h..top : q % h = 0 => q \in T BY <2>1
  <2>4. CASE p \in 1..low
    <3>1. CASE p = 2 \/ p = 3 BY <2>2, <2>4, <3>1
    <3>2. CASE p > 3
      <4>1. 2 \in 1..low /\ p - 2 \in 1..low /\ p - 2 >= 2 BY <2>4, <3>2
      <4> QED BY <2>2, <4>1
    <3> QED BY <2>4, <3>1, <3>2
  <2>5. CASE p \notin 1..low
    <3>1. p \in h..top /\ p % h = 0 BY <2>1, <2>5
    <3>2. p \in Nat /\ h <= p /\ p <= top BY <3>1, <2>0
    <3>3. CASE p = h
      <4>1. CASE p = 2 \/ p = 3
        <5>1. 1 \in 1..low /\ (p = 3 => 2 \in 1..low) BY <3>3, <4>1, <1>2
        <5> QED BY <4>1, <5>1, <2>2
      <4>2. CASE p > 3
        <5>1. 2 \in 1..low /\ p - 2 \in 1..low /\ p - 2 >= 2 BY <3>3, <4>2
        <5> QED BY <2>2, <5>1
      <4> QED BY <3>2, <4>1, <4>2, <2>0
    <3>4. CASE p # h
      <4> HIDE DEF h
      <4>1. PICK k \in Int : p = k * h
        <5>1. p = h * (p \div h) + (p % h) /\ p \div h \in Int BY <3>2, <2>0
        <5>2. p = (p \div h) * h BY <5>1, <3>1, <3>2, <2>0
        <5> QED BY <5>1, <5>2
      <4>2. k >= 2
        <5>1. CASE k <= 0
          <6>1. k * h <= 0 BY <5>1, <2>0
          <6> QED BY <6>1, <4>1, <3>2, <2>0
        <5>2. CASE k = 1 BY <5>2, <4>1, <3>4, <2>0
        <5> QED BY <5>1, <5>2
      <4>3. p - h = (k - 1) * h BY <4>1, <2>0
      <4>4. (k - 1) * h >= h BY <4>2, <2>0
      <4>5. h % h = 0 /\ (p - h) % h = 0
        <5>1. \A j \in Int : (j * h) % h = 0 BY <2>0
        <5>2. h = 1 * h BY <2>0
        <5> QED BY <5>1, <5>2, <4>3
      <4>6. h \in h..top /\ p - h \in h..top BY <3>2, <4>3, <4>4, <2>0
      <4>7. h \in T /\ p - h \in T BY <2>3, <4>5, <4>6
      <4> QED BY <4>7, <4>3, <4>4, <2>0
    <3> QED BY <3>3, <3>4
  <2> QED BY <2>4, <2>5
<1> QED BY <1>1, <1>2

\* So each takes the best of all its splits, the preset's being one of them.
LEMMA BestSplit ==
  ASSUME NEW low \in Nat, NEW N, \A p \in DOMAIN N : N[p] \in Node, NEW S, NEW T,
         Planned(N, S, T), T = CreatePowersSet(low, Max(T)), NEW p \in T \ S
  PROVE  \E s \in Splits(p, T) :
           /\ N[p].parents = <<s, p - s>> /\ N[p].depth = Cost(N, p, s)
           /\ \A r \in Splits(p, T) : Cost(N, p, s) <= Cost(N, p, r)
<1>1. /\ T \in SUBSET Nat /\ IsFiniteSet(T) /\ 0 \notin T /\ T # {} /\ 1 \in S /\ S \subseteq T
      /\ N[p] = BestNode(N, p, T)
  BY DEF Planned
<1>2. Max(T) \in Nat BY <1>1, MaxIs
<1>3. \A q \in T : q \in Nat /\ q >= 1 /\ N[q].depth \in Nat /\ N[q].depth <= q - 1 BY Depths
<1>4. p \in Nat /\ p \notin {0, 1} /\ p >= 2 BY <1>1
<1>5. \A s \in Splits(p, T) :
        /\ s \in T /\ p - s \in T /\ s \in Nat /\ p - s \in Nat
        /\ Cost(N, p, s) \in Nat
        /\ Cost(N, p, s) = IF N[s].depth < N[p - s].depth THEN N[p - s].depth + 1
                                                         ELSE N[s].depth + 1
  BY <1>1, <1>3, <1>4, CostIs
<1>6. CASE \E s \in Splits(p, T) :
             /\ Cost(N, p, s) < p - 1 /\ \A r \in Splits(p, T) : Cost(N, p, s) <= Cost(N, p, r)
             /\ BestNode(N, p, T) = Product(N, p, s)
  BY <1>1, <1>6 DEF Product
<1>7. CASE /\ \A s \in Splits(p, T) : Cost(N, p, s) >= p - 1
           /\ BestNode(N, p, T) = Preset(p)
  <2>1. ~ \E c \in T : c >= 2 /\ p - c >= 2 /\ p - c \in T
    <3> SUFFICES ASSUME NEW c \in T, c >= 2, p - c >= 2, p - c \in T PROVE FALSE OBVIOUS
    <3>1. c \in Nat /\ c < p BY <1>3, <1>4
    <3>2. c \in Splits(p, T) BY <3>1 DEF Splits
    <3>3. N[c].depth <= c - 1 /\ N[p - c].depth <= (p - c) - 1 BY <1>3
    <3>4. N[c].depth \in Nat /\ N[p - c].depth \in Nat BY <1>3
    <3>5. Cost(N, p, c) < p - 1 BY <1>5, <3>1, <3>2, <3>3, <3>4, <1>4
    <3> QED BY <3>2, <3>5, <1>5, <1>7, <1>4
  <2>2. p - 1 \in T
    <3> DEFINE C == CreatePowersSet(low, Max(T))
    <3>1. p \in C /\ C = T OBVIOUS
    <3>2. \/ p = 2 /\ 1 \in C
          \/ p = 3 /\ 2 \in C
          \/ \E c \in C : c >= 2 /\ p - c >= 2 /\ p - c \in C
      BY <3>1, <1>2, <1>4, Shape
    <3> HIDE DEF C
    <3>3. \/ p = 2 /\ 1 \in T
          \/ p = 3 /\ 2 \in T BY ONLY <3>1, <3>2, <2>1
    <3>4. CASE p = 2 /\ 1 \in T BY <3>4
    <3>5. CASE p = 3 /\ 2 \in T BY <3>5
    <3> QED BY ONLY <3>3, <3>4, <3>5
  <2>3. p - (p - 1) = 1 /\ p - 1 < p /\ 1 \in T BY <1>1, <1>4
  <2>4. p - 1 \in Splits(p, T) BY <2>2, <2>3 DEF Splits
  <2>5. N[1].depth = 0 BY <1>1 DEF Planned, SourceNode
  <2>6. N[p - 1].depth <= (p - 1) - 1 /\ N[p - 1].depth \in Nat BY <1>3, <2>2
  <2>7. Cost(N, p, p - 1) = N[p - 1].depth + 1 BY <1>5, <2>4, <2>3, <2>5, <2>6
  <2>8. Cost(N, p, p - 1) = p - 1 BY <1>7, <2>4, <2>6, <2>7, <1>4
  <2>9. N[p].parents = <<p - 1, p - (p - 1)>> /\ N[p].depth = p - 1 BY <1>1, <1>7, <2>3 DEF Preset
  <2> QED BY <1>7, <1>5, <2>4, <2>8, <2>9
<1>8. \A s \in Splits(p, T) : Cost(N, p, s) \in Nat BY <1>5
<1> QED BY <1>1, <1>4, <1>6, <1>7, <1>8, BestCases

\* What k rounds reach are the targets of depth up to k.
LEMMA LevelIs ==
  ASSUME NEW low \in Nat, NEW N, \A p \in DOMAIN N : N[p] \in Node, NEW S, NEW T,
         Planned(N, S, T), T = CreatePowersSet(low, Max(T)), NEW k \in Nat
  PROVE  Level(k, S, T) = {p \in T : N[p].depth <= k}
<1> DEFINE Upto(m) == {p \in T : N[p].depth <= m}
<1>0. PICK h : AreLevels(h, k, S, T) /\ h[k] = Level(k, S, T) BY LevelRounds
<1>3. h[0] = S BY <1>0 DEF AreLevels
<1>4. \A m \in 0..(k - 1) : h[m + 1] = h[m] \cup {p \in T : \E a \in h[m] : p - a \in h[m]}
  BY <1>0 DEF AreLevels
<1>5. T \in SUBSET Nat /\ 0 \notin T /\ S \subseteq T BY DEF Planned
<1>6. \A p \in T : p \in Nat /\ p >= 1 /\ N[p].depth \in Nat /\ N[p].depth <= p - 1 BY Depths
<1>7. \A p \in S : N[p].depth = 0 BY DEF Planned, SourceNode
<1>8. \A p \in T : \A s \in Splits(p, T) :
        /\ s \in T /\ p - s \in T /\ Cost(N, p, s) \in Nat
        /\ Cost(N, p, s) = IF N[s].depth < N[p - s].depth THEN N[p - s].depth + 1
                                                         ELSE N[s].depth + 1
  <2> SUFFICES ASSUME NEW p \in T
               PROVE  \A s \in Splits(p, T) :
                        /\ s \in T /\ p - s \in T /\ Cost(N, p, s) \in Nat
                        /\ Cost(N, p, s) = IF N[s].depth < N[p - s].depth
                                           THEN N[p - s].depth + 1 ELSE N[s].depth + 1
    OBVIOUS
  <2>1. p \in Nat /\ \A s \in T : s < p => N[s].depth \in Nat BY <1>6
  <2> QED BY <2>1, <1>5, CostIs
<1>9. \A p \in T \ S : \E s \in Splits(p, T) :
        /\ N[p].depth = Cost(N, p, s)
        /\ \A r \in Splits(p, T) : Cost(N, p, s) <= Cost(N, p, r)
  BY BestSplit
<1> DEFINE U == {m \in Nat : m <= k => h[m] = Upto(m)}
<1>10. 0 \in U
  <2>1. ASSUME NEW p \in T \ S PROVE ~(N[p].depth <= 0)
    <3>1. PICK s \in Splits(p, T) : N[p].depth = Cost(N, p, s) BY <1>9
    <3>2. N[s].depth \in Nat /\ N[p - s].depth \in Nat BY <1>6, <1>8
    <3>3. Cost(N, p, s) >= 1 BY <1>8, <3>2
    <3> QED BY <3>1, <3>3, <1>8
  <2>2. Upto(0) = S
    <3>1. \A p \in S : p \in Upto(0) BY <1>5, <1>7
    <3>2. \A p \in Upto(0) : p \in S BY <2>1
    <3> QED BY <3>1, <3>2
  <2> HIDE DEF Upto
  <2> QED BY <2>2, <1>3
<1>11. ASSUME NEW m \in U PROVE m + 1 \in U
  <2>0. m \in Nat BY <1>11
  <2> SUFFICES ASSUME m + 1 <= k PROVE h[m + 1] = Upto(m + 1) BY <2>0
  <2>1. m \in 0..(k - 1) /\ m <= k BY <2>0
  <2>2. h[m + 1] = Upto(m) \cup {p \in T : \E a \in Upto(m) : p - a \in Upto(m)}
    <3> HIDE DEF Upto
    <3>1. h[m] = Upto(m) BY <2>1, <1>11
    <3> QED BY <3>1, <2>1, <1>4
  <2>3. ASSUME NEW p \in T, NEW a \in Upto(m), p - a \in Upto(m) PROVE p \in Upto(m + 1)
    <3>1. a \in T /\ p - a \in T /\ N[a].depth <= m /\ N[p - a].depth <= m BY <2>3
    <3>2. /\ a \in Nat /\ p \in Nat /\ p - a >= 1
          /\ N[a].depth \in Nat /\ N[p - a].depth \in Nat /\ N[p].depth \in Nat
      BY <3>1, <1>6
    <3>3. CASE p \in S BY <3>3, <1>7, <2>0
    <3>4. CASE p \notin S
      <4>1. a \in Splits(p, T) BY <3>1, <3>2 DEF Splits
      <4>2. Cost(N, p, a) = IF N[a].depth < N[p - a].depth THEN N[p - a].depth + 1
                                                          ELSE N[a].depth + 1
        BY ONLY <4>1, <1>8, p \in T
      <4>3. PICK x, y, c, d :
                 /\ x = N[a].depth /\ y = N[p - a].depth /\ c = Cost(N, p, a) /\ d = N[p].depth
        BY ONLY Zenon
      <4>8. x \in Nat /\ y \in Nat /\ d \in Nat BY ONLY <4>3, <3>2, Zenon
      <4>4. x <= m /\ y <= m BY ONLY <4>3, <3>1, Zenon
      <4>5. c = IF x < y THEN y + 1 ELSE x + 1 BY ONLY <4>3, <4>2, Zenon
      <4>6. d <= c BY ONLY <4>3, <4>1, <3>4, <1>9, p \in T
      <4>7. d <= m + 1 BY ONLY <4>4, <4>5, <4>6, <4>8, <2>0
      <4> QED BY ONLY <4>7, <4>3, p \in T
    <3> QED BY <3>3, <3>4
  <2>4. ASSUME NEW p \in Upto(m + 1)
        PROVE  p \in Upto(m) \/ \E a \in Upto(m) : p - a \in Upto(m)
    <3>0. p \in T /\ N[p].depth <= m + 1 /\ N[p].depth \in Nat BY <1>6
    <3>1. CASE p \in S BY <3>1, <3>0, <1>7, <2>0
    <3>2. CASE p \notin S
      <4>1. PICK s \in Splits(p, T) : N[p].depth = Cost(N, p, s) BY <3>0, <3>2, <1>9
      <4>2. s \in T /\ p - s \in T BY <3>0, <1>8
      <4>3. N[s].depth \in Nat /\ N[p - s].depth \in Nat BY <4>2, <1>6
      <4>4. N[s].depth <= m /\ N[p - s].depth <= m BY <4>1, <4>3, <3>0, <1>8, <2>0
      <4> QED BY <4>2, <4>4
    <3> QED BY <3>1, <3>2
  <2>5. \A p \in Upto(m) : p \in Upto(m + 1) BY <2>0, <1>6
  <2>6. Upto(m + 1) \subseteq T OBVIOUS
  <2> HIDE DEF Upto
  <2> QED BY <2>2, <2>3, <2>4, <2>5, <2>6
<1>12. U = Nat
  <2>1. U \in SUBSET Nat OBVIOUS
  <2> HIDE DEF U
  <2> QED BY <2>1, <1>10, <1>11, InductionOnNat
<1>13. h[k] = Upto(k) BY <1>12
<1> QED BY <1>0, <1>13

\* The plan of a query is sound.
LEMMA Sound ==
  ASSUME Plan, configured, NEW low \in Nat, targets = CreatePowersSet(low, Max(targets))
  PROVE  ParentsInTargets /\ DepthsOptimal
<1> DEFINE d(p) == nodes[p].depth
           ds == {d(p) : p \in targets}
<1>1. /\ Planned(nodes, sources, targets) /\ \A p \in DOMAIN nodes : nodes[p] \in Node
      /\ depth = Max(ds)
  BY DEF Plan
<1>2. /\ targets \in SUBSET Nat /\ 0 \notin targets /\ sources \subseteq targets /\ 1 \in sources
      /\ \A p \in targets : d(p) \in Nat
      /\ IsFiniteSet(ds)
  BY <1>1, Depths DEF Planned
<1>3. \A k \in Nat : Level(k, sources, targets) = {p \in targets : d(p) <= k} BY <1>1, LevelIs
<1>4. ParentsInTargets
  <2> SUFFICES ASSUME NEW p \in targets, ~IsSource(nodes[p])
               PROVE  \E a, b \in targets : /\ nodes[p].parents = <<a, b>> /\ a + b = p
                                            /\ d(a) < d(p) /\ d(b) < d(p)
    BY DEF ParentsInTargets
  <2>1. p \notin sources /\ p \in Nat BY <1>1, <1>2, PlannedParents
  <2>2. PICK s \in Splits(p, targets) :
          nodes[p].parents = <<s, p - s>> /\ d(p) = Cost(nodes, p, s)
    BY <1>1, <2>1, BestSplit
  <2>3. /\ s \in targets /\ p - s \in targets /\ s \in Nat
        /\ Cost(nodes, p, s) = IF d(s) < d(p - s) THEN d(p - s) + 1 ELSE d(s) + 1
    BY <1>2, <2>1, CostIs
  <2>4. d(s) \in Nat /\ d(p - s) \in Nat BY <2>3, <1>2
  <2>5. d(s) < d(p) /\ d(p - s) < d(p) BY <2>2, <2>3, <2>4
  <2>6. s + (p - s) = p BY <2>1, <2>3
  <2> QED BY <2>2, <2>3, <2>5, <2>6
<1>5. depth \in ds /\ \A e \in ds : e <= depth
  <2>1. ds \in SUBSET Nat /\ ds # {} BY <1>2
  <2> HIDE DEF ds
  <2> QED BY <1>1, <1>2, <2>1, MaxIs
<1>6. DepthsOptimal
  <2>1. ASSUME NEW p \in targets
        PROVE  /\ p \in Level(d(p), sources, targets)
               /\ d(p) > 0 => p \notin Level(d(p) - 1, sources, targets)
    <3>0. d(p) \in Nat BY <1>2
    <3>1. d(p) <= d(p) BY <3>0
    <3>2. d(p) > 0 => d(p) - 1 \in Nat /\ ~(d(p) <= d(p) - 1) BY <1>2
    <3> QED BY <3>0, <3>1, <3>2, <1>3
  <2>2. depth \in Nat BY <1>5, <1>2
  <2>3. targets = Level(depth, sources, targets)
    <3>1. \A p \in targets : d(p) <= depth BY <1>5
    <3> QED BY <3>1, <2>2, <1>3
  <2>4. depth > 0 => targets # Level(depth - 1, sources, targets)
    <3>1. PICK p \in targets : d(p) = depth BY <1>5
    <3>2. depth > 0 => depth - 1 \in Nat /\ ~(depth <= depth - 1) BY <2>2
    <3> QED BY <3>1, <3>2, <1>3
  <2> QED BY <2>1, <2>3, <2>4 DEF DepthsOptimal
<1> QED BY <1>4, <1>6

-----------------------------------------------------------------------------
(***************************************************************************)
(* The plan is invariant: configure() may be called again and again.       *)
(***************************************************************************)
LEMMA PlanStart == Init => Plan
<1> SUFFICES ASSUME Init PROVE Plan OBVIOUS
<1>1. MaxConfigs \in Nat /\ 0 \in 0..MaxConfigs BY MaxConfigsAssumption
<1>2. nodes = <<>> /\ DOMAIN nodes = {} BY DEF Init, DagInit
<1> QED BY <1>1, <1>2 DEF Init, DagInit, Plan

LEMMA PlanStays == Plan /\ UNCHANGED dagVars => Plan'
BY DEF Plan, dagVars

LEMMA PlanConfigure ==
  ASSUME Plan, Configure
  PROVE  Plan'
<1>1. PICK r \in Requests : \/ ConfigureRefuses(r.sources, r.targets)
                            \/ ConfigureSucceeds(r.sources, r.targets)
  BY DEF Configure
<1> DEFINE S == r.sources
           T == r.targets
<1>2. T \in SUBSET Nat /\ IsFiniteSet(T) BY RequestsAssumption
<1> HIDE DEF S, T
<1>3. configs < MaxConfigs => configs + 1 \in 0..MaxConfigs BY MaxConfigsAssumption DEF Plan
<1>4. CASE ConfigureRefuses(S, T) BY <1>3, <1>4 DEF ConfigureRefuses, Plan
<1>5. CASE ConfigureSucceeds(S, T)
  <2>1. /\ ~Refused(S, T) /\ nodes' = Extended(nodes, S, T) /\ targets' = T
        /\ depth' = Max({nodes'[p].depth : p \in T}) /\ sourceCount' = Cardinality(S)
        /\ configured' = TRUE /\ sources' = S /\ configs' \in 0..MaxConfigs
    BY <1>3, <1>5 DEF ConfigureSucceeds
  <2>2. DOMAIN nodes \subseteq Nat /\ \A p \in DOMAIN nodes : nodes[p] \in Node BY DEF Plan
  <2>3. /\ DOMAIN nodes' \subseteq Nat /\ \A p \in DOMAIN nodes' : nodes'[p] \in Node
        /\ Planned(nodes', S, T)
    BY <1>2, <2>1, <2>2, Extends
  <2>4. Cardinality(S) \in Nat
    <3>1. IsFiniteSet(S) BY <1>2, <2>3, FS_Subset DEF Planned
    <3> QED BY <3>1, FS_CardinalityType
  <2> DEFINE ds == {nodes'[p].depth : p \in T}
  <2>5. ds \in SUBSET Nat /\ IsFiniteSet(ds) /\ ds # {}
    <3>1. IsFiniteSet(ds) /\ \A p \in T : nodes'[p].depth \in Nat BY <2>3, Depths
    <3>2. 1 \in T BY <2>3 DEF Planned
    <3> QED BY <3>1, <3>2
  <2>6. depth' \in Nat
    <3> HIDE DEF ds
    <3>1. depth' = Max(ds) BY <2>1 DEF ds
    <3> QED BY <2>5, <3>1, MaxIs
  <2> QED BY <2>1, <2>3, <2>4, <2>6 DEF Plan
<1> QED BY <1>1, <1>4, <1>5 DEF S, T

-----------------------------------------------------------------------------
(***************************************************************************)
(* The computation.                                                        *)
(***************************************************************************)
NodeStates == {"uncomputed", "computing", "computed"}
Ciphertexts == [exp : Nat, form : Forms]
WorkerStates == [at : Stages, idx : 1..Cardinality(targets), ready : BOOLEAN, prod : Nat]

\* What every step of a worker needs of the plan and the types.
LEMMA Facts ==
  ASSUME IInv, Begun
  PROVE  /\ configured /\ targets \in SUBSET Nat /\ 0 \notin targets /\ sources \subseteq targets
         /\ Cardinality(targets) \in Nat /\ Len(Order) = Cardinality(targets)
         /\ \A i \in 1..Cardinality(targets) : /\ Order[i] \in targets
                                              /\ (i % Len(Order)) + 1 \in 1..Cardinality(targets)
         /\ \A w \in Workers : worker[w] \in WorkerStates /\ Claimed(w) \in targets
         /\ \A p \in targets : IsSource(nodes[p]) <=> p \in sources
         /\ \A p \in targets \ sources : nodes[p].parents[1] + nodes[p].parents[2] = p
<1>1. configured /\ Planned(nodes, sources, targets) /\ \A p \in DOMAIN nodes : nodes[p] \in Node
  BY DEF IInv, Types, Plan
<1>2. /\ targets \in SUBSET Nat /\ IsFiniteSet(targets) /\ 0 \notin targets
      /\ sources \subseteq targets /\ targets # {}
  BY <1>1 DEF Planned
<1> DEFINE n == Cardinality(targets)
<1>3. n \in Nat /\ Order \in [1..n -> targets] BY <1>2, AscendingIs DEF Order
<1>4. n # 0 BY <1>2, FS_EmptySet
<1>5. Len(Order) = n
  <2>1. Order \in Seq(targets) BY <1>3
  <2>2. Len(Order) \in Nat /\ DOMAIN Order = 1..Len(Order) BY <2>1
  <2>3. \A m, k \in Nat : 1..m = 1..k => m = k
    <3> SUFFICES ASSUME NEW m \in Nat, NEW k \in Nat, 1..m = 1..k PROVE m = k OBVIOUS
    <3>1. m = 0 \/ m \in 1..k BY SMT
    <3>2. k = 0 \/ k \in 1..m BY SMT
    <3> QED BY <3>1, <3>2
  <2> QED BY <1>3, <2>2, <2>3
<1>6. \A i \in 1..n : (i % n) + 1 \in 1..n BY <1>3, <1>4
<1>7. \A w \in Workers : worker[w] \in WorkerStates BY DEF IInv, Types, WorkerStates
<1>8. \A w \in Workers : worker[w].idx \in 1..n BY <1>7 DEF WorkerStates
<1>9. \A w \in Workers : Claimed(w) \in targets BY <1>3, <1>8 DEF Claimed
<1>10. /\ \A p \in targets : IsSource(nodes[p]) <=> p \in sources
       /\ \A p \in targets \ sources : nodes[p].parents[1] + nodes[p].parents[2] = p
  BY <1>1, <1>2, PlannedParents
<1> HIDE DEF n
<1>11. \A i \in 1..n : Order[i] \in targets /\ (i % Len(Order)) + 1 \in 1..n
  BY <1>3, <1>5, <1>6
<1> QED BY <1>1, <1>2, <1>3, <1>5, <1>7, <1>9, <1>10, <1>11 DEF n

\* A step of a worker that touches its claimed node alone, and leaves a computed
\* one as it is, preserves the invariant if the worker knows what it has to.
LEMMA WorkerStep ==
  ASSUME IInv, Begun, main = "apply", UNCHANGED <<dagVars, main, awaited>>, NEW w \in Workers,
         state' \in [targets -> NodeStates], powers' \in [targets -> Ciphertexts],
         applied' \in [targets -> Nat], worker' \in [Workers -> WorkerStates],
         \A v \in Workers \ {w} : worker'[v] = worker[v],
         NEW p, p = Claimed(w),
         \A q \in targets \ {p} : /\ state'[q] = state[q] /\ powers'[q] = powers[q]
                                  /\ applied'[q] = applied[q],
         worker[w].at # "done",
         state[p] = "computed" =>
           state'[p] = "computed" /\ powers'[p] = powers[p] /\ applied'[p] = applied[p],
         \/ /\ Busy(w)' /\ worker'[w].idx = worker[w].idx /\ state'[p] = "computing"
            /\ \A v \in Workers \ {w} : Busy(v) => Claimed(v) # p
         \/ /\ ~Busy(w) /\ ~Busy(w)'
            /\ state'[p] = state[p] /\ powers'[p] = powers[p] /\ applied'[p] = applied[p]
         \/ Busy(w) /\ ~Busy(w)' /\ state'[p] # "computing",
         powers'[p].form \in {"blank", "coefficients"}, p \in sources => powers'[p].exp = p,
         state'[p] = "uncomputed" => applied'[p] = 0,
         state'[p] = "computed" => /\ powers'[p].exp = p /\ powers'[p].form # "blank"
                                   /\ applied'[p] = 1 /\ Ready(p),
         Knows(w)'
  PROVE  IInv'
<1>0. /\ targets' = targets /\ sources' = sources /\ nodes' = nodes /\ configured' = configured
      /\ main' = "apply" /\ awaited' = awaited
  BY DEF dagVars
<1>1. /\ configured /\ targets \in SUBSET Nat /\ sources \subseteq targets /\ p \in targets
      /\ \A v \in Workers : worker[v] \in WorkerStates /\ Claimed(v) \in targets
  BY Facts
<1>2. \A v \in Workers \ {w} : /\ Claimed(v)' = Claimed(v) /\ Busy(v)' = Busy(v)
                               /\ Holding(v)' = Holding(v)
  BY <1>0 DEF Claimed, Order, Busy, Holding
<1>3. \A q \in targets : state[q] = "computed" =>
        state'[q] = "computed" /\ powers'[q] = powers[q] /\ applied'[q] = applied[q]
  OBVIOUS
<1>4. \A q \in targets : state'[q] # state[q] \/ powers'[q] # powers[q] \/ applied'[q] # applied[q]
                           => q = p
  OBVIOUS
<1>5. (state'[p] # state[p] \/ powers'[p] # powers[p] \/ applied'[p] # applied[p])
        => \A v \in Workers \ {w} : Busy(v) => Claimed(v) # p
  BY DEF IInv, Claiming
<1>6. DOMAIN state = targets /\ DOMAIN state' = targets BY <1>1 DEF IInv, Types
<1>7. \A q \in targets : Ready(q) => Ready(q)'
  <2> SUFFICES ASSUME NEW q \in targets, Ready(q) PROVE Ready(q)' OBVIOUS
  <2> SUFFICES ASSUME ~IsSource(nodes[q])
               PROVE  ParentsKnown(q)' /\ \A i \in {1, 2} : state'[nodes[q].parents[i]] = "computed"
    BY <1>0 DEF Ready
  <2>1. ParentsKnown(q) /\ \A i \in {1, 2} : state[nodes[q].parents[i]] = "computed" BY DEF Ready
  <2>2. \A i \in {1, 2} : nodes[q].parents[i] \in targets BY <2>1 DEF ParentsKnown
  <2>3. \A i \in {1, 2} : state'[nodes[q].parents[i]] = "computed" BY <2>1, <2>2, <1>3
  <2>4. ParentsKnown(q)' BY <2>2, <1>0 DEF ParentsKnown
  <2> QED BY <2>3, <2>4
<1>8. Plan' BY PlanStays DEF IInv
<1>9. Begun' /\ Types'
  <2>1. state' # <<>> BY <1>1, <1>6
  <2>2. Begun' BY <2>1 DEF Begun
  <2> QED BY <2>2, <1>0, <1>1 DEF IInv, Types, NodeStates, Ciphertexts, WorkerStates
<1>10. Claiming'
  <2>0. /\ \A u, v \in Workers : u # v /\ Busy(u) /\ Busy(v) => Claimed(u) # Claimed(v)
        /\ \A q \in targets : state[q] = "computing" <=>
                                \E v \in Workers : Busy(v) /\ Claimed(v) = q
    BY DEF IInv, Claiming
  <2>1. Busy(w)' => /\ Claimed(w)' = p /\ state'[p] = "computing"
                    /\ \A v \in Workers \ {w} : Busy(v) => Claimed(v) # p
    BY <1>0 DEF Claimed, Order
  <2>2. \A u, v \in Workers : u # v /\ Busy(u)' /\ Busy(v)' => Claimed(u)' # Claimed(v)'
    <3> SUFFICES ASSUME NEW u \in Workers, NEW v \in Workers, u # v, Busy(u)', Busy(v)'
                 PROVE  Claimed(u)' # Claimed(v)'
      OBVIOUS
    <3>1. CASE u = w BY <3>1, <2>1, <1>2
    <3>2. CASE v = w BY <3>2, <2>1, <1>2
    <3>3. CASE u # w /\ v # w
      <4>1. Busy(u) /\ Busy(v) /\ Claimed(u)' = Claimed(u) /\ Claimed(v)' = Claimed(v)
        BY <3>3, <1>2
      <4> QED BY <4>1, <2>0
    <3> QED BY <3>1, <3>2, <3>3
  <2>3. ASSUME NEW q \in targets
        PROVE  state'[q] = "computing" <=> \E v \in Workers : Busy(v)' /\ Claimed(v)' = q
    <3>1. CASE q # p
      <4>1. state'[q] = state[q] BY <3>1
      <4>2. \A v \in Workers : (Busy(v)' /\ Claimed(v)' = q) <=> (Busy(v) /\ Claimed(v) = q)
        BY <3>1, <2>1, <1>2
      <4> QED BY <4>1, <4>2, <2>0
    <3>2. CASE q = p /\ Busy(w)' BY <3>2, <2>1
    <3>3. CASE q = p /\ ~Busy(w)' /\ ~Busy(w)
      <4>1. state'[q] = state[q] BY <3>3
      <4>2. \A v \in Workers : (Busy(v)' /\ Claimed(v)' = q) <=> (Busy(v) /\ Claimed(v) = q)
        BY <3>3, <1>2
      <4> QED BY <4>1, <4>2, <2>0
    <3>4. CASE q = p /\ ~Busy(w)' /\ Busy(w)
      <4>1. \A v \in Workers \ {w} : Busy(v) => Claimed(v) # p BY <3>4, <2>0
      <4>2. \A v \in Workers : ~(Busy(v)' /\ Claimed(v)' = q) BY <3>4, <4>1, <1>2
      <4> QED BY <3>4, <4>2
    <3> QED BY <3>1, <3>2, <3>3, <3>4
  <2> QED BY <2>2, <2>3, <1>0 DEF Claiming
<1>11. Nodes'
  <2>0. /\ \A q \in sources : powers[q].exp = q
        /\ \A q \in targets :
             /\ state[q] = "uncomputed" => applied[q] = 0
             /\ state[q] = "computed" => /\ powers[q].exp = q /\ powers[q].form # "blank"
                                         /\ applied[q] = 1 /\ Ready(q)
    BY DEF IInv, Nodes
  <2>1. \A q \in sources : powers'[q].exp = q
    <3> SUFFICES ASSUME NEW q \in sources PROVE powers'[q].exp = q OBVIOUS
    <3>1. CASE q = p BY <3>1
    <3>2. CASE q # p BY <3>2, <2>0, <1>1
    <3> QED BY <3>1, <3>2
  <2>2. ASSUME NEW q \in targets
        PROVE  /\ state'[q] = "uncomputed" => applied'[q] = 0
               /\ state'[q] = "computed" => /\ powers'[q].exp = q /\ powers'[q].form # "blank"
                                            /\ applied'[q] = 1 /\ Ready(q)'
    <3>1. CASE q = p BY <3>1, <1>7
    <3>2. CASE q # p BY <3>2, <2>0, <1>7
    <3> QED BY <3>1, <3>2
  <2> QED BY <2>1, <2>2, <1>0 DEF Nodes
<1>12. Knowing'
  <2>1. ASSUME NEW v \in Workers, v # w PROVE Knows(v)'
    <3>0. PICK q \in targets : q = Claimed(v) /\ Knows(v) BY <1>1 DEF IInv, Knowing
    <3>1. worker'[v] = worker[v] /\ Claimed(v)' = q BY <2>1, <3>0, <1>2
    <3>2. Holding(v) => state'[q] = state[q] /\ powers'[q] = powers[q] /\ applied'[q] = applied[q]
      BY <1>4, <1>5, <2>1, <3>0 DEF Busy
    <3>3. AllComputed => AllComputed' BY <1>3, <1>6 DEF AllComputed
    <3>4. ParentsKnown(q) => ParentsKnown(q)' BY <1>0 DEF ParentsKnown
    <3>5. ParentsKnown(q) => (state[nodes[q].parents[1]] = "computed"
                                => state'[nodes'[q].parents[1]] = "computed")
      BY <1>0, <1>3 DEF ParentsKnown
    <3>6. Ready(q) => Ready(q)' BY <1>7, <3>0
    <3>7. worker[v].at \in {"first_parent", "second_parent", "release", "begin", "end", "mark"}
            => powers'[q] = powers[q] /\ applied'[q] = applied[q]
      BY <3>2 DEF Holding
    <3>8. nodes' = nodes /\ Knows(v) BY <3>0, <1>0
    <3>9. CASE worker[v].at \in {"first_parent", "second_parent", "release"}
      BY <3>0, <3>1, <3>4, <3>5, <3>7, <3>8, <3>9 DEF Knows
    <3>10. CASE worker[v].at \in {"begin", "end", "mark"}
      BY <3>0, <3>1, <3>6, <3>7, <3>8, <3>10 DEF Knows
    <3>11. CASE worker[v].at \notin {"first_parent", "second_parent", "release",
                                     "begin", "end", "mark"}
      BY <3>0, <3>1, <3>3, <3>8, <3>11 DEF Knows
    <3> QED BY <3>9, <3>10, <3>11
  <2> QED BY <2>1 DEF Knowing
<1>13. Main'
  <2>0. /\ \A v \in 1..awaited : worker[v].at = "done"
        /\ \A q \in targets : powers[q].form \in {"blank", "coefficients"}
    BY DEF IInv, Main
  <2>1. awaited \in 0..Threads BY DEF IInv, Types
  <2>2. \A v \in 1..awaited : v \in Workers BY <2>1, ThreadsAssumption DEF Workers
  <2>3. \A v \in 1..awaited : worker'[v].at = "done" BY <2>0, <2>2
  <2>4. \A q \in targets : powers'[q].form \in {"blank", "coefficients"} BY <2>0
  <2> QED BY <2>3, <2>4, <1>0 DEF Main
<1> QED BY <1>8, <1>9, <1>10, <1>11, <1>12, <1>13 DEF IInv

\* The same for the steps that touch no node.
LEMMA WorkerMoves ==
  ASSUME IInv, Begun, main = "apply",
         UNCHANGED <<dagVars, state, powers, main, awaited, applied>>, NEW w \in Workers,
         worker' \in [Workers -> WorkerStates], \A v \in Workers \ {w} : worker'[v] = worker[v],
         worker[w].at # "done",
         \/ Busy(w) /\ Busy(w)' /\ worker'[w].idx = worker[w].idx
         \/ ~Busy(w) /\ ~Busy(w)',
         Knows(w)'
  PROVE  IInv'
<1>1. PICK p \in targets : p = Claimed(w) BY Facts
<1>2. /\ state \in [targets -> NodeStates] /\ powers \in [targets -> Ciphertexts]
      /\ applied \in [targets -> Nat]
  BY DEF IInv, Types, NodeStates, Ciphertexts
<1>3. /\ state' \in [targets -> NodeStates] /\ powers' \in [targets -> Ciphertexts]
      /\ applied' \in [targets -> Nat]
      /\ \A q \in targets : state'[q] = state[q] /\ powers'[q] = powers[q] /\ applied'[q] = applied[q]
  BY <1>2
<1>4. Busy(w) => state[p] = "computing" /\ \A v \in Workers \ {w} : Busy(v) => Claimed(v) # p
  BY <1>1 DEF IInv, Claiming
<1>5. powers'[p].form \in {"blank", "coefficients"} BY <1>1, <1>3 DEF IInv, Main
<1>6. /\ p \in sources => powers'[p].exp = p
      /\ state'[p] = "uncomputed" => applied'[p] = 0
      /\ state'[p] = "computed" => /\ powers'[p].exp = p /\ powers'[p].form # "blank"
                                   /\ applied'[p] = 1 /\ Ready(p)
  BY <1>1, <1>3 DEF IInv, Nodes
<1>7. UNCHANGED <<dagVars, main, awaited>> OBVIOUS
<1>8. \/ /\ Busy(w)' /\ worker'[w].idx = worker[w].idx /\ state'[p] = "computing"
         /\ \A v \in Workers \ {w} : Busy(v) => Claimed(v) # p
      \/ /\ ~Busy(w) /\ ~Busy(w)'
         /\ state'[p] = state[p] /\ powers'[p] = powers[p] /\ applied'[p] = applied[p]
  BY <1>1, <1>3, <1>4
<1>9. \A q \in targets \ {p} : /\ state'[q] = state[q] /\ powers'[q] = powers[q]
                               /\ applied'[q] = applied[q]
  BY <1>3
<1>10. state[p] = "computed" =>
         state'[p] = "computed" /\ powers'[p] = powers[p] /\ applied'[p] = applied[p]
  BY <1>1, <1>3
<1> QED BY <1>1, <1>3, <1>5, <1>6, <1>7, <1>8, <1>9, <1>10, WorkerStep

-----------------------------------------------------------------------------
(***************************************************************************)
(* The worker's steps, one by one.                                         *)
(***************************************************************************)
\* The worker a step begins with.
LEMMA Before ==
  ASSUME IInv, NEW w \in Workers, NEW stage, At(w, stage)
  PROVE  /\ Begun /\ main = "apply" /\ worker[w].at = stage /\ Knows(w)
         /\ worker \in [Workers -> WorkerStates] /\ worker[w] \in WorkerStates
         /\ Claimed(w) \in targets
<1>1. main = "apply" /\ worker[w].at = stage /\ Begun BY DEF At, IInv, Types
<1>2. worker \in [Workers -> WorkerStates] /\ Knows(w)
  BY <1>1 DEF IInv, Types, Knowing, WorkerStates
<1>3. Claimed(w) \in targets BY <1>1, Facts
<1> QED BY <1>1, <1>2, <1>3

\* A worker that only changes its stage.
LEMMA Goes ==
  ASSUME IInv, NEW w \in Workers, NEW stage \in Stages, worker \in [Workers -> WorkerStates],
         GoesTo(w, stage), targets' = targets
  PROVE  /\ worker' \in [Workers -> WorkerStates]
         /\ \A v \in Workers \ {w} : worker'[v] = worker[v]
         /\ worker'[w] = [worker[w] EXCEPT !.at = stage]
         /\ worker'[w].at = stage /\ worker'[w].idx = worker[w].idx
         /\ worker'[w].ready = worker[w].ready /\ worker'[w].prod = worker[w].prod
         /\ Claimed(w)' = Claimed(w)
<1>1. worker' = [worker EXCEPT ![w].at = stage] BY DEF GoesTo
<1>2. worker[w] \in WorkerStates OBVIOUS
<1>3. [worker[w] EXCEPT !.at = stage] \in WorkerStates BY <1>2 DEF WorkerStates
<1>4. worker' = [worker EXCEPT ![w] = [worker[w] EXCEPT !.at = stage]] BY <1>1
<1>5. worker' \in [Workers -> WorkerStates] /\ worker'[w] = [worker[w] EXCEPT !.at = stage]
  BY <1>3, <1>4
<1>6. /\ worker'[w].at = stage /\ worker'[w].idx = worker[w].idx
      /\ worker'[w].ready = worker[w].ready /\ worker'[w].prod = worker[w].prod
  BY <1>2, <1>5 DEF WorkerStates
<1>7. Claimed(w)' = Claimed(w) BY <1>6 DEF Claimed, Order
<1> QED BY <1>4, <1>5, <1>6, <1>7

\* A worker that turns to the next node.
LEMMA Moves ==
  ASSUME IInv, Begun, NEW w \in Workers, MovesOn(w), targets' = targets
  PROVE  /\ worker' \in [Workers -> WorkerStates]
         /\ \A v \in Workers \ {w} : worker'[v] = worker[v]
         /\ ~Busy(w)' /\ Knows(w)'
<1> DEFINE r == [worker[w] EXCEPT !.at = "check", !.idx = (@ % Len(Order)) + 1]
<1>1. worker' = [worker EXCEPT ![w].at = "check", ![w].idx = (@ % Len(Order)) + 1] BY DEF MovesOn
<1>2. worker \in [Workers -> WorkerStates] /\ worker[w] \in WorkerStates
  BY DEF IInv, Types, WorkerStates
<1>3. (worker[w].idx % Len(Order)) + 1 \in 1..Cardinality(targets)
  <2>1. worker[w].idx \in 1..Cardinality(targets) BY <1>2 DEF WorkerStates
  <2> QED BY <2>1, Facts
<1>4. r \in WorkerStates /\ r.at = "check" BY <1>2, <1>3 DEF WorkerStates, Stages
<1>5. worker' = [worker EXCEPT ![w] = r] BY <1>1, <1>2
<1> HIDE DEF r
<1>6. /\ worker' \in [Workers -> WorkerStates] /\ worker'[w].at = "check"
      /\ \A v \in Workers \ {w} : worker'[v] = worker[v]
  BY <1>2, <1>4, <1>5
<1> QED BY <1>6 DEF Busy, Holding, Knows

LEMMA StartsStep ==
  ASSUME IInv, NEW w \in Workers, Starts(w) \/ ChecksDone(w)
  PROVE  IInv'
<1>1. PICK stage \in {"queued", "check"}, next \in {"check", "claim", "done"} :
        /\ At(w, stage) /\ GoesTo(w, next) /\ (next = "done" => AllComputed)
        /\ UNCHANGED <<dagVars, state, powers, main, awaited, applied>>
  BY DEF Starts, ChecksDone
<1>2. /\ Begun /\ main = "apply" /\ worker[w].at = stage
      /\ worker \in [Workers -> WorkerStates]
  BY <1>1, Before
<1>3. /\ worker' \in [Workers -> WorkerStates] /\ worker'[w].at = next
      /\ \A v \in Workers \ {w} : worker'[v] = worker[v]
  BY <1>1, <1>2, Goes DEF Stages, dagVars
<1>4. ~Busy(w) /\ ~Busy(w)' BY <1>2, <1>3 DEF Busy, Holding
<1>5. Knows(w)' BY <1>1, <1>3 DEF Knows, AllComputed
<1> QED BY <1>1, <1>2, <1>3, <1>4, <1>5, WorkerMoves

LEMMA PassesByStep ==
  ASSUME IInv, NEW w \in Workers, PassesBy(w)
  PROVE  IInv'
<1>1. /\ At(w, "claim") /\ MovesOn(w)
      /\ UNCHANGED <<dagVars, state, powers, main, awaited, applied>>
  BY DEF PassesBy
<1>2. Begun /\ main = "apply" /\ worker[w].at = "claim" BY <1>1, Before
<1>3. /\ worker' \in [Workers -> WorkerStates] /\ ~Busy(w)' /\ Knows(w)'
      /\ \A v \in Workers \ {w} : worker'[v] = worker[v]
  BY <1>1, <1>2, Moves DEF dagVars
<1>4. ~Busy(w) BY <1>2 DEF Busy, Holding
<1> QED BY <1>1, <1>2, <1>3, <1>4, WorkerMoves

LEMMA ThrowsStep ==
  ASSUME IInv, NEW w \in Workers, ParentMissing(w) \/ FuncThrows(w)
  PROVE  IInv'
<1>1. PICK stage \in {"first_parent", "end"} :
        /\ At(w, stage) /\ GoesTo(w, "threw")
        /\ UNCHANGED <<dagVars, state, powers, main, awaited, applied>>
  BY DEF ParentMissing, FuncThrows
<1>2. /\ Begun /\ main = "apply" /\ worker[w].at = stage
      /\ worker \in [Workers -> WorkerStates]
  BY <1>1, Before
<1>3. /\ worker' \in [Workers -> WorkerStates] /\ worker'[w].at = "threw"
      /\ worker'[w].idx = worker[w].idx /\ \A v \in Workers \ {w} : worker'[v] = worker[v]
  BY <1>1, <1>2, Goes DEF Stages, dagVars
<1>4. Busy(w) /\ Busy(w)' BY <1>2, <1>3 DEF Busy, Holding
<1>5. Knows(w)' BY <1>3 DEF Knows
<1> QED BY <1>1, <1>2, <1>3, <1>4, <1>5, WorkerMoves

LEMMA ReadsFirstStep ==
  ASSUME IInv, NEW w \in Workers, ReadsFirstParent(w)
  PROVE  IInv'
<1>0. PICK p : p = Claimed(w) OBVIOUS
<1> DEFINE b == state[nodes[p].parents[1]] = "computed"
           r == [worker[w] EXCEPT !.at = "second_parent", !.ready = b]
<1>1. /\ At(w, "first_parent") /\ ParentsKnown(p)
      /\ worker' = [worker EXCEPT ![w].at = "second_parent", ![w].ready = b]
      /\ UNCHANGED <<dagVars, state, powers, main, awaited, applied>>
  BY <1>0 DEF ReadsFirstParent
<1>2. /\ Begun /\ main = "apply" /\ worker[w].at = "first_parent" /\ Knows(w)
      /\ worker \in [Workers -> WorkerStates] /\ worker[w] \in WorkerStates
  BY <1>1, Before
<1>3. /\ r \in WorkerStates /\ r.at = "second_parent" /\ r.idx = worker[w].idx
      /\ r.ready = b
  BY <1>2 DEF WorkerStates, Stages
<1>4. worker' = [worker EXCEPT ![w] = r] BY <1>1, <1>2
<1> HIDE DEF r
<1>5. /\ worker' \in [Workers -> WorkerStates] /\ worker'[w] = r
      /\ \A v \in Workers \ {w} : worker'[v] = worker[v]
  BY <1>2, <1>3, <1>4
<1>6. Claimed(w)' = p BY <1>0, <1>1, <1>3, <1>5 DEF Claimed, Order, dagVars
<1>7. Busy(w) /\ Busy(w)' BY <1>2, <1>3, <1>5 DEF Busy, Holding
<1>8. applied[p] = 0 /\ ~IsSource(nodes[p]) BY <1>0, <1>2 DEF Knows
<1>9. Knows(w)' BY <1>1, <1>3, <1>5, <1>6, <1>8 DEF Knows, ParentsKnown, dagVars
<1> QED BY <1>1, <1>2, <1>3, <1>5, <1>7, <1>9, WorkerMoves

LEMMA ReadsSecondStep ==
  ASSUME IInv, NEW w \in Workers, ReadsSecondParent(w)
  PROVE  IInv'
<1>0. PICK p : p = Claimed(w) OBVIOUS
<1> DEFINE b == worker[w].ready /\ state[nodes[p].parents[2]] = "computed"
           next == IF b THEN "begin" ELSE "release"
           r == [worker[w] EXCEPT !.at = next, !.ready = FALSE]
<1>1. /\ At(w, "second_parent")
      /\ worker' = [worker EXCEPT ![w].at = next, ![w].ready = FALSE]
      /\ UNCHANGED <<dagVars, state, powers, main, awaited, applied>>
  BY <1>0 DEF ReadsSecondParent
<1>2. /\ Begun /\ main = "apply" /\ worker[w].at = "second_parent" /\ Knows(w)
      /\ worker \in [Workers -> WorkerStates] /\ worker[w] \in WorkerStates
  BY <1>1, Before
<1>3. /\ r \in WorkerStates /\ r.at = next /\ r.idx = worker[w].idx
  BY <1>2 DEF WorkerStates, Stages
<1>4. worker' = [worker EXCEPT ![w] = r] BY <1>1, <1>2
<1> HIDE DEF r
<1>5. /\ worker' \in [Workers -> WorkerStates] /\ worker'[w] = r
      /\ \A v \in Workers \ {w} : worker'[v] = worker[v]
  BY <1>2, <1>3, <1>4
<1>6. Claimed(w)' = p BY <1>0, <1>1, <1>3, <1>5 DEF Claimed, Order, dagVars
<1>7. Busy(w) /\ Busy(w)' BY <1>2, <1>3, <1>5 DEF Busy, Holding
<1>8. /\ applied[p] = 0 /\ ~IsSource(nodes[p]) /\ ParentsKnown(p)
      /\ worker[w].ready => state[nodes[p].parents[1]] = "computed"
  BY <1>0, <1>2 DEF Knows
<1>9. b => Ready(p) BY <1>8 DEF Ready
<1>10. Ready(p) => Ready(p)' BY <1>1 DEF Ready, ParentsKnown, dagVars
<1>11. applied'[p] = 0 /\ ~IsSource(nodes'[p]) BY <1>1, <1>8 DEF dagVars
<1>12. Knows(w)'
  <2>1. CASE b
    <3>1. worker'[w].at = "begin" /\ Ready(p)' BY <2>1, <1>3, <1>5, <1>9, <1>10
    <3> QED BY <3>1, <1>6, <1>11 DEF Knows
  <2>2. CASE ~b
    <3>1. worker'[w].at = "release" BY <2>2, <1>3, <1>5
    <3> QED BY <3>1, <1>6, <1>11 DEF Knows
  <2> QED BY <2>1, <2>2
<1> QED BY <1>1, <1>2, <1>3, <1>5, <1>7, <1>12, WorkerMoves

\* The exchange succeeds only on a node nobody holds.
LEMMA ClaimsStep ==
  ASSUME IInv, NEW w \in Workers, Claims(w)
  PROVE  IInv'
<1>1. PICK p : p = Claimed(w) OBVIOUS
<1> DEFINE next == IF IsSource(nodes[p]) THEN "begin" ELSE "first_parent"
<1>2. /\ At(w, "claim") /\ state[p] = "uncomputed" /\ GoesTo(w, next)
      /\ state' = [state EXCEPT ![p] = "computing"]
      /\ UNCHANGED <<dagVars, powers, main, awaited, applied>>
  BY <1>1 DEF Claims
<1>3. /\ Begun /\ main = "apply" /\ worker[w].at = "claim"
      /\ worker \in [Workers -> WorkerStates] /\ p \in targets
  BY <1>1, <1>2, Before
<1>4. /\ worker' \in [Workers -> WorkerStates] /\ worker'[w].at = next
      /\ worker'[w].idx = worker[w].idx /\ \A v \in Workers \ {w} : worker'[v] = worker[v]
      /\ Claimed(w)' = p
  BY <1>1, <1>2, <1>3, Goes DEF Stages, dagVars
<1>5. /\ state \in [targets -> NodeStates] /\ powers \in [targets -> Ciphertexts]
      /\ applied \in [targets -> Nat]
  BY <1>3 DEF IInv, Types, NodeStates, Ciphertexts
<1>6. /\ state' \in [targets -> NodeStates] /\ state'[p] = "computing"
      /\ powers' \in [targets -> Ciphertexts] /\ applied' \in [targets -> Nat]
      /\ \A q \in targets \ {p} : /\ state'[q] = state[q] /\ powers'[q] = powers[q]
                                   /\ applied'[q] = applied[q]
  BY <1>2, <1>3, <1>5 DEF NodeStates
<1>7. Busy(w)' /\ \A v \in Workers : Busy(v) => Claimed(v) # p
  <2>1. Busy(w)' BY <1>4 DEF Busy, Holding
  <2>2. \A v \in Workers : Busy(v) /\ Claimed(v) = p => state[p] = "computing"
    BY <1>3 DEF IInv, Claiming
  <2> QED BY <2>1, <2>2, <1>2
<1>8. powers'[p].form \in {"blank", "coefficients"} /\ (p \in sources => powers'[p].exp = p)
  BY <1>2, <1>3 DEF IInv, Main, Nodes
<1>9. applied'[p] = 0 BY <1>2, <1>3 DEF IInv, Nodes
<1>10. Knows(w)'
  <2>1. nodes' = nodes BY <1>2 DEF dagVars
  <2>2. CASE IsSource(nodes[p])
    <3>1. worker'[w].at = "begin" /\ Ready(p)' BY <2>1, <2>2, <1>4 DEF Ready
    <3> QED BY <3>1, <1>4, <1>9 DEF Knows
  <2>3. CASE ~IsSource(nodes[p])
    <3>1. worker'[w].at = "first_parent" BY <2>3, <1>4
    <3> QED BY <3>1, <2>1, <2>3, <1>4, <1>9 DEF Knows
  <2> QED BY <2>2, <2>3
<1>11. UNCHANGED <<dagVars, main, awaited>> /\ worker[w].at # "done" BY <1>2, <1>3
<1> QED BY <1>1, <1>2, <1>3, <1>4, <1>6, <1>7, <1>8, <1>9, <1>10, <1>11, WorkerStep

\* A claim is given back with the node as it was found, or done.
LEMMA GivesBackStep ==
  ASSUME IInv, NEW w \in Workers, Releases(w) \/ Marks(w)
  PROVE  IInv'
<1>1. PICK p : p = Claimed(w) OBVIOUS
<1>2. PICK stage \in {"release", "mark"} :
        /\ At(w, stage) /\ MovesOn(w)
        /\ state' = [state EXCEPT ![p] = IF stage = "mark" THEN "computed" ELSE "uncomputed"]
        /\ UNCHANGED <<dagVars, powers, main, awaited, applied>>
  BY <1>1 DEF Releases, Marks
<1>3. /\ Begun /\ main = "apply" /\ worker[w].at = stage /\ Knows(w)
      /\ worker \in [Workers -> WorkerStates] /\ p \in targets
  BY <1>1, <1>2, Before
<1>4. /\ worker' \in [Workers -> WorkerStates] /\ ~Busy(w)' /\ Knows(w)'
      /\ \A v \in Workers \ {w} : worker'[v] = worker[v]
  BY <1>2, <1>3, Moves DEF dagVars
<1>5. /\ state \in [targets -> NodeStates] /\ powers \in [targets -> Ciphertexts]
      /\ applied \in [targets -> Nat]
  BY <1>3 DEF IInv, Types, NodeStates, Ciphertexts
<1>6. /\ state' \in [targets -> NodeStates]
      /\ state'[p] = IF stage = "mark" THEN "computed" ELSE "uncomputed"
      /\ powers' \in [targets -> Ciphertexts] /\ applied' \in [targets -> Nat]
      /\ \A q \in targets \ {p} : /\ state'[q] = state[q] /\ powers'[q] = powers[q]
                                   /\ applied'[q] = applied[q]
  BY <1>2, <1>3, <1>5 DEF NodeStates
<1>7. Busy(w) /\ state[p] = "computing"
  <2>1. Busy(w) BY <1>2, <1>3 DEF Busy, Holding
  <2> QED BY <2>1, <1>1, <1>3 DEF IInv, Claiming
<1>8. powers'[p].form \in {"blank", "coefficients"} /\ (p \in sources => powers'[p].exp = p)
  BY <1>2, <1>3 DEF IInv, Main, Nodes
<1>9. CASE stage = "release"
  <2>1. applied'[p] = 0 BY <1>1, <1>2, <1>3, <1>9 DEF Knows
  <2>2. state'[p] = "uncomputed" BY <1>6, <1>9
  <2>3. UNCHANGED <<dagVars, main, awaited>> /\ worker[w].at # "done" BY <1>2, <1>3
  <2> QED BY <1>1, <1>3, <1>4, <1>6, <1>7, <1>8, <2>1, <2>2, <2>3, WorkerStep
<1>10. CASE stage = "mark"
  <2>1. powers[p] = Ciphertext(p, "coefficients") /\ applied[p] = 1 /\ Ready(p)
    BY <1>1, <1>3, <1>10 DEF Knows
  <2>2. powers'[p].exp = p /\ powers'[p].form # "blank" /\ applied'[p] = 1 /\ Ready(p)
    BY <2>1, <1>2 DEF Ciphertext
  <2>3. state'[p] = "computed" BY <1>6, <1>10
  <2>4. UNCHANGED <<dagVars, main, awaited>> /\ worker[w].at # "done" BY <1>2, <1>3
  <2> QED BY <1>1, <1>3, <1>4, <1>6, <1>7, <1>8, <2>2, <2>3, <2>4, WorkerStep
<1> QED BY <1>9, <1>10

\* A product reads two computed parents, whose powers add up to its own.
LEMMA BeginsStep ==
  ASSUME IInv, NEW w \in Workers, BeginsFunc(w)
  PROVE  IInv'
<1>1. PICK p : p = Claimed(w) OBVIOUS
<1> DEFINE prod == IF IsSource(nodes[p]) THEN powers[p].exp
                   ELSE powers[nodes[p].parents[1]].exp + powers[nodes[p].parents[2]].exp
           r == [worker[w] EXCEPT !.at = "end", !.prod = prod]
<1>2. /\ At(w, "begin") /\ applied' = [applied EXCEPT ![p] = @ + 1]
      /\ worker' = [worker EXCEPT ![w].at = "end", ![w].prod = prod]
      /\ UNCHANGED <<dagVars, state, powers, main, awaited>>
  BY <1>1 DEF BeginsFunc
<1>3. /\ Begun /\ main = "apply" /\ worker[w].at = "begin" /\ Knows(w)
      /\ worker \in [Workers -> WorkerStates] /\ worker[w] \in WorkerStates /\ p \in targets
  BY <1>1, <1>2, Before
<1>4. /\ state \in [targets -> NodeStates] /\ powers \in [targets -> Ciphertexts]
      /\ applied \in [targets -> Nat]
  BY <1>3 DEF IInv, Types, NodeStates, Ciphertexts
<1>5. applied[p] = 0 /\ Ready(p) BY <1>1, <1>3 DEF Knows
<1>6. prod = p
  <2>1. CASE IsSource(nodes[p])
    <3>1. p \in sources BY <2>1, <1>3, Facts
    <3>2. powers[p].exp = p BY <3>1, <1>3 DEF IInv, Nodes
    <3> QED BY <2>1, <3>2
  <2>2. CASE ~IsSource(nodes[p])
    <3> DEFINE a == nodes[p].parents[1]
               b == nodes[p].parents[2]
    <3>1. a \in targets /\ b \in targets /\ state[a] = "computed" /\ state[b] = "computed"
      BY <2>2, <1>5 DEF Ready, ParentsKnown
    <3>2. a + b = p BY <2>2, <1>3, Facts
    <3> HIDE DEF a, b
    <3>3. powers[a].exp = a /\ powers[b].exp = b BY <3>1, <1>3 DEF IInv, Nodes
    <3> QED BY <2>2, <3>2, <3>3 DEF a, b
  <2> QED BY <2>1, <2>2
<1>7. r \in WorkerStates /\ r.at = "end" /\ r.idx = worker[w].idx /\ r.prod = p
  <2>1. p \in Nat BY <1>3, Facts
  <2> HIDE DEF prod
  <2> QED BY <2>1, <1>3, <1>6 DEF WorkerStates, Stages
<1>8. worker' = [worker EXCEPT ![w] = r] BY <1>2, <1>3
<1> HIDE DEF r
<1>9. /\ worker' \in [Workers -> WorkerStates] /\ worker'[w] = r
      /\ \A v \in Workers \ {w} : worker'[v] = worker[v]
  BY <1>3, <1>7, <1>8
<1>10. Claimed(w)' = p BY <1>1, <1>2, <1>7, <1>9 DEF Claimed, Order, dagVars
<1>11. /\ state' \in [targets -> NodeStates] /\ powers' \in [targets -> Ciphertexts]
       /\ applied' \in [targets -> Nat] /\ applied'[p] = 1
       /\ \A q \in targets \ {p} : /\ state'[q] = state[q] /\ powers'[q] = powers[q]
                                    /\ applied'[q] = applied[q]
  BY <1>2, <1>3, <1>4, <1>5
<1>12. /\ Busy(w) /\ Busy(w)' /\ worker'[w].idx = worker[w].idx /\ state'[p] = "computing"
       /\ \A v \in Workers \ {w} : Busy(v) => Claimed(v) # p
  <2>1. Busy(w) /\ Busy(w)' BY <1>3, <1>7, <1>9 DEF Busy, Holding
  <2> QED BY <2>1, <1>1, <1>2, <1>3, <1>7, <1>9 DEF IInv, Claiming
<1>13. powers'[p].form \in {"blank", "coefficients"} /\ (p \in sources => powers'[p].exp = p)
  BY <1>2, <1>3 DEF IInv, Main, Nodes
<1>14. Ready(p)' BY <1>2, <1>5 DEF Ready, ParentsKnown, dagVars
<1>15. Knows(w)' BY <1>7, <1>9, <1>10, <1>11, <1>14 DEF Knows
<1>16. UNCHANGED <<dagVars, main, awaited>> /\ worker[w].at # "done" /\ state[p] = "computing"
  BY <1>2, <1>3, <1>12
<1> QED BY <1>1, <1>3, <1>9, <1>11, <1>12, <1>13, <1>15, <1>16, WorkerStep

LEMMA EndsStep ==
  ASSUME IInv, NEW w \in Workers, EndsFunc(w)
  PROVE  IInv'
<1>1. PICK p : p = Claimed(w) OBVIOUS
<1> DEFINE r == [worker[w] EXCEPT !.at = "mark", !.prod = 0]
<1>2. /\ At(w, "end") /\ powers' = [powers EXCEPT ![p] = Ciphertext(worker[w].prod, "coefficients")]
      /\ worker' = [worker EXCEPT ![w].at = "mark", ![w].prod = 0]
      /\ UNCHANGED <<dagVars, state, main, awaited, applied>>
  BY <1>1 DEF EndsFunc
<1>3. /\ Begun /\ main = "apply" /\ worker[w].at = "end" /\ Knows(w)
      /\ worker \in [Workers -> WorkerStates] /\ worker[w] \in WorkerStates /\ p \in targets
  BY <1>1, <1>2, Before
<1>4. /\ state \in [targets -> NodeStates] /\ powers \in [targets -> Ciphertexts]
      /\ applied \in [targets -> Nat]
  BY <1>3 DEF IInv, Types, NodeStates, Ciphertexts
<1>5. applied[p] = 1 /\ Ready(p) /\ worker[w].prod = p BY <1>1, <1>3 DEF Knows
<1>6. /\ Ciphertext(p, "coefficients") \in Ciphertexts
      /\ Ciphertext(p, "coefficients").exp = p /\ Ciphertext(p, "coefficients").form = "coefficients"
  <2>1. p \in Nat BY <1>3, Facts
  <2> QED BY <2>1 DEF Ciphertext, Ciphertexts, Forms
<1>7. r \in WorkerStates /\ r.at = "mark" /\ r.idx = worker[w].idx
  BY <1>3 DEF WorkerStates, Stages
<1>8. worker' = [worker EXCEPT ![w] = r] BY <1>2, <1>3
<1> HIDE DEF r
<1>9. /\ worker' \in [Workers -> WorkerStates] /\ worker'[w] = r
      /\ \A v \in Workers \ {w} : worker'[v] = worker[v]
  BY <1>3, <1>7, <1>8
<1>10. Claimed(w)' = p BY <1>1, <1>2, <1>7, <1>9 DEF Claimed, Order, dagVars
<1>11. /\ state' \in [targets -> NodeStates] /\ powers' \in [targets -> Ciphertexts]
       /\ applied' \in [targets -> Nat] /\ applied'[p] = 1
       /\ powers'[p] = Ciphertext(p, "coefficients")
       /\ \A q \in targets \ {p} : /\ state'[q] = state[q] /\ powers'[q] = powers[q]
                                    /\ applied'[q] = applied[q]
  BY <1>2, <1>3, <1>4, <1>5, <1>6
<1>12. /\ Busy(w) /\ Busy(w)' /\ worker'[w].idx = worker[w].idx /\ state'[p] = "computing"
       /\ \A v \in Workers \ {w} : Busy(v) => Claimed(v) # p
  <2>1. Busy(w) /\ Busy(w)' BY <1>3, <1>7, <1>9 DEF Busy, Holding
  <2> QED BY <2>1, <1>1, <1>2, <1>3, <1>7, <1>9 DEF IInv, Claiming
<1>13. powers'[p].form \in {"blank", "coefficients"} /\ (p \in sources => powers'[p].exp = p)
  BY <1>6, <1>11
<1>14. Ready(p)' BY <1>2, <1>5 DEF Ready, ParentsKnown, dagVars
<1>15. Knows(w)' BY <1>7, <1>9, <1>10, <1>11, <1>14 DEF Knows
<1>16. UNCHANGED <<dagVars, main, awaited>> /\ worker[w].at # "done" /\ state[p] = "computing"
  BY <1>2, <1>3, <1>12
<1> QED BY <1>1, <1>3, <1>9, <1>11, <1>12, <1>13, <1>15, <1>16, WorkerStep

LEMMA NodeWorkerStep ==
  ASSUME IInv, NEW w \in Workers, NodeWorker(w)
  PROVE  IInv'
<1>1. CASE Starts(w) \/ ChecksDone(w) BY <1>1, StartsStep
<1>2. CASE PassesBy(w) BY <1>2, PassesByStep
<1>3. CASE ParentMissing(w) \/ FuncThrows(w) BY <1>3, ThrowsStep
<1>4. CASE ReadsFirstParent(w) BY <1>4, ReadsFirstStep
<1>5. CASE ReadsSecondParent(w) BY <1>5, ReadsSecondStep
<1>6. CASE Claims(w) BY <1>6, ClaimsStep
<1>7. CASE Releases(w) \/ Marks(w) BY <1>7, GivesBackStep
<1>8. CASE BeginsFunc(w) BY <1>8, BeginsStep
<1>9. CASE EndsFunc(w) BY <1>9, EndsStep
<1> QED BY <1>1, <1>2, <1>3, <1>4, <1>5, <1>6, <1>7, <1>8, <1>9 DEF NodeWorker

-----------------------------------------------------------------------------
(***************************************************************************)
(* main's steps.                                                           *)
(***************************************************************************)
LEMMA Start == Init => IInv
<1> SUFFICES ASSUME Init PROVE IInv OBVIOUS
<1>1. Plan BY PlanStart
<1>2. ~Begun /\ Fresh /\ main = "configure" BY DEF Init, Begun, Fresh
<1>3. Types BY <1>2 DEF Types
<1> QED BY <1>1, <1>2, <1>3 DEF IInv, Claiming, Nodes, Knowing, Main

\* Before the computation there is only the plan.
LEMMA NotBegun ==
  ASSUME IInv, main = "configure", Plan',
         UNCHANGED <<state, powers, worker, awaited, applied>>,
         main' \in {"configure", "returned", "threw"}
  PROVE  IInv'
<1>1. ~Begun /\ Fresh BY DEF IInv, Types
<1>2. ~Begun' /\ Fresh' BY <1>1 DEF Begun, Fresh
<1>3. Types' BY <1>2 DEF Types
<1> QED BY <1>2, <1>3 DEF IInv, Claiming, Nodes, Knowing, Main

LEMMA ConfigureStep ==
  ASSUME IInv, Prepare \/ NothingToDo \/ NotConfigured
  PROVE  IInv'
<1>1. CASE Prepare
  <2>1. Plan' BY <1>1, PlanConfigure DEF Prepare, IInv
  <2> QED BY <1>1, <2>1, NotBegun DEF Prepare, applyVars
<1>2. CASE NothingToDo \/ NotConfigured
  <2>1. UNCHANGED dagVars BY <1>2 DEF NothingToDo, NotConfigured
  <2>2. Plan' BY <2>1, PlanStays DEF IInv
  <2> QED BY <1>2, <2>2, NotBegun DEF NothingToDo, NotConfigured
<1> QED BY <1>1, <1>2

\* Nobody has claimed anything when the workers are enqueued.
LEMMA StartApplyStep ==
  ASSUME IInv, StartApply
  PROVE  IInv'
<1>1. /\ main = "configure" /\ configured /\ main' = "apply"
      /\ state' = [p \in targets |-> "uncomputed"] /\ powers' = LoadInputs
      /\ applied' = [p \in targets |-> 0]
      /\ UNCHANGED <<dagVars, worker, awaited>>
  BY DEF StartApply
<1>2. Plan' BY <1>1, PlanStays DEF IInv
<1>3. worker = [w \in Workers |-> Idle] /\ awaited = 0 BY <1>1 DEF IInv, Types, Fresh
<1>4. /\ targets \in SUBSET Nat /\ IsFiniteSet(targets) /\ targets # {} /\ sources \subseteq targets
      /\ 1 \in targets
  BY <1>1 DEF IInv, Plan, Planned
<1>5. targets' = targets /\ sources' = sources /\ nodes' = nodes /\ configured' = configured
  BY <1>1 DEF dagVars
<1>6. Begun'
  <2>1. DOMAIN state' = targets BY <1>1
  <2>2. state' # <<>> BY <2>1, <1>4
  <2> QED BY <2>2 DEF Begun
<1>7. Cardinality(targets) \in Nat /\ 1 \in 1..Cardinality(targets)
  <2>1. Cardinality(targets) \in Nat /\ Cardinality(targets) # 0
    BY <1>4, FS_CardinalityType, FS_EmptySet
  <2> QED BY <2>1
<1>8. Types'
  <2>1. state' \in [targets -> {"uncomputed", "computing", "computed"}] BY <1>1
  <2>2. powers' \in [targets -> [exp : Nat, form : Forms]]
    BY <1>1, <1>4 DEF LoadInputs, Ciphertext, Blank, Forms
  <2>3. applied' \in [targets -> Nat] BY <1>1
  <2>4. worker' \in [Workers -> [at : Stages, idx : 1..Cardinality(targets),
                                 ready : BOOLEAN, prod : Nat]]
    BY <1>1, <1>3, <1>7 DEF Idle, Stages
  <2>5. awaited' \in 0..Threads BY <1>1, <1>3, ThreadsAssumption
  <2> QED BY <2>1, <2>2, <2>3, <2>4, <2>5, <1>1, <1>5, <1>6 DEF Types
<1>9. \A w \in Workers : worker'[w].at = "queued" BY <1>1, <1>3 DEF Idle
<1>10. Claiming'
  <2>1. \A w \in Workers : ~Busy(w)' BY <1>9 DEF Busy, Holding
  <2>2. \A p \in targets : state'[p] # "computing" BY <1>1
  <2> QED BY <2>1, <2>2, <1>5 DEF Claiming
<1>11. Nodes'
  <2>1. \A p \in sources : powers'[p].exp = p BY <1>1, <1>4 DEF LoadInputs, Ciphertext
  <2>2. \A p \in targets : state'[p] = "uncomputed" /\ applied'[p] = 0 BY <1>1
  <2> QED BY <2>1, <2>2, <1>5 DEF Nodes
<1>12. Knowing' BY <1>9 DEF Knowing, Knows
<1>13. Main'
  <2>1. \A p \in targets : powers'[p].form \in {"blank", "coefficients"}
    BY <1>1 DEF LoadInputs, Ciphertext, Blank
  <2>2. 1..awaited' = {} BY <1>1, <1>3
  <2> QED BY <2>1, <2>2, <1>1, <1>5 DEF Main
<1> QED BY <1>2, <1>8, <1>10, <1>11, <1>12, <1>13 DEF IInv

\* What main does when it only collects, goes on or returns.
LEMMA MainMoves ==
  ASSUME IInv, Begun, UNCHANGED <<dagVars, state, powers, worker, applied>>,
         main' \in {"apply", "switch", "returned", "threw"}, awaited' \in 0..Threads, Main'
  PROVE  IInv'
<1>1. targets' = targets /\ sources' = sources /\ nodes' = nodes /\ configured' = configured
  BY DEF dagVars
<1>2. Begun' BY DEF Begun
<1>3. Plan' BY PlanStays DEF IInv
<1>4. Types' BY <1>1, <1>2 DEF IInv, Types
<1>5. \A w \in Workers : Busy(w)' = Busy(w) /\ Claimed(w)' = Claimed(w)
  BY <1>1 DEF Busy, Holding, Claimed, Order
<1>6. Claiming' BY <1>1, <1>5 DEF IInv, Claiming
<1>7. \A p : Ready(p)' = Ready(p) /\ ParentsKnown(p)' = ParentsKnown(p)
  BY <1>1 DEF Ready, ParentsKnown
<1>8. Nodes' BY <1>1, <1>7 DEF IInv, Nodes
<1>9. AllComputed' = AllComputed BY DEF AllComputed
<1>10. Knowing' BY <1>1, <1>5, <1>7, <1>9 DEF IInv, Knowing, Knows
<1> QED BY <1>3, <1>4, <1>6, <1>8, <1>10 DEF IInv

LEMMA CollectStep ==
  ASSUME IInv, AwaitsWorker \/ Rethrows \/ Switches
  PROVE  IInv'
<1>1. /\ main = "apply" /\ UNCHANGED <<dagVars, state, powers, worker, applied>>
      /\ Begun /\ awaited \in 0..Threads
  BY DEF AwaitsWorker, Rethrows, Switches, IInv, Types
<1>2. /\ \A w \in 1..awaited : worker[w].at = "done"
      /\ \A p \in targets : powers[p].form \in {"blank", "coefficients"}
  BY <1>1 DEF IInv, Main
<1>3. targets' = targets /\ Begun' BY <1>1 DEF dagVars, Begun
<1>4. CASE AwaitsWorker
  <2>1. /\ awaited < Threads /\ worker[awaited + 1].at = "done" /\ awaited' = awaited + 1
        /\ main' = "apply"
    BY <1>1, <1>4 DEF AwaitsWorker
  <2>2. awaited' \in 0..Threads BY <1>1, <2>1, ThreadsAssumption
  <2>3. \A w \in 1..awaited' : w \in 1..awaited \/ w = awaited + 1 BY <1>1, <2>1
  <2>4. \A w \in 1..awaited' : worker'[w].at = "done" BY <1>1, <1>2, <2>1, <2>3
  <2>5. Main' BY <1>1, <1>2, <1>3, <2>1, <2>4 DEF Main
  <2> QED BY <1>1, <2>1, <2>2, <2>5, MainMoves
<1>5. CASE Rethrows
  <2>1. main' = "threw" /\ awaited' = awaited BY <1>5 DEF Rethrows
  <2>2. Main' BY <1>1, <1>2, <1>3, <2>1 DEF Main
  <2> QED BY <1>1, <2>1, <2>2, MainMoves
<1>6. CASE Switches
  <2>1. main' = "switch" /\ awaited' = awaited /\ awaited = Threads BY <1>6 DEF Switches
  <2>2. \A w \in Workers : worker[w].at = "done" BY <1>2, <2>1 DEF Workers
  <2>3. 1 \in Workers BY ThreadsAssumption DEF Workers
  <2>4. AllComputed BY <1>1, <2>2, <2>3 DEF IInv, Knowing, Knows
  <2>5. DOMAIN state = targets BY <1>1 DEF IInv, Types
  <2>6. \A p \in targets : powers[p].form = "coefficients"
    BY <1>1, <1>2, <2>4, <2>5 DEF IInv, Nodes, AllComputed
  <2>7. Main' BY <1>1, <1>2, <1>3, <2>1, <2>2, <2>4, <2>6 DEF Main, AllComputed
  <2> QED BY <1>1, <2>1, <2>7, MainMoves
<1> QED BY <1>4, <1>5, <1>6

LEMMA ReturnsStep ==
  ASSUME IInv, Returns
  PROVE  IInv'
<1>1. /\ main = "switch" /\ main' = "returned" /\ \A p \in targets : Switched(p)
      /\ UNCHANGED <<dagVars, state, powers, worker, awaited, applied>>
  BY DEF Returns
<1>2. Begun /\ awaited \in 0..Threads BY <1>1 DEF IInv, Types
<1>3. targets' = targets BY <1>1 DEF dagVars
<1>4. Main' BY <1>1, <1>2, <1>3 DEF IInv, Main, Switched, AllComputed
<1> QED BY <1>1, <1>2, <1>4, MainMoves

\* The second phase leaves every power what it is, in the form it will have.
LEMMA SwitchTaskStep ==
  ASSUME IInv, NEW p \in targets, SwitchTask(p)
  PROVE  IInv'
<1>1. /\ main = "switch" /\ powers[p].form = "coefficients"
      /\ powers' = [powers EXCEPT ![p].form = FinalForm(p)]
      /\ UNCHANGED <<dagVars, state, worker, main, awaited, applied>>
  BY DEF SwitchTask
<1>2. /\ targets' = targets /\ sources' = sources /\ nodes' = nodes /\ configured' = configured
      /\ Begun /\ Begun'
  BY <1>1 DEF dagVars, Begun, IInv, Types
<1>3. Plan' BY <1>1, PlanStays DEF IInv
<1>4. FinalForm(p) \in Forms /\ FinalForm(p) # "blank" BY DEF FinalForm, Forms
<1>5. powers \in [targets -> [exp : Nat, form : Forms]] BY <1>2 DEF IInv, Types
<1>6. /\ powers' \in [targets -> [exp : Nat, form : Forms]]
      /\ powers'[p].form = FinalForm(p) /\ \A q \in targets : powers'[q].exp = powers[q].exp
      /\ \A q \in targets \ {p} : powers'[q] = powers[q]
  BY <1>1, <1>4, <1>5
<1>7. Types' BY <1>1, <1>2, <1>6 DEF IInv, Types
<1>8. \A w \in Workers : Busy(w)' = Busy(w) /\ Claimed(w)' = Claimed(w)
  BY <1>1, <1>2 DEF Busy, Holding, Claimed, Order
<1>9. Claiming' BY <1>1, <1>2, <1>8 DEF IInv, Claiming
<1>10. \A q : Ready(q)' = Ready(q) BY <1>1, <1>2 DEF Ready, ParentsKnown
<1>11. Nodes'
  <2>1. \A q \in sources : powers'[q].exp = q
    <3>1. sources \subseteq targets BY <1>2, Facts
    <3> QED BY <1>2, <1>6, <3>1 DEF IInv, Nodes
  <2>2. ASSUME NEW q \in targets
        PROVE  /\ state'[q] = "uncomputed" => applied'[q] = 0
               /\ state'[q] = "computed" => /\ powers'[q].exp = q /\ powers'[q].form # "blank"
                                            /\ applied'[q] = 1 /\ Ready(q)'
    <3>1. powers'[q].exp = powers[q].exp /\ (powers[q].form # "blank" => powers'[q].form # "blank")
      BY <1>4, <1>6
    <3> QED BY <1>1, <1>2, <1>10, <3>1 DEF IInv, Nodes
  <2> QED BY <1>2, <2>1, <2>2 DEF Nodes
<1>12. AllComputed' /\ \A w \in Workers : worker'[w].at = "done"
  BY <1>1, <1>2 DEF IInv, Main, AllComputed
<1>13. Knowing' BY <1>12 DEF Knowing, Knows
<1>14. \A q \in targets : powers'[q].form \in {"coefficients", FinalForm(q)}
  BY <1>1, <1>2, <1>6 DEF IInv, Main
<1>15. Main' BY <1>1, <1>2, <1>12, <1>14 DEF IInv, Main
<1> QED BY <1>3, <1>7, <1>9, <1>11, <1>13, <1>15 DEF IInv

LEMMA Stutters == IInv /\ UNCHANGED vars => IInv'
<1> SUFFICES ASSUME IInv, UNCHANGED vars PROVE IInv' OBVIOUS
<1>1. UNCHANGED <<dagVars, state, powers, worker, main, awaited, applied>> BY DEF vars, applyVars
<1>2. targets' = targets BY <1>1 DEF dagVars
<1>3. CASE Begun
  <2>1. Main' BY <1>1, <1>2, <1>3 DEF IInv, Main, Begun, Switched, AllComputed
  <2>2. main \in {"apply", "switch", "returned", "threw"} /\ awaited \in 0..Threads
    BY <1>3 DEF IInv, Types
  <2> QED BY <1>1, <1>3, <2>1, <2>2, MainMoves
<1>4. CASE ~Begun
  <2>1. ~Begun' /\ Types' /\ Plan' BY <1>1, <1>4, PlanStays DEF IInv, Types, Begun, Fresh
  <2> QED BY <2>1 DEF IInv, Claiming, Nodes, Knowing, Main
<1> QED BY <1>3, <1>4

LEMMA Step == IInv /\ [Next]_vars => IInv'
<1> SUFFICES ASSUME IInv, [Next]_vars PROVE IInv' OBVIOUS
<1>1. CASE Prepare \/ NothingToDo \/ NotConfigured BY <1>1, ConfigureStep
<1>2. CASE StartApply BY <1>2, StartApplyStep
<1>3. ASSUME NEW w \in Workers, NodeWorker(w) PROVE IInv' BY <1>3, NodeWorkerStep
<1>4. CASE AwaitsWorker \/ Rethrows \/ Switches BY <1>4, CollectStep
<1>5. ASSUME NEW p \in targets, SwitchTask(p) PROVE IInv' BY <1>5, SwitchTaskStep
<1>6. CASE Returns BY <1>6, ReturnsStep
<1>7. CASE Finished \/ UNCHANGED vars BY <1>7, Stutters DEF Finished
<1> QED BY <1>1, <1>2, <1>3, <1>4, <1>5, <1>6, <1>7 DEF Next

-----------------------------------------------------------------------------
(***************************************************************************)
(* The theorems.                                                           *)
(***************************************************************************)
\* The invariant of plan and computation: configure() leaves a plan, and from
\* StartApply on each stage of a worker says what it knows of the node it claimed.
THEOREM Inductive == Spec => []IInv
BY Start, Step, PTL DEF Spec

\* Every variable of the dag and of parallel_apply keeps its type.
THEOREM TypeCorrect == Spec => []TypeOK
<1>1. IInv => TypeOK
  <2> SUFFICES ASSUME IInv PROVE TypeOK OBVIOUS
  <2>1. DagTypeOK
    <3>1. configured => targets \subseteq DOMAIN nodes /\ 1 \in targets
      BY DEF IInv, Plan, Planned
    <3> QED BY <3>1 DEF IInv, Plan, DagTypeOK
  <2>2. CASE Begun
    <3>1. main = "apply" => \A w \in Workers : worker[w].idx \in 1..Cardinality(targets)
      BY <2>2 DEF IInv, Types
    <3> QED BY <2>1, <2>2, <3>1 DEF IInv, Types, TypeOK
  <2>3. CASE ~Begun
    <3>1. Fresh /\ main # "apply" BY <2>3 DEF IInv, Types
    <3>2. awaited \in 0..Threads BY <3>1, ThreadsAssumption DEF Fresh
    <3>3. DOMAIN state = {} /\ DOMAIN powers = {} BY <3>1 DEF Fresh
    <3> QED BY <2>1, <3>1, <3>2, <3>3 DEF IInv, Types, Fresh, TypeOK
  <2> QED BY <2>2, <2>3
<1> QED BY <1>1, Inductive, PTL

\* Whatever an earlier configure() left in nodes_, the plan for the targets of
\* create_powers_set has every parent among the targets, and the least depth.
THEOREM PlanRight == Spec => []QueryPlanSound
<1>1. IInv => QueryPlanSound
  BY Sound, LowDegreeAssumption DEF IInv, QueryPlanSound, PlanSound
<1> QED BY <1>1, Inductive, PTL

\* The compare_exchange on node_states is lock enough: one worker per node, and
\* a node nobody holds is Computing only if its worker threw.
THEOREM Alone == Spec => []OneWorkerPerNode
<1>1. IInv => OneWorkerPerNode
  <2> SUFFICES ASSUME IInv, main = "apply"
               PROVE  /\ \A v, w \in Workers :
                           (v # w /\ Holding(v) /\ Holding(w)) => Claimed(v) # Claimed(w)
                      /\ \A p \in targets : state[p] = "computing" <=>
                           \E w \in Workers : /\ Holding(w) \/ worker[w].at = "threw"
                                              /\ Claimed(w) = p
    BY DEF OneWorkerPerNode
  <2>1. Begun BY DEF IInv, Types
  <2> QED BY <2>1 DEF IInv, Claiming, Busy
<1> QED BY <1>1, Inductive, PTL

\* A computed node holds its own power, got by one application of func after
\* both its parents were computed, for every interleaving of the workers.
THEOREM InOrder == Spec => []ComputedInOrder
<1>1. IInv => ComputedInOrder
  <2> SUFFICES ASSUME IInv, NEW p \in DOMAIN state, state[p] = "computed"
               PROVE  /\ powers[p].exp = p /\ applied[p] = 1
                      /\ ~IsSource(nodes[p]) =>
                           \A i \in {1, 2} : state[nodes[p].parents[i]] = "computed"
    BY DEF ComputedInOrder
  <2>1. CASE Begun
    <3>1. p \in targets BY <2>1 DEF IInv, Types
    <3> QED BY <2>1, <3>1 DEF IInv, Nodes, Ready
  <2>2. CASE ~Begun
    <3>1. DOMAIN state = {} BY <2>2 DEF Begun
    <3> QED BY <3>1
  <2> QED BY <2>1, <2>2
<1> QED BY <1>1, Inductive, PTL

\* No power leaves coefficient form while a worker may still multiply with it,
\* and a normal return finds every power in its final form.
THEOREM InForm == Spec => []FormsSafe
<1>1. IInv => FormsSafe
  <2> SUFFICES ASSUME IInv PROVE FormsSafe OBVIOUS
  <2>1. CASE ~Begun
    <3>1. DOMAIN powers = {} BY <2>1 DEF IInv, Types, Fresh
    <3> QED BY <3>1 DEF FormsSafe
  <2>2. CASE Begun
    <3>1. DOMAIN powers = targets /\ DOMAIN state = targets BY <2>2 DEF IInv, Types
    <3>2. main \in {"apply", "switch", "returned", "threw"} BY <2>2 DEF IInv, Types
    <3>3. main \in {"apply", "threw"} =>
            \A p \in targets : powers[p].form \in {"blank", "coefficients"}
      BY <2>2 DEF IInv, Main
    <3>4. main \in {"switch", "returned"} => AllComputed /\ \A w \in Workers : worker[w].at = "done"
      BY <2>2 DEF IInv, Main
    <3>5. ASSUME main = "returned", NEW p \in targets
          PROVE  powers[p] = Ciphertext(p, FinalForm(p))
      <4>1. powers[p] \in [exp : Nat, form : Forms] BY <2>2 DEF IInv, Types
      <4>2. powers[p].form = FinalForm(p) BY <2>2, <3>5 DEF IInv, Main, Switched
      <4>3. powers[p].exp = p BY <2>2, <3>1, <3>4, <3>5 DEF IInv, Nodes, AllComputed
      <4> QED BY <4>1, <4>2, <4>3 DEF Ciphertext
    <3>6. (\E p \in DOMAIN powers : powers[p].form \in {"ntt_high", "ntt_low", "high"})
            => AllComputed /\ \A w \in Workers : worker[w].at = "done"
      BY <3>1, <3>2, <3>3, <3>4
    <3> QED BY <3>5, <3>6 DEF FormsSafe
  <2> QED BY <2>1, <2>2
<1> QED BY <1>1, Inductive, PTL

-----------------------------------------------------------------------------
(***************************************************************************)
(* The powers of a number, without the modulus: w[k] is the k-th.  What    *)
(* the evaluations compute is congruent to them modulo mod.                *)
(***************************************************************************)
ArePowers(w, x, N) ==
  /\ w[0] = 1
  /\ \A k \in 0..(N - 1) : w[k + 1] = x * w[k]

\* There are as many as one wants.
LEMMA PowersExist ==
  ASSUME NEW x \in Int, NEW N \in Nat
  PROVE  \E w : ArePowers(w, x, N)
<1> DEFINE seq == [k \in 1..N |-> k]
           h == CHOOSE h : Loop!IsUnrolling(h, "left", "power", x, 1, seq, N)
<1>1. Loop!IsUnrolling(h, "left", "power", x, 1, seq, N) BY Loop!UnrollingExists
<1> HIDE DEF h, seq
<1>2. PICK g : Loop!AreRounds(g, "left", "power", x, 1, seq, N) /\ g[N] = h[1..N]
  BY ONLY N \in Nat, <1>1, Loop!RoundByRound
<1>3. ArePowers(g, x, N) BY <1>2 DEF Loop!AreRounds, ArePowers, PassOf
<1> QED BY <1>3

\* They are integers, and a sum of exponents is a product of powers.
LEMMA PowersAre ==
  ASSUME NEW x \in Int, NEW N \in Nat, NEW w, ArePowers(w, x, N)
  PROVE  /\ \A k \in 0..N : w[k] \in Int
         /\ \A a, b \in 0..N : a + b <= N => w[a + b] = w[a] * w[b]
<1> DEFINE T == {k \in Nat : k <= N => w[k] \in Int}
<1>1. 0 \in T BY DEF ArePowers
<1>2. ASSUME NEW k \in T PROVE k + 1 \in T
  <2> SUFFICES ASSUME k + 1 <= N PROVE w[k + 1] \in Int BY <1>2
  <2>1. w[k] \in Int /\ w[k + 1] = x * w[k] BY <1>2 DEF ArePowers
  <2> QED BY <2>1, SMT
<1>t. T \in SUBSET Nat OBVIOUS
<1> HIDE DEF T
<1>3. T = Nat BY <1>t, <1>1, <1>2, InductionOnNat
<1>4. \A k \in 0..N : w[k] \in Int BY <1>3 DEF T
<1> DEFINE U == {b \in Nat : \A a \in 0..N : a + b <= N => w[a + b] = w[a] * w[b]}
<1>5. 0 \in U
  <2>1. \A a \in 0..N : w[a + 0] = w[a] * w[0] BY <1>4 DEF ArePowers
  <2> QED BY <2>1
<1>6. ASSUME NEW b \in U PROVE b + 1 \in U
  <2>0. b \in Nat BY <1>6
  <2> SUFFICES ASSUME NEW a \in 0..N, a + (b + 1) <= N PROVE w[a + (b + 1)] = w[a] * w[b + 1]
    BY <2>0
  <2>1. w[a + b] = w[a] * w[b] BY <1>6, <2>0
  <2>2. a + b \in 0..(N - 1) /\ b \in 0..(N - 1) /\ a + (b + 1) = (a + b) + 1 BY <2>0
  <2>3. w[a + (b + 1)] = x * w[a + b] /\ w[b + 1] = x * w[b] BY <2>2 DEF ArePowers
  <2>4. w[a] \in Int /\ w[b] \in Int BY <1>4, <2>2
  <2> DEFINE u == w[a]
             v == w[b]
  <2>5. x * (u * v) = u * (x * v) BY <2>4, SMT
  <2> QED BY <2>1, <2>3, <2>5
<1>u. U \in SUBSET Nat OBVIOUS
<1> HIDE DEF U
<1>7. U = Nat BY <1>u, <1>5, <1>6, InductionOnNat
<1>8. \A a, b \in 0..N : a + b <= N => w[a + b] = w[a] * w[b] BY <1>7 DEF U
<1> QED BY <1>4, <1>8

\* exponentiate_array, round by round.
LEMMA SquareRounds ==
  ASSUME NEW x \in Int, NEW n \in Nat
  PROVE  \E g : /\ g[0] = [value |-> x, result |-> 1, exponent |-> n]
                /\ \A k \in 0..(n - 1) : g[k + 1] = SquareAndMultiply(g[k])
                /\ ExponentiateArray(x, n) = g[n].result
<1> DEFINE seq == [k \in 1..n |-> k]
           base == [value |-> x, result |-> 1, exponent |-> n]
           h == CHOOSE h : Loop!IsUnrolling(h, "left", "square", 0, base, seq, n)
<1>1. Loop!IsUnrolling(h, "left", "square", 0, base, seq, n) BY Loop!UnrollingExists
<1>2. ExponentiateArray(x, n) = h[1..n].result
  BY DEF ExponentiateArray, FoldLeft, MapThenFoldSet, PassOf, Max, Min, Loop!Max, Loop!Min,
     Loop!IsUnrolling, Loop!Unrolled, Loop!LastTaken
<1> HIDE DEF h, seq, base
<1>3. PICK g : Loop!AreRounds(g, "left", "square", 0, base, seq, n) /\ g[n] = h[1..n]
  BY ONLY n \in Nat, <1>1, Loop!RoundByRound
<1>4. /\ g[0] = base
      /\ \A k \in 0..(n - 1) : g[k + 1] = SquareAndMultiply(g[k])
  BY <1>3 DEF Loop!AreRounds, PassOf
<1>5. g[0] = [value |-> x, result |-> 1, exponent |-> n] BY <1>4 DEF base
<1>6. ExponentiateArray(x, n) = g[n].result BY <1>2, <1>3
<1> QED BY <1>4, <1>5, <1>6

ModIs == mod \in Nat \ {0} /\ mod >= 2

\* What the modulus is used for here.
LEMMA ModNat == ModIs
BY ModAssumption DEF ModIs

\* What the rounds keep: with value the a-th power and result the b-th, a * exponent + b is n.
Keeps(s, w, n, N) ==
  /\ s = [value |-> s.value, result |-> s.result, exponent |-> s.exponent]
  /\ s.value \in Int /\ s.result \in Int /\ s.exponent \in Nat
  /\ \E a, b \in 0..N :
       /\ Congruent(mod, s.value, w[a]) /\ Congruent(mod, s.result, w[b])
       /\ b + a * s.exponent = n

\* A round keeps it, and the exponent gets less.
LEMMA SquareKeeps ==
  ASSUME NEW x \in Int, NEW n \in Nat, NEW N \in Nat \ {0}, 2 * n <= N,
         NEW w, ArePowers(w, x, N),
         NEW s, Keeps(s, w, n, N), s.exponent # 0
  PROVE  Keeps(SquareAndMultiply(s), w, n, N) /\ SquareAndMultiply(s).exponent <= s.exponent - 1
<1> DEFINE v == s.value
           r == s.result
           e == s.exponent
<1>0. mod \in Nat \ {0} BY ModNat DEF ModIs
<1>1. PICK a \in 0..N, b \in 0..N :
        Congruent(mod, v, w[a]) /\ Congruent(mod, r, w[b]) /\ b + a * e = n
  BY DEF Keeps
<1>2. v \in Int /\ r \in Int /\ e \in Nat \ {0} BY DEF Keeps
<1>3. SquareAndMultiply(s) =
        [value |-> (v * v) % mod, result |-> IF e % 2 = 1 THEN (v * r) % mod ELSE r,
         exponent |-> e \div 2]
  BY DEF SquareAndMultiply
<1> DEFINE t == SquareAndMultiply(s)
           d == e \div 2
           o == e % 2
<1>4. d \in Nat /\ o \in {0, 1} /\ e = 2 * d + o /\ d <= e - 1
  <2>1. PICK f \in Nat \ {0} : f = e BY <1>2
  <2>2. f \div 2 \in Nat /\ f % 2 \in {0, 1} /\ f = 2 * (f \div 2) + (f % 2) /\ f \div 2 <= f - 1
    BY ONLY f \in Nat \ {0}, SMT
  <2> QED BY <2>1, <2>2
<1>5. t.value = (v * v) % mod /\ t.result = (IF o = 1 THEN (v * r) % mod ELSE r) /\ t.exponent = d
      /\ t = [value |-> t.value, result |-> t.result, exponent |-> t.exponent]
  BY <1>3
<1> HIDE DEF v, r, e, t, d, o
<1>6. /\ \A k \in 0..N : w[k] \in Int
      /\ \A k, l \in 0..N : k + l <= N => w[k + l] = w[k] * w[l]
  BY PowersAre
<1>7. a <= n /\ a + b <= n
  <2>1. a * e >= a * 1 BY <1>2, SMT
  <2>2. a * e \in Nat BY <1>2, SMT
  <2> QED BY <1>1, <2>1, <2>2, SMT
<1>8. Congruent(mod, (v * v) % mod, w[2 * a]) /\ (v * v) % mod \in Int
  <2>1. v * v \in Int /\ w[a] \in Int /\ w[a] * w[a] \in Int /\ (v * v) % mod \in Int
    BY <1>0, <1>2, <1>6, Remainder, SMT
  <2>2. Congruent(mod, v * v, w[a] * w[a]) BY <1>0, <1>1, <1>2, <2>1, CongruentProduct
  <2>3. w[a] * w[a] = w[2 * a]
    <3>1. a + a = 2 * a /\ a + a <= N BY <1>7, SMT
    <3> QED BY <1>6, <3>1
  <2>4. Congruent(mod, (v * v) % mod, w[a] * w[a]) BY ONLY <1>0, <2>1, <2>2, CongruentRemainder
  <2> QED BY <2>1, <2>3, <2>4
<1>9. Congruent(mod, (v * r) % mod, w[a + b]) /\ (v * r) % mod \in Int
  <2>1. v * r \in Int /\ w[a] \in Int /\ w[b] \in Int /\ w[a] * w[b] \in Int
        /\ (v * r) % mod \in Int
    BY <1>0, <1>2, <1>6, Remainder, SMT
  <2>2. Congruent(mod, v * r, w[a] * w[b]) BY <1>0, <1>1, <1>2, <2>1, CongruentProduct
  <2>3. w[a] * w[b] = w[a + b] BY <1>6, <1>7
  <2>4. Congruent(mod, (v * r) % mod, w[a] * w[b]) BY ONLY <1>0, <2>1, <2>2, CongruentRemainder
  <2> QED BY <2>1, <2>3, <2>4
<1>10. a * e = 2 * (a * d) + a * o /\ a * d \in Nat /\ (2 * a) * d = 2 * (a * d)
  BY <1>4, SMT
<1>11. 2 * a \in 0..N /\ a + b \in 0..N BY <1>7
<1>12. CASE o = 1
  <2>1. t.result = (v * r) % mod BY <1>5, <1>12
  <2>2. (a + b) + (2 * a) * d = n
    <3>1. a * o = a BY <1>12
    <3> QED BY <1>1, <1>10, <3>1, SMT
  <2> QED BY <1>4, <1>5, <1>8, <1>9, <1>11, <2>1, <2>2 DEF Keeps, t, e
<1>13. CASE o = 0
  <2>1. t.result = r BY <1>5, <1>13
  <2>2. b + (2 * a) * d = n
    <3>1. a * o = 0 BY <1>13
    <3> QED BY <1>1, <1>10, <3>1, SMT
  <2> QED BY <1>1, <1>2, <1>4, <1>5, <1>8, <1>11, <2>1, <2>2 DEF Keeps, t, e
<1> QED BY <1>4, <1>12, <1>13

\* exponentiate_array computes the power, and n rounds are enough.
LEMMA ExponentiateIs ==
  ASSUME NEW x \in Int, NEW n \in Nat, NEW N \in Nat \ {0}, 2 * n <= N,
         NEW w, ArePowers(w, x, N)
  PROVE  ExponentiateArray(x, n) \in Int /\ Congruent(mod, ExponentiateArray(x, n), w[n])
<1>0. mod \in Nat \ {0} BY ModNat DEF ModIs
<1>1. PICK g : /\ g[0] = [value |-> x, result |-> 1, exponent |-> n]
               /\ \A k \in 0..(n - 1) : g[k + 1] = SquareAndMultiply(g[k])
               /\ ExponentiateArray(x, n) = g[n].result
  BY SquareRounds
<1> DEFINE T == {k \in Nat : k <= n => Keeps(g[k], w, n, N) /\ g[k].exponent <= n - k}
<1>2. 0 \in T
  <2>1. w[0] = 1 /\ w[0 + 1] = x * w[0] BY DEF ArePowers
  <2>2. w[1] = x BY <2>1
  <2>3. Congruent(mod, 1, w[0]) /\ Congruent(mod, x, w[1]) BY <1>0, <2>1, <2>2, Congruence
  <2>4. 0 \in 0..N /\ 1 \in 0..N /\ 0 + 1 * n = n OBVIOUS
  <2>5. Keeps(g[0], w, n, N) BY <1>1, <2>3, <2>4 DEF Keeps
  <2> QED BY <1>1, <2>5
<1>3. ASSUME NEW k \in T PROVE k + 1 \in T
  <2> SUFFICES ASSUME k + 1 <= n PROVE Keeps(g[k + 1], w, n, N) /\ g[k + 1].exponent <= n - (k + 1)
    BY <1>3
  <2>0. k \in Nat /\ k \in 0..(n - 1) BY <1>3
  <2>1. Keeps(g[k], w, n, N) /\ g[k].exponent <= n - k BY <1>3, <2>0
  <2>2. g[k + 1] = SquareAndMultiply(g[k]) BY <1>1, <2>0
  <2>3. CASE g[k].exponent = 0
    <3>1. g[k + 1] = g[k] BY <2>2, <2>3 DEF SquareAndMultiply
    <3> QED BY <2>0, <2>1, <2>3, <3>1
  <2>4. CASE g[k].exponent # 0
    <3>0. PICK s : s = g[k] OBVIOUS
    <3>1. Keeps(s, w, n, N) /\ s.exponent # 0 /\ s.exponent <= n - k BY <2>1, <2>4, <3>0
    <3>2. /\ Keeps(SquareAndMultiply(s), w, n, N)
          /\ SquareAndMultiply(s).exponent <= s.exponent - 1
      BY <3>1, SquareKeeps
    <3>3. s.exponent \in Nat /\ SquareAndMultiply(s).exponent \in Nat BY <3>1, <3>2 DEF Keeps
    <3> QED BY <2>0, <2>2, <3>0, <3>1, <3>2, <3>3
  <2> QED BY <2>3, <2>4
<1>t. T \in SUBSET Nat OBVIOUS
<1> HIDE DEF T
<1>4. T = Nat BY <1>t, <1>2, <1>3, InductionOnNat
<1>5. Keeps(g[n], w, n, N) /\ g[n].exponent <= 0 BY <1>4 DEF T
<1>6. PICK a \in 0..N, b \in 0..N :
        Congruent(mod, g[n].result, w[b]) /\ b + a * g[n].exponent = n
  BY <1>5 DEF Keeps
<1>7. g[n].exponent = 0 /\ g[n].result \in Int BY <1>5 DEF Keeps
<1>8. a * g[n].exponent = 0 BY <1>7
<1> QED BY <1>1, <1>6, <1>7, <1>8

-----------------------------------------------------------------------------
(***************************************************************************)
(* The value of a polynomial as a sum of powers.                           *)
(***************************************************************************)

\* s[k] is the sum of the first k terms.
ArePartial(s, w, c) ==
  /\ s[0] = 0
  /\ \A k \in 0..(Len(c) - 1) : s[k + 1] = s[k] + w[k] * c[k + 1]

\* There are such sums ...
LEMMA PartialExist ==
  ASSUME NEW w, NEW c, Len(c) \in Nat
  PROVE  \E s : ArePartial(s, w, c)
<1> DEFINE n == Len(c)
           ctx == [w |-> w, c |-> c]
           seq == [k \in 1..n |-> k]
           h == CHOOSE h : Loop!IsUnrolling(h, "left", "partial", ctx, 0, seq, n)
<1>1. Loop!IsUnrolling(h, "left", "partial", ctx, 0, seq, n) BY Loop!UnrollingExists
<1> HIDE DEF h
<1>2. PICK g : Loop!AreRounds(g, "left", "partial", ctx, 0, seq, n) /\ g[n] = h[1..n]
  <2> HIDE DEF ctx, seq
  <2> QED BY ONLY n \in Nat, <1>1, Loop!RoundByRound
<1>3. g[0] = 0 BY <1>2 DEF Loop!AreRounds
<1>4. ASSUME NEW k \in 0..(n - 1) PROVE g[k + 1] = g[k] + w[k] * c[k + 1]
  <2>1. g[k + 1] = PassOf("partial", ctx, seq[k + 1], g[k]) BY <1>2 DEF Loop!AreRounds
  <2>2. seq[k + 1] = k + 1 /\ (k + 1) - 1 = k OBVIOUS
  <2>3. ctx.w = w /\ ctx.c = c OBVIOUS
  <2> HIDE DEF ctx, seq
  <2>4. PassOf("partial", ctx, k + 1, g[k]) = g[k] + w[(k + 1) - 1] * c[k + 1]
    BY <2>3 DEF PassOf
  <2> QED BY <2>1, <2>2, <2>4
<1> QED BY <1>3, <1>4 DEF ArePartial

\* ... and they are integers.
LEMMA PartialAre ==
  ASSUME NEW c \in Seq(Int), NEW w, \A k \in 0..(Len(c) - 1) : w[k] \in Int,
         NEW s, ArePartial(s, w, c)
  PROVE  \A k \in 0..Len(c) : s[k] \in Int
<1> DEFINE T == {k \in Nat : k <= Len(c) => s[k] \in Int}
<1>1. 0 \in T BY DEF ArePartial
<1>2. ASSUME NEW k \in T PROVE k + 1 \in T
  <2> SUFFICES ASSUME k + 1 <= Len(c) PROVE s[k + 1] \in Int BY <1>2
  <2>1. k \in 0..(Len(c) - 1) /\ k + 1 \in 1..Len(c) BY <1>2
  <2>2. s[k] \in Int /\ w[k] \in Int /\ c[k + 1] \in Int /\ s[k + 1] = s[k] + w[k] * c[k + 1]
    BY <1>2, <2>1 DEF ArePartial
  <2> QED BY <2>2, SMT
<1>t. T \in SUBSET Nat OBVIOUS
<1> HIDE DEF T
<1>3. T = Nat BY <1>t, <1>1, <1>2, InductionOnNat
<1> QED BY <1>3 DEF T

\* Horner's method, round by round, from the last coefficient.
LEMMA HornerRounds ==
  ASSUME NEW c \in Seq(Int), NEW x \in Int
  PROVE  \E g : /\ g[0] = 0 /\ g[Len(c)] = ValueAt(c, x)
                /\ \A k \in 0..(Len(c) - 1) : g[k + 1] = (c[Len(c) - k] + x * g[k]) % mod
<1> DEFINE n == Len(c)
           h == CHOOSE h : Loop!IsUnrolling(h, "right", "horner", x, 0, c, n)
<1>0. n \in Nat /\ DOMAIN c = 1..n OBVIOUS
<1>1. Loop!IsUnrolling(h, "right", "horner", x, 0, c, n) BY Loop!UnrollingExists
<1>2. ValueAt(c, x) = h[1..n]
  BY <1>0 DEF ValueAt, FoldRight, MapThenFoldSet, PassOf, Max, Min, Loop!Max, Loop!Min,
     Loop!IsUnrolling, Loop!Unrolled, Loop!LastTaken
<1> HIDE DEF h
<1>3. PICK g : Loop!AreRounds(g, "right", "horner", x, 0, c, n) /\ g[n] = h[1..n]
  BY ONLY n \in Nat, <1>1, Loop!RoundByRound
<1>4. /\ g[0] = 0
      /\ \A k \in 0..(n - 1) : g[k + 1] = (c[n - k] + x * g[k]) % mod
  BY <1>3 DEF Loop!AreRounds, PassOf
<1> QED BY <1>2, <1>3, <1>4

\* The reduction of a round may wait till the end.
LEMMA HornerStep ==
  ASSUME NEW q \in Nat \ {0}, NEW u \in Int, NEW x \in Int, NEW y \in Int, NEW a \in Int,
         NEW b \in Int, NEW v \in Int, Congruent(q, (x * a) * y + (b + a * u), v)
  PROVE  Congruent(q, a * ((u + x * y) % q) + b, v)
<1> DEFINE p == u + x * y
<1>1. PICK z \in Int : z = x * y BY SMT
<1>2. p \in Int /\ p = u + z BY <1>1
<1>3. (x * a) * y = a * z BY <1>1, SMT
<1>4. a * p = a * u + a * z /\ a * u \in Int /\ a * z \in Int /\ a * p \in Int
  <2> HIDE DEF p
  <2> QED BY <1>1, <1>2, SMT
<1>5. (x * a) * y + (b + a * u) = a * p + b
  <2> HIDE DEF p
  <2> DEFINE au == a * u
             az == a * z
             ap == a * p
  <2>1. ap = au + az /\ au \in Int /\ az \in Int BY <1>4
  <2> HIDE DEF au, az, ap
  <2>2. az + (b + au) = ap + b BY <2>1
  <2> QED BY <1>3, <2>2 DEF au, az, ap
<1>6. Congruent(q, a * p + b, v) BY <1>5
<1>7. PICK r \in Int : r = p % q
  <2> HIDE DEF p
  <2> QED BY <1>2, SMT
<1>8. Congruent(q, r, p) BY <1>2, <1>7, Congruence
<1> HIDE DEF p
<1>9. Congruent(q, a, a) /\ Congruent(q, b, b) BY Congruence
<1>10. a * r \in Int BY SMT
<1>11. Congruent(q, a * r, a * p) BY ONLY q \in Nat \ {0}, a \in Int, r \in Int, <1>2, <1>8, <1>9, CongruentProduct
<1>12. Congruent(q, a * r + b, a * p + b)
  BY ONLY q \in Nat \ {0}, b \in Int, <1>4, <1>9, <1>10, <1>11, CongruentSum
<1>13. a * r + b \in Int /\ a * p + b \in Int BY <1>4, <1>10
<1>14. Congruent(q, a * r + b, v) BY ONLY q \in Nat \ {0}, v \in Int, <1>6, <1>12, <1>13, CongruentChain
<1> QED BY <1>7, <1>14 DEF p

\* Horner's method computes the whole sum.
LEMMA ValueIs ==
  ASSUME NEW c \in Seq(Int), NEW x \in Int, NEW N \in Nat, Len(c) <= N,
         NEW w, ArePowers(w, x, N), NEW s, ArePartial(s, w, c)
  PROVE  ValueAt(c, x) \in Int /\ Congruent(mod, ValueAt(c, x), s[Len(c)])
<1> DEFINE n == Len(c)
<1>0. mod \in Nat \ {0} /\ n \in Nat BY ModNat DEF ModIs
<1>1. PICK g : /\ g[0] = 0 /\ g[n] = ValueAt(c, x)
               /\ \A k \in 0..(n - 1) : g[k + 1] = (c[n - k] + x * g[k]) % mod
  BY HornerRounds
<1>2. \A k \in 0..N : w[k] \in Int BY PowersAre
<1>3. \A k \in 0..n : s[k] \in Int BY <1>2, PartialAre
<1> DEFINE T == {k \in Nat : k <= n =>
                   g[k] \in Int /\ Congruent(mod, w[n - k] * g[k] + s[n - k], s[n])}
<1>4. 0 \in T
  <2>1. w[n] \in Int /\ s[n] \in Int BY <1>2, <1>3
  <2>2. w[n - 0] * g[0] + s[n - 0] = s[n] BY <1>0, <1>1, <2>1
  <2>3. Congruent(mod, s[n], s[n]) BY <1>0, <2>1, Congruence
  <2> QED BY <1>1, <2>2, <2>3
<1>5. ASSUME NEW k \in T PROVE k + 1 \in T
  <2>0. k \in Nat BY <1>5
  <2> SUFFICES ASSUME k + 1 <= n
               PROVE  /\ g[k + 1] \in Int
                      /\ Congruent(mod, w[n - (k + 1)] * g[k + 1] + s[n - (k + 1)], s[n])
    BY <2>0
  <2>1. g[k] \in Int /\ Congruent(mod, w[n - k] * g[k] + s[n - k], s[n]) BY <1>5, <2>0
  <2> DEFINE m == n - (k + 1)
             u == c[n - k]
             y == g[k]
  <2>2. m \in 0..(n - 1) /\ m \in 0..N /\ n - k = m + 1 /\ k \in 0..(n - 1) /\ n - k \in 1..n
        /\ m \in 0..(N - 1) /\ m \in 0..n /\ n \in 0..n
    BY <1>0, <2>0
  <2>3. g[k + 1] = (u + x * y) % mod /\ u \in Int /\ y \in Int BY <1>1, <2>1, <2>2
  <2>4. w[m + 1] = x * w[m] /\ w[m] \in Int BY <1>2, <2>2 DEF ArePowers
  <2>5. s[m + 1] = s[m] + w[m] * u /\ s[m] \in Int /\ s[n] \in Int
    <3>1. s[m + 1] = s[m] + w[m] * c[m + 1] BY <2>2 DEF ArePartial
    <3> QED BY <1>3, <2>2, <3>1
  <2>6. Congruent(mod, w[m + 1] * y + s[m + 1], s[n]) BY <2>1, <2>2
  <2>7. Congruent(mod, (x * w[m]) * y + (s[m] + w[m] * u), s[n]) BY <2>4, <2>5, <2>6
  <2> HIDE DEF m, u, y
  <2>8. Congruent(mod, w[m] * ((u + x * y) % mod) + s[m], s[n])
    BY ONLY <1>0, x \in Int, <2>3, <2>4, <2>5, <2>7, HornerStep
  <2>9. g[k + 1] \in Int
    <3>1. u + x * y \in Int BY <2>3, SMT
    <3> QED BY <1>0, <2>3, <3>1, Remainder, SMT
  <2> QED BY <2>3, <2>8, <2>9 DEF m
<1>t. T \in SUBSET Nat OBVIOUS
<1> HIDE DEF T
<1>6. T = Nat BY <1>t, <1>4, <1>5, InductionOnNat
<1>7. g[n] \in Int /\ Congruent(mod, w[n - n] * g[n] + s[n - n], s[n]) BY <1>0, <1>6 DEF T
<1>8. w[n - n] * g[n] + s[n - n] = g[n]
  <2>1. n - n = 0 /\ w[0] = 1 /\ s[0] = 0 BY <1>0 DEF ArePowers, ArePartial
  <2> QED BY <1>7, <2>1
<1> QED BY <1>1, <1>7, <1>8

\* The value, when no powers are given.
LEMMA ValueTyped ==
  ASSUME NEW c \in Seq(Int), NEW x \in Int
  PROVE  ValueAt(c, x) \in Int
<1>1. PICK N \in Nat : N = Len(c) /\ Len(c) <= N OBVIOUS
<1>2. PICK w : ArePowers(w, x, N) BY PowersExist
<1>3. PICK s : ArePartial(s, w, c)
  <2>1. Len(c) \in Nat OBVIOUS
  <2> QED BY ONLY <2>1, PartialExist
<1> QED BY <1>1, <1>2, <1>3, ValueIs

-----------------------------------------------------------------------------
(***************************************************************************)
(* The evaluations: each sum of terms is a difference of two partial sums. *)
(***************************************************************************)

\* A coefficient times a power.
LEMMA TermIs ==
  ASSUME NEW p \in Nat, powers[p].exp = p, NEW c \in Int, NEW x \in Int,
         NEW N \in Nat \ {0}, 2 * p <= N, NEW w, ArePowers(w, x, N)
  PROVE  Term(p, c, x) \in Int /\ Congruent(mod, Term(p, c, x), w[p] * c)
<1> DEFINE e == ExponentiateArray(x, p)
<1>0. mod \in Nat \ {0} BY ModNat DEF ModIs
<1>1. e \in Int /\ Congruent(mod, e, w[p]) BY ExponentiateIs
<1>2. w[p] \in Int
  <2>1. p \in 0..N OBVIOUS
  <2> QED BY <2>1, PowersAre
<1>3. Congruent(mod, c, c) BY <1>0, Congruence
<1> HIDE DEF e
<1>4. e * c \in Int /\ w[p] * c \in Int BY <1>1, <1>2, SMT
<1>5. Congruent(mod, e * c, w[p] * c) BY ONLY <1>0, <1>1, <1>2, <1>3, c \in Int, CongruentProduct
<1>6. (e * c) % mod \in Int /\ Congruent(mod, (e * c) % mod, w[p] * c)
  BY ONLY <1>0, <1>4, <1>5, CongruentRemainder
<1> QED BY <1>6 DEF Term, e

\* A multiple of a sum, term by term: t is what it comes to.
LEMMA SumOfIs ==
  ASSUME NEW a \in Int, NEW n \in Nat, NEW f, DOMAIN f = 1..n, \A k \in 1..n : f[k] \in Int,
         NEW t, \A k \in 0..n : t[k] \in Int, t[0] = 0,
         \A k \in 0..(n - 1) : Congruent(mod, t[k + 1], t[k] + a * f[k + 1])
  PROVE  SumOf(f) \in Int /\ Congruent(mod, a * SumOf(f), t[n])
<1> DEFINE u == SumFunctionOnSet(f, 1..n)
<1>0. mod \in Nat \ {0} BY ModNat DEF ModIs
<1>1. u \in Int
  <2>1. IsFiniteSet(1..n) BY FS_Interval
  <2> QED BY <2>1, SumFacts
<1>2. Congruent(mod, a * u, t[n])
  <2> HIDE DEF u
  <2> QED BY ONLY <1>0, a \in Int, n \in Nat, \A k \in 1..n : f[k] \in Int,
        \A k \in 0..n : t[k] \in Int, t[0] = 0,
        \A k \in 0..(n - 1) : Congruent(mod, t[k + 1], t[k] + a * f[k + 1]), SumCongruent DEF u
<1>3. SumOf(f) = u % mod BY DEF SumOf
<1> HIDE DEF u
<1>4. u % mod \in Int /\ Congruent(mod, u % mod, u)
  <2>1. Congruent(mod, u, u) BY <1>0, <1>1, Congruence
  <2> QED BY ONLY <1>0, <1>1, <2>1, CongruentRemainder
<1> DEFINE r == u % mod
<1>5. r \in Int /\ Congruent(mod, r, u) BY <1>4
<1> HIDE DEF r
<1>6. Congruent(mod, a, a) BY <1>0, Congruence
<1>7. Congruent(mod, a * r, a * u) BY ONLY <1>0, a \in Int, <1>1, <1>5, <1>6, CongruentProduct
<1>8. a * r \in Int /\ a * u \in Int /\ t[n] \in Int BY <1>1, <1>5, SMT
<1>9. Congruent(mod, a * r, t[n]) BY ONLY <1>0, <1>2, <1>7, <1>8, CongruentChain
<1> QED BY <1>3, <1>5, <1>9 DEF r

\* The terms of consecutive coefficients, times the power that is missing.
LEMMA RunOfTerms ==
  ASSUME NEW c \in Seq(Int), NEW x \in Int, NEW h \in Nat, NEW last \in Nat,
         h + last + 1 <= Len(c), \A j \in 1..last : powers[j].exp = j,
         NEW N \in Nat \ {0}, 2 * Len(c) <= N, NEW w, ArePowers(w, x, N),
         NEW s, ArePartial(s, w, c)
  PROVE  LET value == SumOf([j \in 1..last |-> Term(j, c[h + j + 1], x)])
         IN  value \in Int /\ Congruent(mod, w[h] * value, s[h + last + 1] - s[h + 1])
<1> DEFINE f == [j \in 1..last |-> Term(j, c[h + j + 1], x)]
           t == [k \in 0..last |-> s[h + k + 1] - s[h + 1]]
<1>0. mod \in Nat \ {0} BY ModNat DEF ModIs
<1>n. PICK n \in Nat : n = Len(c) OBVIOUS
<1>2. /\ \A k \in 0..N : w[k] \in Int
      /\ \A k, l \in 0..N : k + l <= N => w[k + l] = w[k] * w[l]
  BY ONLY x \in Int, N \in Nat, ArePowers(w, x, N), PowersAre
<1>3. \A k \in 0..n : s[k] \in Int
  <2>1. \A k \in 0..(Len(c) - 1) : w[k] \in Int BY <1>n, <1>2
  <2> QED BY <1>n, <2>1, PartialAre
<1>4. h + last + 1 <= n /\ 2 * n <= N /\ h \in 0..N BY <1>n
<1>w. w[h] \in Int BY <1>2, <1>4
<1>5. \A k \in 0..last : t[k] \in Int
  <2> SUFFICES ASSUME NEW k \in 0..last PROVE s[h + k + 1] - s[h + 1] \in Int OBVIOUS
  <2>1. h + k + 1 \in 0..n /\ h + 1 \in 0..n BY ONLY <1>4, h \in Nat, k \in 0..last, last \in Nat, n \in Nat
  <2>2. s[h + k + 1] \in Int /\ s[h + 1] \in Int BY <1>3, <2>1
  <2> QED BY <2>2
<1>6. t[0] = 0
  <2>1. h + 1 \in 0..n BY ONLY <1>4, h \in Nat, last \in Nat, n \in Nat
  <2>2. s[h + 1] \in Int BY <1>3, <2>1
  <2>3. h + 0 + 1 = h + 1 OBVIOUS
  <2> QED BY <2>2, <2>3
<1>7. ASSUME NEW j \in 1..last
      PROVE  f[j] \in Int /\ c[h + j + 1] \in Int /\ Congruent(mod, f[j], w[j] * c[h + j + 1])
  <2>1. h + j + 1 \in 1..n /\ j \in Nat /\ 2 * j <= N
    BY ONLY <1>4, h \in Nat, j \in 1..last, last \in Nat, n \in Nat, N \in Nat
  <2>2. c[h + j + 1] \in Int BY <1>n, <2>1
  <2>3. f[j] = Term(j, c[h + j + 1], x) OBVIOUS
  <2>4. powers[j].exp = j OBVIOUS
  <2> HIDE DEF f
  <2>5. Term(j, c[h + j + 1], x) \in Int
        /\ Congruent(mod, Term(j, c[h + j + 1], x), w[j] * c[h + j + 1])
    BY ONLY <2>1, <2>2, <2>4, x \in Int, N \in Nat \ {0}, ArePowers(w, x, N), TermIs
  <2> QED BY <2>2, <2>3, <2>5
<1>8. ASSUME NEW k \in 0..(last - 1)
      PROVE  Congruent(mod, t[k + 1], t[k] + w[h] * f[k + 1])
  <2>1. k + 1 \in 1..last /\ k \in 0..last /\ k + 1 \in 0..last /\ k + 1 \in 0..N /\ h \in 0..N
        /\ h + (k + 1) \in 0..(n - 1) /\ h + (k + 1) <= N /\ h + (k + 1) \in 0..n /\ h + 1 \in 0..n
        /\ h + k + 1 = h + (k + 1)
    BY ONLY <1>4, h \in Nat, k \in 0..(last - 1), last \in Nat, n \in Nat, N \in Nat
  <2>t. t[k + 1] = s[h + (k + 1) + 1] - s[h + 1] /\ t[k] = s[h + (k + 1)] - s[h + 1] BY <2>1
  <2>2. PICK y \in Int : y = c[h + (k + 1) + 1] BY <1>7, <2>1
  <2>3. PICK z \in Int : z = f[k + 1] BY <1>7, <2>1
  <2>4. PICK v \in Int : v = w[k + 1] BY <1>2, <2>1
  <2>5. PICK a \in Int : a = w[h] BY <1>w
  <2>6. PICK p \in Int : p = s[h + (k + 1)] BY <1>3, <2>1
  <2>7. PICK r \in Int : r = s[h + 1] BY <1>3, <2>1
  <2>8. Congruent(mod, z, v * y) BY <1>7, <2>1, <2>2, <2>3, <2>4
  <2>9. s[h + (k + 1) + 1] = p + (a * v) * y
    <3>1. s[h + (k + 1) + 1] = s[h + (k + 1)] + w[h + (k + 1)] * c[h + (k + 1) + 1]
      BY <1>n, <2>1 DEF ArePartial
    <3>2. w[h + (k + 1)] = w[h] * w[k + 1] BY <1>2, <2>1
    <3> QED BY <2>2, <2>4, <2>5, <2>6, <3>1, <3>2
  <2>10. t[k + 1] = (p + (a * v) * y) - r /\ t[k] = p - r BY <2>t, <2>6, <2>7, <2>9
  <2> HIDE DEF t, f
  <2>11. PICK b \in Int : b = v * y BY SMT
  <2>12. (a * v) * y = a * b /\ a * b \in Int /\ a * z \in Int BY <2>11, SMT
  <2>13. Congruent(mod, a, a) /\ Congruent(mod, p - r, p - r)
    <3>1. PICK d \in Int : d = p - r OBVIOUS
    <3>2. Congruent(mod, a, a) /\ Congruent(mod, d, d) BY ONLY <1>0, a \in Int, d \in Int, Congruence
    <3> QED BY <3>1, <3>2
  <2>14. Congruent(mod, a * z, a * b)
    BY ONLY <1>0, a \in Int, z \in Int, b \in Int, <2>8, <2>11, <2>13, CongruentProduct
  <2>15. Congruent(mod, (p - r) + a * z, (p - r) + a * b)
    BY ONLY <1>0, p - r \in Int, <2>12, <2>13, <2>14, CongruentSum
  <2>16. (p - r) + a * z \in Int /\ (p - r) + a * b \in Int BY <2>12
  <2>17. Congruent(mod, (p - r) + a * b, (p - r) + a * z)
    BY ONLY <1>0, <2>15, <2>16, Congruence
  <2>18. (p + a * b) - r = (p - r) + a * b BY <2>12
  <2> QED BY <2>3, <2>5, <2>10, <2>12, <2>17, <2>18
<1>9. DOMAIN f = 1..last OBVIOUS
<1>10. t[last] = s[h + last + 1] - s[h + 1] OBVIOUS
<1>11. \A j \in 1..last : f[j] \in Int BY <1>7
<1> HIDE DEF f, t
<1>12. SumOf(f) \in Int /\ Congruent(mod, w[h] * SumOf(f), t[last])
  BY ONLY last \in Nat, <1>w, <1>5, <1>6, <1>8, <1>9, <1>11, SumOfIs
<1> QED BY <1>10, <1>12 DEF f

\* The inner polynomial at high power i, times that power: the terms of its
\* coefficients without the first.
LEMMA InnerIs ==
  ASSUME NEW c \in Seq(Int), NEW x \in Int, NEW i \in Nat, NEW last \in Nat,
         i * HighDegree + last + 1 <= Len(c), \A j \in 1..last : powers[j].exp = j,
         NEW N \in Nat \ {0}, 2 * Len(c) <= N, NEW w, ArePowers(w, x, N),
         NEW s, ArePartial(s, w, c)
  PROVE  /\ Inner(c, i, last, x) \in Int
         /\ Congruent(mod, w[i * HighDegree] * Inner(c, i, last, x),
                      s[i * HighDegree + last + 1] - s[i * HighDegree + 1])
<1>0. HighDegree \in Nat \ {0} BY LowDegreeAssumption DEF HighDegree
<1>1. PICK h \in Nat : h = i * HighDegree BY <1>0, SMT
<1>2. Inner(c, i, last, x) = SumOf([j \in 1..last |-> Term(j, c[h + j + 1], x)])
  BY <1>1 DEF Inner
<1>3. h + last + 1 <= Len(c) BY <1>1
<1>4. LET value == SumOf([j \in 1..last |-> Term(j, c[h + j + 1], x)])
      IN  value \in Int /\ Congruent(mod, w[h] * value, s[h + last + 1] - s[h + 1])
  BY ONLY <1>3, c \in Seq(Int), x \in Int, h \in Nat, last \in Nat,
     \A j \in 1..last : powers[j].exp = j, N \in Nat \ {0}, 2 * Len(c) <= N, ArePowers(w, x, N),
     ArePartial(s, w, c), RunOfTerms
<1> QED BY <1>1, <1>2, <1>4

\* eval(): every term but the constant one.
LEMMA EvalPolynIs ==
  ASSUME NEW c \in Seq(Int), c # <<>>, NEW x \in Int, \A j \in 1..(Len(c) - 1) : powers[j].exp = j,
         NEW N \in Nat \ {0}, 2 * Len(c) <= N, NEW w, ArePowers(w, x, N),
         NEW s, ArePartial(s, w, c)
  PROVE  /\ EvalPolyn(c, x) \in Int
         /\ Congruent(mod, EvalPolyn(c, x), s[Len(c)] - s[1])
<1> DEFINE last == Len(c) - 1
           f == [j \in 1..last |-> Term(j, c[0 + j + 1], x)]
<1>0. last \in Nat /\ 0 \in Nat /\ 0 + last + 1 <= Len(c) /\ 0 + last + 1 = Len(c) OBVIOUS
<1>1. EvalPolyn(c, x) = SumOf(f)
  <2>1. f = [j \in 1..last |-> Term(j, c[j + 1], x)] OBVIOUS
  <2> QED BY <2>1 DEF EvalPolyn
<1> HIDE DEF last
<1>2. LET value == SumOf([j \in 1..last |-> Term(j, c[0 + j + 1], x)])
      IN  value \in Int /\ Congruent(mod, w[0] * value, s[0 + last + 1] - s[0 + 1])
  <2>1. \A j \in 1..last : powers[j].exp = j BY DEF last
  <2> QED BY ONLY <1>0, <2>1, c \in Seq(Int), x \in Int,
     N \in Nat \ {0}, 2 * Len(c) <= N, ArePowers(w, x, N), ArePartial(s, w, c), RunOfTerms
<1>3. w[0] = 1 /\ 0 + 1 = 1 BY DEF ArePowers
<1> HIDE DEF f
<1>4. SumOf(f) \in Int /\ Congruent(mod, w[0] * SumOf(f), s[Len(c)] - s[1])
  BY <1>0, <1>2, <1>3 DEF f
<1>5. w[0] * SumOf(f) = SumOf(f) BY <1>3, <1>4
<1> QED BY <1>1, <1>4, <1>5

\* Two sums, term by term.
LEMMA SumOfTwo ==
  ASSUME NEW n \in Nat, NEW f, DOMAIN f = 1..n, \A k \in 1..n : f[k] \in Int,
         NEW g, DOMAIN g = 1..n, \A k \in 1..n : g[k] \in Int,
         NEW t, \A k \in 0..n : t[k] \in Int, t[0] = 0,
         \A k \in 0..(n - 1) : Congruent(mod, t[k + 1], t[k] + (f[k + 1] + g[k + 1]))
  PROVE  /\ SumOf(f) \in Int /\ SumOf(g) \in Int
         /\ Congruent(mod, SumOf(f) + SumOf(g), t[n])
<1>0. mod \in Nat \ {0} BY ModNat DEF ModIs
<1> DEFINE G == [k \in 0..n |-> SumFunctionOnSet(g, 1..k)]
           u == [k \in 0..n |-> t[k] - G[k]]
<1>1. \A k \in 0..n : SumFunctionOnSet(g, 1..k) \in Int
  <2> SUFFICES ASSUME NEW k \in 0..n PROVE SumFunctionOnSet(g, 1..k) \in Int OBVIOUS
  <2>1. k \in Nat /\ 0 \in Int /\ k \in Int /\ 1 \in Int
        /\ \A j \in 1..k : j \in 1..n
    BY ONLY n \in Nat, k \in 0..n
  <2>2. IsFiniteSet(1..k) BY <2>1, FS_Interval
  <2>3. \A j \in 1..k : g[j] \in Int BY <2>1
  <2> QED BY <2>2, <2>3, SumFacts
<1>2. G[0] = 0
  <2>1. 1..0 = {} /\ IsFiniteSet({}) BY FS_EmptySet
  <2>2. SumFunctionOnSet(g, {}) = 0 BY <2>1, SumFacts
  <2> QED BY <2>1, <2>2
<1>3. ASSUME NEW k \in 0..(n - 1) PROVE G[k + 1] = g[k + 1] + G[k]
  <2>0. k + 1 \in Int /\ 1 \in Int /\ (\A j \in 1..(k + 1) : j \in 1..n)
        /\ k \in 0..n /\ k + 1 \in 0..n
    BY ONLY n \in Nat, k \in 0..(n - 1)
  <2>1. IsFiniteSet(1..(k + 1)) BY <2>0, FS_Interval
  <2>3. \A j \in 1..(k + 1) : g[j] \in Int BY <2>0
  <2>2. (1..(k + 1)) \ {k + 1} = 1..k /\ k + 1 \in 1..(k + 1)
    BY ONLY n \in Nat, k \in 0..(n - 1)
  <2>4. SumFunctionOnSet(g, 1..(k + 1)) = g[k + 1] + SumFunctionOnSet(g, (1..(k + 1)) \ {k + 1})
    BY <2>1, <2>2, <2>3, SumFacts
  <2> QED BY <2>0, <2>2, <2>4
<1>4. \A k \in 0..n : G[k] \in Int BY <1>1
<1>5. SumOf(g) = G[n] % mod BY DEF SumOf
<1> HIDE DEF G
<1>6. \A k \in 0..n : u[k] \in Int BY <1>4
<1>7. u[0] = 0 BY <1>2
<1>8. ASSUME NEW k \in 0..(n - 1) PROVE Congruent(mod, u[k + 1], u[k] + 1 * f[k + 1])
  <2>1. k \in 0..n /\ k + 1 \in 0..n /\ k + 1 \in 1..n OBVIOUS
  <2>2. PICK a \in Int, b \in Int, x \in Int, y \in Int, d \in Int, e \in Int :
          a = t[k] /\ b = t[k + 1] /\ x = f[k + 1] /\ y = g[k + 1] /\ d = G[k] /\ e = G[k + 1]
    BY <1>4, <2>1
  <2>3. e = y + d /\ Congruent(mod, b, a + (x + y)) BY <1>3, <2>2
  <2>4. PICK m \in Int : m = -e BY <2>2
  <2>5. Congruent(mod, m, m) BY ONLY <1>0, m \in Int, Congruence
  <2>6. PICK z \in Int : z = a + (x + y) BY <2>2
  <2>7. Congruent(mod, b, z) BY <2>3, <2>6
  <2>8. Congruent(mod, b + m, z + m)
    BY ONLY <1>0, b \in Int, z \in Int, m \in Int, <2>5, <2>7, CongruentSum
  <2>9. b + m = u[k + 1] /\ z + m = u[k] + 1 * f[k + 1]
    <3>1. u[k + 1] = b - e /\ u[k] = a - d BY <2>1, <2>2
    <3> HIDE DEF u
    <3>2. 1 * f[k + 1] = x BY <2>2
    <3>3. b + m = b - e /\ z + m = (a - d) + x
      BY ONLY <2>2, <2>3, <2>4, <2>6, a \in Int, b \in Int, x \in Int, y \in Int, d \in Int,
         e \in Int, m \in Int, z \in Int
    <3> QED BY <3>1, <3>2, <3>3
  <2> QED BY <2>8, <2>9
<1>9. u[n] = t[n] - G[n] OBVIOUS
<1> HIDE DEF u
<1>10. SumOf(f) \in Int /\ Congruent(mod, 1 * SumOf(f), u[n])
  <2>1. 1 \in Int OBVIOUS
  <2> QED BY ONLY <2>1, n \in Nat, DOMAIN f = 1..n, \A k \in 1..n : f[k] \in Int,
        <1>6, <1>7, <1>8, SumOfIs
<1>11. PICK p \in Int, r \in Int, v \in Int : p = SumOf(f) /\ r = G[n] /\ v = u[n]
  BY <1>4, <1>6, <1>10
<1>12. 1 * p = p OBVIOUS
<1>13. Congruent(mod, p, v) BY <1>10, <1>11, <1>12
<1>14. Congruent(mod, r, r) BY ONLY <1>0, r \in Int, Congruence
<1>15. r % mod \in Int /\ Congruent(mod, r % mod, r) BY ONLY <1>0, r \in Int, <1>14, CongruentRemainder
<1>16. Congruent(mod, p + (r % mod), v + r)
  BY ONLY <1>0, p \in Int, v \in Int, r \in Int, <1>13, <1>15, CongruentSum
<1>17. v + r = t[n]
  <2>1. t[n] \in Int OBVIOUS
  <2> QED BY <1>9, <1>11, <2>1
<1> QED BY <1>5, <1>11, <1>15, <1>16, <1>17

\* eval_patstock(): the same terms, split by the high powers.
LEMMA EvalPatstockIs ==
  ASSUME NEW c \in Seq(Int), NEW x \in Int, LowDegree < Len(c) - 1,
         \A j \in 1..LowDegree : powers[j].exp = j,
         \A i \in HighPowers(Len(c) - 1) : powers[i * HighDegree].exp = i * HighDegree,
         NEW N \in Nat \ {0}, 2 * Len(c) <= N, NEW w, ArePowers(w, x, N),
         NEW s, ArePartial(s, w, c)
  PROVE  /\ EvalPatstock(c, x) \in Int
         /\ Congruent(mod, EvalPatstock(c, x), s[Len(c)] - s[1])
<1>0. mod \in Nat \ {0} /\ LowDegree \in Nat BY ModNat, LowDegreeAssumption DEF ModIs
<1>H. PICK H \in Nat \ {0} : H = HighDegree /\ H = LowDegree + 1 BY <1>0 DEF HighDegree
<1>n. PICK n \in Nat : n = Len(c) OBVIOUS
<1>d. PICK degree \in Nat : degree = n - 1 /\ degree + 1 = n /\ LowDegree < degree BY <1>0, <1>n
<1>q. PICK q \in Nat, r \in Nat :
        q = degree \div H /\ r = degree % H /\ r < H /\ degree = H * q + r
  <2> DEFINE q == degree \div H
             r == degree % H
  <2>1. q \in Int /\ r \in 0..(H - 1) /\ degree = H * q + r
    BY ONLY H \in Nat \ {0}, degree \in Int, Remainder
  <2> HIDE DEF q, r
  <2>2. q >= 0
    <3>1. ASSUME q <= -1 PROVE FALSE
      <4>1. H * q <= H * (-1) BY <2>1, <3>1, SMT
      <4>2. H * q \in Int BY <2>1, SMT
      <4> QED BY <2>1, <4>1, <4>2
    <3> QED BY <2>1, <3>1
  <2> QED BY <2>1, <2>2 DEF q, r
<1>1. q >= 1
  <2>1. CASE q = 0
    <3>1. H * q = 0 BY <2>1
    <3> QED BY <1>0, <1>H, <1>d, <1>q, <3>1
  <2> QED BY <1>q, <2>1
<1>2. ASSUME NEW i \in 0..q
      PROVE  /\ H * i \in Nat /\ H * i + 1 <= n /\ H * (i + 1) = H * i + H
             /\ (i < q => H * (i + 1) <= n)
  <2>1. H * i \in Nat BY SMT
  <2>2. H * q >= H * i /\ H * q \in Nat BY SMT
  <2>3. H * (i + 1) = H * i + H BY SMT
  <2>4. i < q => H * q >= H * (i + 1)
    <3> SUFFICES ASSUME i < q PROVE H * q >= H * (i + 1) OBVIOUS
    <3>1. PICK j \in Nat : j = i + 1 /\ j <= q BY <1>q
    <3>2. H * q >= H * j BY <3>1, SMT
    <3> QED BY <3>1, <3>2
  <2>5. PICK a \in Nat, b \in Nat, e \in Nat : a = H * i /\ b = H * q /\ e = H * (i + 1)
    BY <2>1, <2>2, <2>3, SMT
  <2>6. b >= a /\ e = a + H /\ (i < q => b >= e) /\ degree = b + r /\ degree + 1 = n
    BY <2>2, <2>3, <2>4, <2>5, <1>q, <1>d
  <2>7. a + 1 <= n /\ (i < q => e <= n) BY ONLY <2>6, a \in Nat, b \in Nat, e \in Nat, r \in Nat, n \in Nat, degree \in Nat
  <2> QED BY <2>5, <2>6, <2>7
<1> DEFINE E == [k \in 0..q |-> IF k < q THEN s[H * (k + 1)] ELSE s[n]]
           t == [k \in 0..q |-> E[k] - E[0]]
           f == [i \in HighPowers(n - 1) |->
                   Term(i * HighDegree, Inner(c, i, LastLow(i, n - 1), x), x)]
           g == [i \in HighPowers(n - 1) |-> Term(i * HighDegree, c[i * HighDegree + 1], x)]
<1>s. \A k \in 0..n : s[k] \in Int
  <2>1. \A k \in 0..N : w[k] \in Int BY PowersAre
  <2>2. \A k \in 0..(Len(c) - 1) : w[k] \in Int BY ONLY <1>n, <2>1, 2 * Len(c) <= N, N \in Nat
  <2> QED BY ONLY c \in Seq(Int), <1>n, <2>2, ArePartial(s, w, c), PartialAre
<1>3. HighPowers(n - 1) = 1..q BY <1>H, <1>d, <1>q DEF HighPowers
<1>4. \A k \in 0..q : E[k] \in Int
  <2> SUFFICES ASSUME NEW k \in 0..q PROVE E[k] \in Int OBVIOUS
  <2>1. CASE k < q
    <3>1. PICK e \in Int, a \in Nat : e = H * (k + 1) /\ a = H * k BY <1>2, SMT
    <3>2. e = a + H /\ e <= n BY <1>2, <2>1, <3>1
    <3>3. H * (k + 1) \in 0..n BY <3>1, <3>2
    <3> QED BY <1>s, <2>1, <3>3
  <2>2. CASE ~ (k < q)
    <3>1. s[n] \in Int BY <1>s
    <3> QED BY <2>2, <3>1
  <2> QED BY <2>1, <2>2
<1>5. ASSUME NEW k \in 0..(q - 1)
      PROVE  /\ f[k + 1] \in Int /\ g[k + 1] \in Int
             /\ Congruent(mod, E[k + 1], E[k] + (f[k + 1] + g[k + 1]))
  <2>1. PICK i \in Nat : i = k + 1 OBVIOUS
  <2>2. i \in 1..q /\ i \in 0..q /\ k < q /\ k \in 0..q BY <1>q, <2>1
  <2>3. PICK h \in Nat : h = i * HighDegree /\ h = H * i
    <3>1. H * i = i * H BY ONLY i \in Nat, H \in Nat \ {0}, SMT
    <3> QED BY <1>H, <1>2, <2>2, <3>1
  <2>4. h + 1 <= n /\ H * (i + 1) = h + H /\ (i < q => h + H <= n) BY <1>2, <2>2, <2>3
  <2>5. E[k] = s[h] BY <2>1, <2>2, <2>3
  <2>6. PICK last \in Nat : last = LastLow(i, n - 1) /\ h + last + 1 <= n
                            /\ E[i] = s[h + last + 1] /\ last <= LowDegree
    <3>1. CASE i < q
      <4>1. LastLow(i, n - 1) = LowDegree BY <1>H, <1>d, <1>q, <3>1 DEF LastLow
      <4>2. E[i] = s[H * (i + 1)] BY <2>2, <3>1
      <4>3. h + LowDegree + 1 = h + H BY <1>0, <1>H
      <4>4. h + LowDegree + 1 <= n /\ E[i] = s[h + LowDegree + 1] BY <2>4, <3>1, <4>2, <4>3
      <4>5. LowDegree \in Nat /\ LowDegree <= LowDegree BY ONLY <1>0
      <4> HIDE DEF E
      <4> QED BY ONLY <4>1, <4>4, <4>5, Zenon
    <3>2. CASE i = q
      <4>1. LastLow(i, n - 1) = r BY <1>H, <1>d, <1>q, <3>2 DEF LastLow
      <4>2. E[i] = s[n] BY <2>2, <3>2
      <4>3. h + r + 1 = n
        <5>1. h + r = degree BY <1>q, <2>3, <3>2
        <5> QED BY <1>d, <5>1
      <4>4. r \in Nat /\ h + r + 1 <= n /\ E[i] = s[h + r + 1] /\ r <= LowDegree
        <5>1. E[i] = s[h + r + 1] /\ h + r + 1 <= n
          <6> HIDE DEF E
          <6> QED BY <4>2, <4>3
        <5>2. r <= LowDegree BY <1>0, <1>H, <1>q
        <5> QED BY <5>1, <5>2
      <4> HIDE DEF E
      <4> QED BY <4>1, <4>4
    <3> QED BY <2>2, <3>1, <3>2
  <2>7. PICK v \in Int : v = Inner(c, i, last, x)
        /\ Congruent(mod, w[h] * v, s[h + last + 1] - s[h + 1])
    <3>1. i * HighDegree + last + 1 <= Len(c) BY <1>n, <2>3, <2>6
    <3>2. \A j \in 1..last : powers[j].exp = j
      <4> SUFFICES ASSUME NEW j \in 1..last PROVE j \in 1..LowDegree OBVIOUS
      <4> QED BY ONLY <1>0, <2>6, last \in Nat, j \in 1..last
    <3>3. /\ Inner(c, i, last, x) \in Int
          /\ Congruent(mod, w[i * HighDegree] * Inner(c, i, last, x),
                       s[i * HighDegree + last + 1] - s[i * HighDegree + 1])
      BY ONLY <3>1, <3>2, c \in Seq(Int), x \in Int, i \in Nat, last \in Nat,
         N \in Nat \ {0}, 2 * Len(c) <= N, ArePowers(w, x, N), ArePartial(s, w, c), InnerIs
    <3> QED BY <2>3, <3>3
  <2>8. c[h + 1] \in Int
    <3>1. h + 1 \in 1..Len(c) BY <1>n, <2>4
    <3> QED BY <3>1
  <2>9. 2 * h <= N /\ powers[h].exp = h /\ h \in 0..N /\ h \in 0..(n - 1) /\ h + 1 \in 0..n
        /\ h \in 0..n /\ h + last + 1 \in 0..n
    <3>1. i \in HighPowers(Len(c) - 1) BY <1>n, <1>3, <2>2
    <3>2. powers[h].exp = h BY <2>3, <3>1
    <3>3. 2 * n <= N BY <1>n
    <3>4. h + 1 <= n /\ h + last + 1 <= n BY ONLY <2>4, <2>6
    <3>5. /\ 2 * h <= N /\ h \in 0..N /\ h \in 0..(n - 1) /\ h + 1 \in 0..n
          /\ h \in 0..n /\ h + last + 1 \in 0..n
      BY ONLY <3>3, <3>4, h \in Nat, n \in Nat, N \in Nat, last \in Nat
    <3> QED BY ONLY <3>2, <3>5
  <2>w. PICK a \in Int : a = w[h]
    <3>1. \A j \in 0..N : w[j] \in Int BY PowersAre
    <3> QED BY <2>9, <3>1
  <2>y. PICK y \in Int : y = c[h + 1] BY <2>8
  <2>F. PICK F \in Int : F = Term(h, v, x) /\ Congruent(mod, F, a * v)
    BY ONLY <2>9, <2>w, h \in Nat, v \in Int, x \in Int, N \in Nat \ {0}, ArePowers(w, x, N), TermIs
  <2>G. PICK K \in Int : K = Term(h, y, x) /\ Congruent(mod, K, a * y)
    BY ONLY <2>9, <2>w, h \in Nat, y \in Int, x \in Int, N \in Nat \ {0}, ArePowers(w, x, N), TermIs
  <2>10. f[k + 1] = F /\ g[k + 1] = K
    <3>1. i \in HighPowers(n - 1) BY <1>3, <2>2
    <3>2. f[i] = F BY <2>3, <2>6, <2>7, <2>F, <3>1
    <3>3. g[i] = K BY <2>3, <2>y, <2>G, <3>1
    <3> QED BY <2>1, <3>2, <3>3
  <2>11. PICK b \in Int, d \in Int, e \in Int : b = s[h] /\ d = s[h + 1] /\ e = s[h + last + 1]
    BY <1>s, <2>9
  <2>12. d = b + a * y
    <3>1. h \in 0..(Len(c) - 1) BY <1>n, <2>9
    <3> QED BY <2>w, <2>y, <2>11, <3>1 DEF ArePartial
  <2>13. PICK p \in Int, m \in Int : p = a * y /\ m = a * v BY SMT
  <2>14. Congruent(mod, m, e - d) BY <2>7, <2>w, <2>11, <2>13
  <2>15. PICK z \in Int : z = e - d OBVIOUS
  <2>16. Congruent(mod, F, z)
    BY ONLY <1>0, F \in Int, m \in Int, z \in Int, <2>F, <2>13, <2>14, <2>15, CongruentChain
  <2>17. Congruent(mod, K, p) BY <2>G, <2>13
  <2>18. Congruent(mod, F + K, z + p)
    BY ONLY <1>0, F \in Int, K \in Int, z \in Int, p \in Int, <2>16, <2>17, CongruentSum
  <2>19. PICK o \in Int, u \in Int : o = F + K /\ u = z + p OBVIOUS
  <2>20. Congruent(mod, b, b) BY ONLY <1>0, b \in Int, Congruence
  <2>21. Congruent(mod, b + o, b + u)
    BY ONLY <1>0, b \in Int, o \in Int, u \in Int, <2>18, <2>19, <2>20, CongruentSum
  <2>22. b + u = e BY <2>12, <2>13, <2>15, <2>19
  <2>23. Congruent(mod, b + o, e) BY <2>21, <2>22
  <2>24. PICK l \in Int : l = b + o OBVIOUS
  <2>25. Congruent(mod, e, l) BY ONLY <1>0, e \in Int, l \in Int, <2>23, <2>24, Congruence
  <2>26. E[k + 1] = e /\ E[k] = b BY <2>1, <2>5, <2>6, <2>11
  <2> HIDE DEF E, f, g
  <2> QED BY <2>10, <2>19, <2>24, <2>25, <2>26
<1> HIDE DEF E
<1>6. \A k \in 0..q : t[k] \in Int
  <2>1. E[0] \in Int BY <1>4
  <2> QED BY <1>4, <2>1
<1>7. t[0] = 0
  <2>1. E[0] \in Int BY <1>4
  <2> QED BY <2>1
<1>8. ASSUME NEW k \in 0..(q - 1)
      PROVE  Congruent(mod, t[k + 1], t[k] + (f[k + 1] + g[k + 1]))
  <2>1. k \in 0..q /\ k + 1 \in 0..q /\ 0 \in 0..q OBVIOUS
  <2>2. PICK a \in Int, b \in Int, d \in Int : a = E[k] /\ b = E[k + 1] /\ d = E[0]
    BY <1>4, <2>1
  <2>3. PICK o \in Int : o = f[k + 1] + g[k + 1]
    <3> HIDE DEF f, g, t
    <3>1. f[k + 1] \in Int /\ g[k + 1] \in Int BY <1>5
    <3> QED BY <3>1
  <2>4. Congruent(mod, b, a + o) BY <1>5, <2>2, <2>3
  <2>5. PICK m \in Int, z \in Int : m = -d /\ z = a + o OBVIOUS
  <2>6. Congruent(mod, m, m) BY ONLY <1>0, m \in Int, Congruence
  <2>7. Congruent(mod, b + m, z + m)
    BY ONLY <1>0, b \in Int, z \in Int, m \in Int, <2>4, <2>5, <2>6, CongruentSum
  <2>8. t[k + 1] = b - d /\ t[k] = a - d BY <2>1, <2>2
  <2> HIDE DEF t
  <2>9. b + m = b - d /\ z + m = (a - d) + o BY <2>5
  <2> QED BY <2>3, <2>7, <2>8, <2>9
<1>9. t[q] = E[q] - E[0] OBVIOUS
<1>10. DOMAIN f = 1..q /\ DOMAIN g = 1..q BY <1>3
<1>11. \A k \in 1..q : f[k] \in Int /\ g[k] \in Int
  <2> SUFFICES ASSUME NEW k \in 1..q PROVE f[k] \in Int /\ g[k] \in Int OBVIOUS
  <2>1. PICK j \in 0..(q - 1) : k = j + 1
    <3>1. k - 1 \in 0..(q - 1) /\ k = (k - 1) + 1 OBVIOUS
    <3> QED BY <3>1
  <2> QED BY <1>5, <2>1
<1>12. Inner(c, 0, LowDegree, x) \in Int
       /\ Congruent(mod, Inner(c, 0, LowDegree, x), s[H] - s[1])
  <2>1. 0 * HighDegree = 0 /\ 0 * HighDegree + LowDegree + 1 = H /\ H <= n
    BY <1>0, <1>H, <1>d
  <2>2. /\ Inner(c, 0, LowDegree, x) \in Int
        /\ Congruent(mod, w[0 * HighDegree] * Inner(c, 0, LowDegree, x),
                     s[0 * HighDegree + LowDegree + 1] - s[0 * HighDegree + 1])
    <3>1. 0 * HighDegree + LowDegree + 1 <= Len(c) BY <1>n, <2>1
    <3>2. 0 \in Nat /\ LowDegree \in Nat BY <1>0
    <3> QED BY ONLY <3>1, <3>2, \A j \in 1..LowDegree : powers[j].exp = j, c \in Seq(Int), x \in Int,
         N \in Nat \ {0}, 2 * Len(c) <= N, ArePowers(w, x, N), ArePartial(s, w, c), InnerIs
  <2>3. w[0] = 1 /\ 0 + 1 = 1 BY DEF ArePowers
  <2>4. w[0] * Inner(c, 0, LowDegree, x) = Inner(c, 0, LowDegree, x) BY <2>2, <2>3
  <2> QED BY <2>1, <2>2, <2>3, <2>4
<1>13. E[q] = s[n] /\ E[0] = s[H]
  <2>1. 0 \in 0..q /\ 0 < q /\ q \in 0..q /\ ~ (q < q) BY <1>1
  <2>2. H * (0 + 1) = H OBVIOUS
  <2> QED BY <2>1, <2>2 DEF E
<1>14. EvalPatstock(c, x) = (SumOf(f) + Inner(c, 0, LowDegree, x) + SumOf(g)) % mod
  BY <1>n DEF EvalPatstock
<1> HIDE DEF f, g, t
<1>15. /\ SumOf(f) \in Int /\ SumOf(g) \in Int
       /\ Congruent(mod, SumOf(f) + SumOf(g), t[q])
  <2>1. (\A k \in 1..q : f[k] \in Int) /\ (\A k \in 1..q : g[k] \in Int) BY <1>11
  <2> QED BY ONLY q \in Nat, <1>6, <1>7, <1>8, <1>10, <2>1, SumOfTwo
<1>16. PICK a \in Int, b \in Int, d \in Int : a = SumOf(f) /\ b = SumOf(g)
          /\ d = Inner(c, 0, LowDegree, x)
  BY <1>12, <1>15
<1>17. PICK sn \in Int, sh \in Int, s1 \in Int : sn = s[n] /\ sh = s[H] /\ s1 = s[1]
  <2>1. n \in 0..n /\ H \in 0..n /\ 1 \in 0..n BY <1>0, <1>H, <1>d
  <2> QED BY <1>s, <2>1
<1>18. PICK o \in Int, u \in Int, e \in Int : o = a + b /\ u = sn - sh /\ e = sh - s1 OBVIOUS
<1>19. Congruent(mod, o, u) /\ Congruent(mod, d, e)
  <2>1. t[q] = u BY <1>9, <1>13, <1>17, <1>18
  <2> QED BY <1>12, <1>15, <1>16, <1>17, <1>18, <2>1
<1>20. Congruent(mod, o + d, u + e)
  BY ONLY <1>0, o \in Int, u \in Int, d \in Int, e \in Int, <1>19, CongruentSum
<1>21. PICK p \in Int, z \in Int : p = o + d /\ z = u + e OBVIOUS
<1>22. p % mod \in Int /\ Congruent(mod, p % mod, z)
  BY ONLY <1>0, p \in Int, z \in Int, <1>20, <1>21, CongruentRemainder
<1>23. SumOf(f) + Inner(c, 0, LowDegree, x) + SumOf(g) = p /\ z = s[Len(c)] - s[1]
  <2>1. (a + d) + b = p /\ z = sn - s1 BY <1>18, <1>21
  <2> QED BY <1>n, <1>16, <1>17, <2>1
<1> QED BY <1>14, <1>22, <1>23

\* The powers an evaluation multiplies hold what their names say.
Supplies(degree) ==
  IF UsingPS(degree)
  THEN /\ \A j \in 1..LowDegree : powers[j].exp = j
       /\ \A i \in HighPowers(degree) : powers[i * HighDegree].exp = i * HighDegree
  ELSE \A j \in 1..degree : powers[j].exp = j

\* A slot of the result is the value plus the mask.
LEMMA PsuResultIs ==
  ASSUME NEW c \in Seq(Int), c # <<>>, NEW x \in Int, NEW mask \in Int, Supplies(Len(c) - 1)
  PROVE  PsuResult(c, x, mask) = (ValueAt(c, x) + mask) % mod
<1>0. mod \in Nat \ {0} /\ LowDegree \in Nat BY ModNat, LowDegreeAssumption DEF ModIs
<1>n. PICK n \in Nat \ {0} : n = Len(c) OBVIOUS
<1>N. PICK N \in Nat \ {0} : N = 2 * n /\ 2 * Len(c) <= N /\ Len(c) <= N BY <1>n
<1>1. PICK w : ArePowers(w, x, N)
  <2>1. N \in Nat OBVIOUS
  <2> QED BY ONLY <2>1, x \in Int, PowersExist
<1>2. PICK s : ArePartial(s, w, c)
  <2>1. Len(c) \in Nat OBVIOUS
  <2> QED BY ONLY <2>1, PartialExist
<1>3. \A k \in 0..n : s[k] \in Int
  <2>1. \A k \in 0..N : w[k] \in Int BY <1>1, PowersAre
  <2>2. \A k \in 0..(Len(c) - 1) : w[k] \in Int BY ONLY <1>n, <2>1, <1>N, N \in Nat, n \in Nat
  <2> QED BY ONLY c \in Seq(Int), <1>n, <2>2, <1>2, PartialAre
<1> DEFINE value == IF UsingPS(Len(c) - 1) THEN EvalPatstock(c, x) ELSE EvalPolyn(c, x)
<1>4. value \in Int /\ Congruent(mod, value, s[Len(c)] - s[1])
  <2>1. CASE UsingPS(Len(c) - 1)
    <3>1. LowDegree < Len(c) - 1 BY <2>1 DEF UsingPS
    <3>2. /\ \A j \in 1..LowDegree : powers[j].exp = j
          /\ \A i \in HighPowers(Len(c) - 1) : powers[i * HighDegree].exp = i * HighDegree
      BY <2>1 DEF Supplies
    <3>3. /\ EvalPatstock(c, x) \in Int
          /\ Congruent(mod, EvalPatstock(c, x), s[Len(c)] - s[1])
      BY ONLY <3>1, <3>2, c \in Seq(Int), x \in Int, N \in Nat \ {0}, <1>N, <1>1, <1>2,
         EvalPatstockIs
    <3> QED BY <2>1, <3>3
  <2>2. CASE ~ UsingPS(Len(c) - 1)
    <3>1. \A j \in 1..(Len(c) - 1) : powers[j].exp = j BY <2>2 DEF Supplies
    <3>2. /\ EvalPolyn(c, x) \in Int
          /\ Congruent(mod, EvalPolyn(c, x), s[Len(c)] - s[1])
      BY ONLY <3>1, c \in Seq(Int), c # <<>>, x \in Int, N \in Nat \ {0}, <1>N, <1>1, <1>2,
         EvalPolynIs
    <3> QED BY <2>2, <3>2
  <2> QED BY <2>1, <2>2
<1>5. PsuResult(c, x, mask) = (value + c[1] + mask) % mod
  BY DEF PsuResult, AddConstantAndMask
<1> HIDE DEF value
<1>6. ValueAt(c, x) \in Int /\ Congruent(mod, ValueAt(c, x), s[Len(c)])
  <2>1. N \in Nat OBVIOUS
  <2> QED BY ONLY <2>1, c \in Seq(Int), x \in Int, <1>N, <1>1, <1>2, ValueIs
<1>7. PICK a \in Int, b \in Int, d \in Int, e \in Int, f \in Int :
        a = value /\ b = c[1] /\ d = s[Len(c)] /\ e = ValueAt(c, x) /\ f = s[1]
  <2>1. n \in 0..n /\ 1 \in 0..n /\ 1 \in 1..n OBVIOUS
  <2>2. s[Len(c)] \in Int /\ s[1] \in Int /\ c[1] \in Int BY <1>n, <1>3, <2>1
  <2> QED BY <1>4, <1>6, <2>2
<1>8. f = b
  <2>1. 0 \in 0..(Len(c) - 1) /\ 0 + 1 = 1 BY <1>n
  <2>2. s[0 + 1] = s[0] + w[0] * c[0 + 1] /\ s[0] = 0 BY <1>2, <2>1 DEF ArePartial
  <2>3. w[0] = 1 BY <1>1 DEF ArePowers
  <2>4. f = 0 + 1 * b BY <1>7, <2>1, <2>2, <2>3
  <2> QED BY <2>4
<1>9. PICK g \in Int, m \in Int : g = d - f /\ m = b + mask OBVIOUS
<1>10. Congruent(mod, a, g) /\ Congruent(mod, e, d) BY <1>4, <1>6, <1>7, <1>9
<1>11. Congruent(mod, m, m) /\ Congruent(mod, mask, mask)
  BY ONLY <1>0, m \in Int, mask \in Int, Congruence
<1>12. Congruent(mod, a + m, g + m)
  BY ONLY <1>0, a \in Int, g \in Int, m \in Int, <1>10, <1>11, CongruentSum
<1>13. Congruent(mod, e + mask, d + mask)
  BY ONLY <1>0, e \in Int, d \in Int, mask \in Int, <1>10, <1>11, CongruentSum
<1>14. PICK u \in Int, v \in Int, r \in Int : u = a + m /\ v = e + mask /\ r = d + mask
  OBVIOUS
<1>15. g + m = r BY <1>8, <1>9, <1>14
<1>16. Congruent(mod, u, r) /\ Congruent(mod, v, r) BY <1>12, <1>13, <1>14, <1>15
<1>17. u % mod = r % mod /\ v % mod = r % mod
  BY ONLY <1>0, u \in Int, v \in Int, r \in Int, <1>16, Congruence
<1>18. value + c[1] + mask = u /\ ValueAt(c, x) + mask = v
  <2>1. a + b + mask = u BY <1>9, <1>14
  <2> QED BY <1>7, <1>14, <2>1
<1> QED BY <1>5, <1>17, <1>18

-----------------------------------------------------------------------------
(***************************************************************************)
(* The powers a normal return leaves, and what they are good for.          *)
(***************************************************************************)
ReadyToEvaluate ==
  /\ main = "returned" /\ powers # <<>>
  /\ targets = CreatePowersSet(LowDegree, Max(targets))

\* Every target is there, holds its power and is in its final form.
LEMMA Returned ==
  ASSUME IInv, ReadyToEvaluate
  PROVE  /\ DOMAIN powers = targets
         /\ \A p \in targets : powers[p] = Ciphertext(p, FinalForm(p))
         /\ Max(targets) \in targets /\ \A p \in targets : p \in Nat /\ p <= Max(targets)
<1>1. Begun BY DEF ReadyToEvaluate, IInv, Types, Fresh
<1>2. configured /\ DOMAIN powers = targets /\ DOMAIN state = targets BY <1>1 DEF IInv, Types
<1>3. ASSUME NEW p \in targets PROVE powers[p] = Ciphertext(p, FinalForm(p))
  <2>1. powers[p] \in [exp : Nat, form : Forms] BY <1>1 DEF IInv, Types
  <2>2. powers[p].form = FinalForm(p) BY <1>1 DEF ReadyToEvaluate, IInv, Main, Switched
  <2>3. powers[p].exp = p BY <1>1, <1>2 DEF ReadyToEvaluate, IInv, Main, Nodes, AllComputed
  <2> QED BY <2>1, <2>2, <2>3 DEF Ciphertext
<1>4. targets \in SUBSET Nat /\ IsFiniteSet(targets) /\ 1 \in targets
  BY <1>2 DEF IInv, Plan, Planned
<1>5. Max(targets) \in targets /\ \A p \in targets : p <= Max(targets)
  <2>1. targets # {} BY <1>4
  <2> QED BY <1>4, <2>1, MaxIs
<1> QED BY <1>2, <1>3, <1>4, <1>5

\* No polynomial that fits a bin lacks a power, or meets one in another form.
LEMMA PowersSupply ==
  ASSUME IInv, ReadyToEvaluate, LowDegree # 1, NEW degree \in 0..LargestBin
  PROVE  Accepted(degree) /\ Supplies(degree)
<1>0. LowDegree \in Nat BY LowDegreeAssumption
<1>1. /\ DOMAIN powers = targets
      /\ \A p \in targets : powers[p] = Ciphertext(p, FinalForm(p))
      /\ Max(targets) \in targets /\ \A p \in targets : p \in Nat /\ p <= Max(targets)
  BY Returned
<1>M. PICK M \in Nat : M = Max(targets) BY <1>1
<1>2. ASSUME NEW p \in targets, FinalForm(p) = CoefficientForm(p)
      PROVE  Multiplies(p, p) /\ powers[p].exp = p
  BY <1>1, <1>2 DEF Multiplies, Ciphertext
<1>d. degree \in Nat
  <2>1. LargestBin \in Nat BY <1>0, <1>M DEF LargestBin
  <2> QED BY <2>1
<1>3. CASE LowDegree = 0
  <2>1. targets = 1..M /\ LargestBin = M
    BY <1>3, <1>M DEF ReadyToEvaluate, CreatePowersSet, LargestBin
  <2>2. ASSUME NEW i \in 1..degree PROVE Multiplies(i, i) /\ powers[i].exp = i
    <3>1. i \in targets /\ i \in Nat \ {0} BY <1>d, <2>1
    <3>2. i % (i + 1) = i
      <4> DEFINE q == i \div (i + 1)
                 r == i % (i + 1)
      <4>1. i + 1 \in Nat \ {0} /\ i \in Int BY <3>1
      <4>2. q \in Int /\ r \in 0..((i + 1) - 1) /\ i = (i + 1) * q + r BY ONLY <4>1, Remainder
      <4> HIDE DEF q, r
      <4>3. q = 0
        <5>1. ASSUME q >= 1 PROVE FALSE
          <6>1. (i + 1) * q >= (i + 1) * 1 /\ (i + 1) * q \in Int BY <3>1, <4>2, <5>1, SMT
          <6> QED BY <3>1, <4>2, <6>1
        <5>2. ASSUME q <= -1 PROVE FALSE
          <6>1. (i + 1) * q <= (i + 1) * (-1) /\ (i + 1) * q \in Int BY <3>1, <4>2, <5>2, SMT
          <6> QED BY <3>1, <4>2, <6>1
        <5> QED BY <4>2, <5>1, <5>2
      <4>4. (i + 1) * q = 0 BY <3>1, <4>3
      <4> QED BY <3>1, <4>2, <4>4 DEF r
    <3>3. FinalForm(i) = "ntt_high" /\ FinalForm(1) = "ntt_high" BY <1>3 DEF FinalForm
    <3>4. CoefficientForm(i) = FinalForm(1) BY <1>3, <3>1, <3>2 DEF CoefficientForm
    <3> QED BY <1>2, <3>1, <3>3, <3>4
  <2>3. ~ UsingPS(degree) BY <1>3 DEF UsingPS
  <2> QED BY <2>2, <2>3 DEF Accepted, Supplies, EvalAccepted
<1>4. CASE LowDegree # 0
  <2>0. LowDegree >= 2 BY <1>0, <1>4
  <2>H. PICK H \in Nat \ {0} : H = LowDegree + 1 /\ H = HighDegree BY <1>0 DEF HighDegree
  <2>1. targets = (1..LowDegree) \union {p \in (LowDegree + 1)..M : p % (LowDegree + 1) = 0}
    BY <1>4, <1>M DEF ReadyToEvaluate, CreatePowersSet
  <2>2. \A p : CoefficientForm(p) = IF p % H = 0 THEN "high" ELSE FinalForm(1)
    BY <1>4, <2>H DEF CoefficientForm
  <2>3. FinalForm(1) = "ntt_low" BY <1>0, <1>4, <2>0 DEF FinalForm
  <2>4. ASSUME NEW i \in 1..LowDegree PROVE Multiplies(i, i) /\ powers[i].exp = i
    <3>1. i \in targets /\ i \in Nat \ {0} /\ i < H BY <1>0, <2>1, <2>H
    <3>2. i % H # 0 BY ONLY <3>1, H \in Nat \ {0}, SMT
    <3>3. FinalForm(i) = "ntt_low" BY <1>4, <1>0 DEF FinalForm
    <3> QED BY <1>2, <2>2, <2>3, <3>1, <3>2, <3>3
  <2>5. CASE ~ UsingPS(degree)
    <3>1. \A i \in 1..degree : i \in 1..LowDegree
      BY <1>0, <1>d, <2>0, <2>5 DEF UsingPS
    <3> QED BY <2>4, <2>5, <3>1 DEF Accepted, Supplies, EvalAccepted
  <2>6. CASE UsingPS(degree)
    <3>1. LowDegree < degree BY <2>6 DEF UsingPS
    <3>2. M # LowDegree /\ degree <= M + LowDegree
      <4>1. LargestBin = IF M = LowDegree THEN M ELSE M + LowDegree
        BY <1>4, <1>M DEF LargestBin
      <4> QED BY <1>0, <1>d, <3>1, <4>1
    <3>3. M % H = 0
      <4>1. M \in targets /\ LowDegree \in targets BY <1>0, <1>1, <1>M, <2>0, <2>1
      <4>2. LowDegree <= M BY <1>1, <1>M, <4>1
      <4>3. M \notin 1..LowDegree BY <1>0, <3>2, <4>2
      <4> QED BY <2>1, <2>H, <4>1, <4>3
    <3>4. PICK k \in Int : M = H * k
      <4>1. M \in Int OBVIOUS
      <4> QED BY ONLY <3>3, <4>1, H \in Nat \ {0}, Multiple
    <3>5. ASSUME NEW i \in HighPowers(degree)
          PROVE  /\ Multiplies(i * HighDegree, i * HighDegree)
                 /\ powers[i * HighDegree].exp = i * HighDegree
      <4> DEFINE q == degree \div H
                 r == degree % H
      <4>1. q \in Int /\ r \in 0..(H - 1) /\ degree = H * q + r
        BY ONLY <1>d, H \in Nat \ {0}, Remainder
      <4>2. i \in 1..q BY <2>H DEF HighPowers
      <4> HIDE DEF q, r
      <4>3. i \in Nat \ {0} /\ i <= q BY <4>1, <4>2
      <4>4. PICK h \in Int : h = H * i /\ h = i * HighDegree
        <5>1. H * i \in Int /\ H * i = i * H BY ONLY <4>3, H \in Nat \ {0}, SMT
        <5> QED BY <2>H, <5>1
      <4>5. h <= degree /\ h >= H
        <5>1. H * q >= H * i /\ H * i >= H * 1 /\ H * q \in Int
          BY ONLY <4>1, <4>3, H \in Nat \ {0}, SMT
        <5> QED BY ONLY <1>d, <4>1, <4>4, <5>1, H \in Nat \ {0}, h \in Int
      <4>6. i <= k
        <5>1. ASSUME i >= k + 1 PROVE FALSE
          <6>1. H * i >= H * (k + 1) /\ H * (k + 1) = H * k + H /\ H * k \in Int
            BY ONLY <4>3, <5>1, k \in Int, H \in Nat \ {0}, SMT
          <6>2. h >= M + H BY <3>4, <4>4, <6>1
          <6> QED BY ONLY <1>0, <1>d, <2>H, <3>2, <4>5, <6>2, M \in Nat, h \in Int, H \in Nat
        <5> QED BY ONLY <5>1, <4>3, k \in Int
      <4>7. h <= M
        <5>1. H * k >= H * i BY ONLY <4>3, <4>6, k \in Int, H \in Nat \ {0}, SMT
        <5> QED BY <3>4, <4>4, <5>1
      <4>8. h % H = 0
        <5>1. i \in Int BY <4>3
        <5> QED BY <4>4, <5>1, Multiple
      <4>9. h \in targets
        <5>1. h \in (LowDegree + 1)..M /\ h % (LowDegree + 1) = 0
          BY <1>0, <2>H, <4>5, <4>7, <4>8
        <5> QED BY <2>1, <5>1
      <4>10. FinalForm(h) = "high"
        <5>1. ~ (h <= LowDegree) BY <1>0, <2>H, <4>5
        <5> QED BY <1>4, <5>1 DEF FinalForm
      <4>11. CoefficientForm(h) = "high" BY <2>2, <4>8
      <4>12. Multiplies(h, h) /\ powers[h].exp = h BY <1>2, <4>9, <4>10, <4>11
      <4> QED BY <4>4, <4>12
    <3> QED BY <2>4, <2>6, <3>5 DEF Accepted, Supplies, PatstockAccepted
  <2> QED BY <2>5, <2>6
<1> QED BY <1>3, <1>4

-----------------------------------------------------------------------------
\* The polynomial with given roots, root by root.
LEMMA RootsRounds ==
  ASSUME NEW roots, NEW n \in Nat, DOMAIN roots = 1..n
  PROVE  \E g : /\ g[0] = <<1>> /\ g[n] = PolynWithRoots(roots)
                /\ \A k \in 0..(n - 1) : g[k + 1] = MulMonicMonomial(g[k], roots[k + 1])
<1> DEFINE h == CHOOSE h : Loop!IsUnrolling(h, "left", "roots", 0, <<1>>, roots, n)
<1>1. Loop!IsUnrolling(h, "left", "roots", 0, <<1>>, roots, n) BY Loop!UnrollingExists
<1>2. PolynWithRoots(roots) = h[1..n]
  BY DEF PolynWithRoots, FoldLeft, MapThenFoldSet, PassOf, Max, Min, Loop!Max, Loop!Min,
     Loop!IsUnrolling, Loop!Unrolled, Loop!LastTaken
<1> HIDE DEF h
<1>3. PICK g : Loop!AreRounds(g, "left", "roots", 0, <<1>>, roots, n) /\ g[n] = h[1..n]
  BY ONLY n \in Nat, <1>1, Loop!RoundByRound
<1>4. /\ g[0] = <<1>>
      /\ \A k \in 0..(n - 1) : g[k + 1] = MulMonicMonomial(g[k], roots[k + 1])
  BY <1>3 DEF Loop!AreRounds, PassOf
<1> QED BY <1>2, <1>3, <1>4

\* Its coefficients are integers ...
LEMMA MonomialTyped ==
  ASSUME NEW p \in Seq(Int), NEW a \in Int
  PROVE  MulMonicMonomial(p, a) \in Seq(Int)
<1> DEFINE c == p \o <<0>>
<1>0. mod \in Nat \ {0} BY ModNat DEF ModIs
<1>1. c \in Seq(Int) OBVIOUS
<1>2. PICK n \in Nat : n = Len(c) BY <1>1
<1> DEFINE e(i) == ((IF i > 1 THEN c[i - 1] ELSE 0) - a * c[i]) % mod
<1>3. MulMonicMonomial(p, a) = [i \in 1..n |-> e(i)] BY <1>2 DEF MulMonicMonomial
<1>4. \A i \in 1..n : c[i] \in Int BY <1>1, <1>2
<1> HIDE DEF c
<1>5. ASSUME NEW i \in 1..n PROVE e(i) \in Int
  <2>1. PICK u \in Int : u = (IF i > 1 THEN c[i - 1] ELSE 0) BY <1>4
  <2>2. PICK v \in Int : v = a * c[i]
    <3>1. c[i] \in Int BY <1>4
    <3> QED BY <3>1, SMT
  <2>3. (u - v) % mod \in Int
    <3>1. PICK z \in Int : z = u - v OBVIOUS
    <3> QED BY <1>0, <3>1, Remainder
  <2> QED BY <2>1, <2>2, <2>3
<1> HIDE DEF e
<1>6. [i \in 1..n |-> e(i)] \in Seq(Int) BY <1>5
<1> QED BY <1>3, <1>6

\* ... after every root.
LEMMA RootsTyped ==
  ASSUME NEW n \in Nat, NEW roots \in [1..n -> Int]
  PROVE  PolynWithRoots(roots) \in Seq(Int)
<1>1. PICK g : /\ g[0] = <<1>> /\ g[n] = PolynWithRoots(roots)
               /\ \A k \in 0..(n - 1) : g[k + 1] = MulMonicMonomial(g[k], roots[k + 1])
  <2>1. DOMAIN roots = 1..n OBVIOUS
  <2> QED BY <2>1, RootsRounds
<1> DEFINE T == {k \in Nat : k <= n => g[k] \in Seq(Int)}
<1>2. 0 \in T
  <2>1. <<1>> \in Seq(Int) OBVIOUS
  <2> QED BY <1>1, <2>1
<1>3. ASSUME NEW k \in T PROVE k + 1 \in T
  <2> SUFFICES ASSUME k + 1 <= n PROVE g[k + 1] \in Seq(Int) BY <1>3
  <2>1. k \in Nat /\ k \in 0..(n - 1) /\ k + 1 \in 1..n BY <1>3
  <2>2. g[k] \in Seq(Int) /\ roots[k + 1] \in Int BY <1>3, <2>1
  <2>3. g[k + 1] = MulMonicMonomial(g[k], roots[k + 1]) BY <1>1, <2>1
  <2> QED BY <2>2, <2>3, MonomialTyped
<1>t. T \in SUBSET Nat OBVIOUS
<1> HIDE DEF T
<1>4. T = Nat BY <1>t, <1>2, <1>3, InductionOnNat
<1> QED BY <1>1, <1>4 DEF T

\* So are those of a bin's polynomial, padded to the degree of its bundle.
LEMMA BinTyped ==
  ASSUME NEW degree \in Nat, NEW c \in BinCoeffs(degree)
  PROVE  c \in [1..(degree + 1) -> Int]
<1>0. mod \in Nat \ {0} BY ModNat DEF ModIs
<1> DEFINE Padded(items, first) ==
             LET p == PolynWithRoots([i \in 1..items |-> (first + i) % mod])
             IN  [i \in 1..(degree + 1) |-> IF i <= Len(p) THEN p[i] ELSE 0]
<1>b. BinCoeffs(degree) =
        {Padded(items, first) : items \in {degree \div 2, degree}, first \in {0, mod \div 2}}
  BY DEF BinCoeffs
<1> HIDE DEF Padded
<1>1. PICK items \in {degree \div 2, degree}, first \in {0, mod \div 2} :
        c = Padded(items, first)
  BY <1>b
<1> DEFINE roots == [i \in 1..items |-> (first + i) % mod]
           p == PolynWithRoots(roots)
<1>2. items \in Nat /\ first \in Int
  <2>1. degree \div 2 \in Nat BY SMT
  <2>2. mod \div 2 \in Int BY <1>0, SMT
  <2> QED BY <2>1, <2>2
<1>3. roots \in [1..items -> Int]
  <2> SUFFICES ASSUME NEW i \in 1..items PROVE (first + i) % mod \in Int OBVIOUS
  <2>1. PICK z \in Int : z = first + i BY <1>2
  <2> QED BY <1>0, <2>1, Remainder
<1>4. p \in Seq(Int)
  <2> HIDE DEF roots
  <2> QED BY <1>2, <1>3, RootsTyped
<1>5. c = [i \in 1..(degree + 1) |-> IF i <= Len(p) THEN p[i] ELSE 0] BY <1>1 DEF Padded
<1> HIDE DEF p
<1>6. \A i \in 1..(degree + 1) : (IF i <= Len(p) THEN p[i] ELSE 0) \in Int BY <1>4
<1> QED BY <1>5, <1>6

\* For every polynomial of a degree a bin may have, every item and every mask.
EvaluatesEvery ==
  ReadyToEvaluate =>
    \A degree \in 0..LargestBin :
      /\ Accepted(degree)
      /\ \A c \in [1..(degree + 1) -> Int], x \in Int, mask \in Int :
           PsuResult(c, x, mask) = (ValueAt(c, x) + mask) % mod

(* On the powers that a normal return leaves, both evaluations accept every *)
(* polynomial that fits a bin and give its value at the item, plus the mask.*)
(* A low degree of 1 is left out: create_powers_set then makes the powers   *)
(* for Paterson and Stockmeyer's method, which is used from 2 on.           *)
THEOREM EvaluatesEveryPolynomial == ASSUME LowDegree # 1 PROVE Spec => []EvaluatesEvery
<1>1. IInv => EvaluatesEvery
  <2> SUFFICES ASSUME IInv, ReadyToEvaluate, NEW degree \in 0..LargestBin
               PROVE  /\ Accepted(degree)
                      /\ \A c \in [1..(degree + 1) -> Int], x \in Int, mask \in Int :
                           PsuResult(c, x, mask) = (ValueAt(c, x) + mask) % mod
    BY DEF EvaluatesEvery
  <2>1. Accepted(degree) /\ Supplies(degree) BY PowersSupply
  <2>2. degree \in Nat
    <3>1. Max(targets) \in Nat BY Returned
    <3>2. LargestBin \in Nat BY <3>1, LowDegreeAssumption DEF LargestBin
    <3> QED BY <3>2
  <2>3. ASSUME NEW c \in [1..(degree + 1) -> Int], NEW x \in Int, NEW mask \in Int
        PROVE  PsuResult(c, x, mask) = (ValueAt(c, x) + mask) % mod
    <3>1. c \in Seq(Int) /\ Len(c) = degree + 1 /\ c # <<>> /\ Len(c) - 1 = degree BY <2>2
    <3>2. Supplies(Len(c) - 1) BY <2>1, <3>1
    <3> QED BY <3>1, <3>2, PsuResultIs
  <2> QED BY <2>1, <2>3
<1> QED BY <1>1, Inductive, PTL

(* In particular for the polynomials of the bins, as the run checks it.      *)
THEOREM EvaluatesRight == ASSUME LowDegree # 1 PROVE Spec => []EvalRight
<1>1. IInv /\ EvaluatesEvery => EvalRight
  <2> SUFFICES ASSUME IInv, EvaluatesEvery, ReadyToEvaluate, NEW degree \in 0..LargestBin
               PROVE  /\ Accepted(degree)
                      /\ \A c \in BinCoeffs(degree), x \in Items :
                           PsuResult(c, x, mod - 1) = (ValueAt(c, x) + mod - 1) % mod
    BY DEF EvalRight, ReadyToEvaluate
  <2>0. mod \in Nat \ {0} /\ mod - 1 \in Int BY ModNat DEF ModIs
  <2>1. degree \in Nat
    <3>1. Max(targets) \in Nat BY Returned
    <3>2. LargestBin \in Nat BY <3>1, LowDegreeAssumption DEF LargestBin
    <3> QED BY <3>2
  <2>2. Accepted(degree) BY DEF EvaluatesEvery
  <2>3. ASSUME NEW c \in BinCoeffs(degree), NEW x \in Items
        PROVE  PsuResult(c, x, mod - 1) = (ValueAt(c, x) + mod - 1) % mod
    <3>1. c \in [1..(degree + 1) -> Int] BY <2>1, BinTyped
    <3>2. x \in Int BY <2>0 DEF Items
    <3>3. PsuResult(c, x, mod - 1) = (ValueAt(c, x) + (mod - 1)) % mod
      BY <2>0, <3>1, <3>2 DEF EvaluatesEvery
    <3>4. ValueAt(c, x) \in Int
      <4>1. c \in Seq(Int) BY <2>1, <3>1
      <4> QED BY <3>2, <4>1, ValueTyped
    <3>5. ValueAt(c, x) + (mod - 1) = ValueAt(c, x) + mod - 1 BY <2>0, <3>4
    <3> QED BY <3>3, <3>5
  <2> QED BY <2>2, <2>3
<1> QED BY <1>1, EvaluatesEveryPolynomial, Inductive, PTL
=============================================================================
