---------------------------- MODULE FoldTheorems ----------------------------
(***************************************************************************)
(* What the proofs need of sums and products over finite sets, of loops    *)
(* over a sequence, of divisibility by a prime and of congruences.  The    *)
(* folds of the community modules are recursive functions, so their facts  *)
(* take an induction; it is stated here about sets of numbers and sets of  *)
(* subsets, and rests on the least number principle                        *)
(* (NatLessThanWellFounded, WFMin).                                        *)
(***************************************************************************)
EXTENDS Integers, Sequences, FiniteSets, Functions, FiniteSetsExt, FiniteSetTheorems,
        SequenceTheorems, TLAPS

\* What one round of a loop makes of what it has accumulated, by the loop's
\* name, its context and the element; whoever needs it instantiates the module.
CONSTANT OneRound(_, _, _, _)

\* Every non-empty set of natural numbers has a least element.
LEMMA LeastNat ==
  ASSUME NEW T \in SUBSET Nat, T # {}
  PROVE  \E n \in T : \A m \in T : n <= m
<1> DEFINE R == OpToRel(<, Nat)
<1>1. \A x, y \in Nat : y < x => <<y, x>> \in R BY SMT DEF OpToRel
<1>2. IsWellFoundedOn(R, Nat) BY NatLessThanWellFounded
<1> HIDE DEF R
<1>3. \E x \in T : \A y \in T : ~(<<y, x>> \in R) BY <1>2, WFMin
<1>4. PICK x \in T : \A y \in T : ~(<<y, x>> \in R) BY <1>3
<1>5. \A y \in T : ~(y < x) BY <1>4, <1>1
<1> QED BY <1>5, SMT

\* Induction: a set that contains 0 and every successor of its elements.
LEMMA InductionOnNat ==
  ASSUME NEW T \in SUBSET Nat, 0 \in T, \A n \in T : n + 1 \in T
  PROVE  T = Nat
<1> SUFFICES ASSUME Nat \ T # {} PROVE FALSE OBVIOUS
<1>1. PICK n \in Nat \ T : \A m \in Nat \ T : n <= m BY LeastNat
<1>2. n # 0 /\ n - 1 \in Nat BY <1>1, SMT
<1>3. n - 1 \in T BY <1>1, <1>2, SMT
<1> QED BY <1>2, <1>3, <1>1, SMT

(***************************************************************************)
(* Sums and products over a finite set are folds in the order of CHOOSE:   *)
(* the value at a set is that of its chosen element combined with the value*)
(* at the rest.                                                            *)
(***************************************************************************)
Operators == {"plus", "times"}
Combine(op, x, y) == IF op = "plus" THEN x + y ELSE x * y
Neutral(op) == IF op = "plus" THEN 0 ELSE 1

Turn(op, h, f, s) ==
  IF s = {} THEN Neutral(op)
  ELSE Combine(op, f[CHOOSE x \in s : TRUE], h[s \ {CHOOSE x \in s : TRUE}])

IsFold(op, h, f, S) == h = [s \in SUBSET S |-> Turn(op, h, f, s)]

\* Both operators stay in the integers and may be regrouped.
LEMMA Combining ==
  ASSUME NEW op \in Operators
  PROVE  /\ Neutral(op) \in Int
         /\ \A x, y \in Int : Combine(op, x, y) \in Int
         /\ \A x, y, z \in Int :
              Combine(op, x, Combine(op, y, z)) = Combine(op, y, Combine(op, x, z))
<1>1. CASE op = "plus" BY <1>1, SMT DEF Combine, Neutral
<1>2. CASE op # "plus" BY <1>2, SMT DEF Combine, Neutral
<1> QED BY <1>1, <1>2

\* Taking an element out of a finite set.
LEMMA SmallerSets ==
  ASSUME NEW S, IsFiniteSet(S), NEW s \in SUBSET S, s # {}
  PROVE  /\ (CHOOSE x \in s : TRUE) \in s
         /\ IsFiniteSet(s) /\ Cardinality(s) \in Nat
         /\ \A x \in s : /\ s \ {x} \in SUBSET S /\ Cardinality(s \ {x}) \in Nat
                         /\ Cardinality(s) = Cardinality(s \ {x}) + 1
<1>1. (CHOOSE x \in s : TRUE) \in s OBVIOUS
<1>2. IsFiniteSet(s) BY FS_Subset
<1>3. Cardinality(s) \in Nat BY <1>2, FS_CardinalityType
<1>4. ASSUME NEW x \in s
      PROVE  Cardinality(s \ {x}) \in Nat /\ Cardinality(s) = Cardinality(s \ {x}) + 1
  <2>1. IsFiniteSet(s \ {x}) /\ Cardinality(s \ {x}) = Cardinality(s) - 1
    BY <1>2, FS_RemoveElement
  <2>2. Cardinality(s \ {x}) \in Nat BY <2>1, FS_CardinalityType
  <2> QED BY <2>1, <2>2, <1>3
<1> QED BY <1>1, <1>2, <1>3, <1>4

\* Induction over the subsets of a finite set: a set U that contains every
\* subset whose proper subsets it contains, contains them all.
LEMMA InductionOnSubsets ==
  ASSUME NEW S, IsFiniteSet(S), NEW U,
         \A s \in SUBSET S : (\A r \in SUBSET s : r # s => r \in U) => s \in U
  PROVE  SUBSET S \subseteq U
<1> DEFINE T == {n \in Nat : \A s \in SUBSET S : Cardinality(s) <= n => s \in U}
<1>0. \A s \in SUBSET S : Cardinality(s) \in Nat BY FS_Subset, FS_CardinalityType
<1>1. ASSUME NEW s \in SUBSET S, NEW r \in SUBSET s, r # s
      PROVE  r \in SUBSET S /\ Cardinality(r) < Cardinality(s)
  <2>1. IsFiniteSet(s) /\ r \in SUBSET S BY FS_Subset
  <2>2. Cardinality(r) <= Cardinality(s) /\ (Cardinality(s) = Cardinality(r) => s = r)
    BY <2>1, FS_Subset
  <2> QED BY <2>1, <2>2, <1>1, <1>0
<1>2. 0 \in T
  <2>1. ASSUME NEW s \in SUBSET S, Cardinality(s) <= 0 PROVE s \in U
    <3>1. \A r \in SUBSET s : r = s BY <1>0, <1>1, <2>1
    <3> QED BY <3>1
  <2> QED BY <2>1
<1>3. ASSUME NEW n \in T PROVE n + 1 \in T
  <2>0. n \in Nat BY <1>3
  <2>1. ASSUME NEW s \in SUBSET S, Cardinality(s) <= n + 1 PROVE s \in U
    <3>1. \A r \in SUBSET s : r # s => r \in SUBSET S /\ Cardinality(r) <= n
      BY <1>0, <1>1, <2>0, <2>1
    <3> QED BY <3>1, <1>3
  <2> QED BY <2>0, <2>1
<1>4. T = Nat BY <1>2, <1>3, InductionOnNat
<1> QED BY <1>4, <1>0

\* A finite set of numbers has a largest element.
LEMMA Largest ==
  ASSUME NEW S \in SUBSET Nat, IsFiniteSet(S), S # {}
  PROVE  \E n \in S : \A m \in S : m <= n
<1> DEFINE U == {s \in SUBSET S : s # {} => \E n \in s : \A m \in s : m <= n}
<1>1. ASSUME NEW s \in SUBSET S, \A r \in SUBSET s : r # s => r \in U PROVE s \in U
  <2> SUFFICES ASSUME s # {} PROVE \E n \in s : \A m \in s : m <= n OBVIOUS
  <2>1. PICK x \in s : TRUE OBVIOUS
  <2>2. s \ {x} \in U BY <1>1, <2>1
  <2>3. CASE s \ {x} = {}
    <3>1. s = {x} BY <2>1, <2>3
    <3> QED BY <3>1
  <2>4. CASE s \ {x} # {}
    <3>1. PICK n \in s \ {x} : \A m \in s \ {x} : m <= n BY <2>2, <2>4
    <3>2. CASE n <= x BY <2>1, <3>1, <3>2
    <3>3. CASE x < n BY <2>1, <3>1, <3>3
    <3> QED BY <3>1, <3>2, <3>3
  <2> QED BY <2>3, <2>4
<1> HIDE DEF U
<1>2. SUBSET S \subseteq U BY <1>1, InductionOnSubsets
<1> QED BY <1>2 DEF U

\* It is Max.
LEMMA MaxIs ==
  ASSUME NEW S \in SUBSET Nat, IsFiniteSet(S), S # {}
  PROVE  Max(S) \in S /\ \A x \in S : x <= Max(S)
<1>1. \E n \in S : \A m \in S : n >= m
  <2>1. PICK n \in S : \A m \in S : m <= n BY Largest
  <2>2. \A m \in S : n >= m BY <2>1
  <2> QED BY <2>2
<1>2. Max(S) \in S /\ \A x \in S : Max(S) >= x BY <1>1 DEF Max
<1> QED BY <1>2

\* The last place of a segment, and what is before it.
LEMMA LastPlace ==
  ASSUME NEW n \in Nat, NEW m \in Nat, NEW s \in SUBSET (1..n), s \subseteq 1..(m + 1), s # {}
  PROVE  s \ {Max(s)} \in SUBSET (1..n) /\ s \ {Max(s)} \subseteq 1..m
<1>1. IsFiniteSet(1..n) BY FS_Interval
<1>2. IsFiniteSet(s) /\ s \in SUBSET Nat
  <2>1. IsFiniteSet(s) BY <1>1, FS_Subset
  <2>2. \A x \in s : x \in 1..n OBVIOUS
  <2> QED BY <2>1, <2>2
<1>3. Max(s) \in s /\ \A x \in s : x <= Max(s) BY <1>2, MaxIs
<1>4. \A x \in s \ {Max(s)} : x \in 1..m
  <2> SUFFICES ASSUME NEW x \in s, x # Max(s) PROVE x \in 1..m OBVIOUS
  <2>1. x \in 1..(m + 1) /\ Max(s) \in 1..(m + 1) /\ x <= Max(s) BY <1>3
  <2> QED BY <2>1
<1> QED BY <1>4

\* Disjoint finite sets.
LEMMA Disjoint ==
  ASSUME NEW S, IsFiniteSet(S), NEW T, IsFiniteSet(T), S \cap T = {}
  PROVE  IsFiniteSet(S \cup T) /\ Cardinality(S \cup T) = Cardinality(S) + Cardinality(T)
<1>1. Cardinality(S) \in Nat /\ Cardinality(T) \in Nat BY FS_CardinalityType
<1>2. Cardinality(S \cap T) = 0 BY FS_EmptySet
<1>3. /\ IsFiniteSet(S \cup T)
      /\ Cardinality(S \cup T) = Cardinality(S) + Cardinality(T) - Cardinality(S \cap T)
  BY FS_Union
<1> QED BY <1>1, <1>2, <1>3

\* The recursive definition of the fold has a solution.
LEMMA FoldExists ==
  ASSUME NEW op, NEW S, IsFiniteSet(S), NEW f
  PROVE  \E h : IsFold(op, h, f, S)
<1> DEFINE Upto(n) == {s \in SUBSET S : Cardinality(s) <= n}
           Good(n, h) == \A s \in Upto(n) : h[s] = Turn(op, h, f, s)
           T == {n \in Nat : \E h : Good(n, h)}
<1>0. \A s \in SUBSET S : Cardinality(s) \in Nat BY FS_Subset, FS_CardinalityType
<1>1. 0 \in T
  <2> DEFINE h == [s \in SUBSET S |-> Neutral(op)]
  <2>1. \A s \in Upto(0) : s = {} BY <1>0, FS_Subset, FS_EmptySet
  <2>2. Good(0, h) BY <2>1 DEF Turn
  <2> QED BY <2>2
<1>2. ASSUME NEW n \in T PROVE n + 1 \in T
  <2>1. PICK g : Good(n, g) BY <1>2
  <2> DEFINE h == [s \in SUBSET S |-> IF s \in Upto(n) THEN g[s] ELSE Turn(op, g, f, s)]
  <2>2. ASSUME NEW s \in Upto(n + 1) PROVE h[s] = Turn(op, h, f, s)
    <3>1. CASE s = {}
      <4>1. h[s] = Turn(op, g, f, s) BY <2>1, <3>1
      <4> QED BY <3>1, <4>1 DEF Turn
    <3>2. CASE s # {}
      <4> DEFINE x == CHOOSE x \in s : TRUE
      <4>1. /\ x \in s /\ s \ {x} \in SUBSET S /\ Cardinality(s \ {x}) \in Nat
            /\ Cardinality(s) = Cardinality(s \ {x}) + 1
        BY <3>2, SmallerSets
      <4>2. s \ {x} \in Upto(n) BY <4>1, <1>0, <2>2
      <4>3. h[s \ {x}] = g[s \ {x}] BY <4>2, <4>1
      <4>4. h[s] = Turn(op, g, f, s) BY <2>1
      <4>5. Turn(op, h, f, s) = Combine(op, f[x], h[s \ {x}]) BY <3>2 DEF Turn
      <4>6. Turn(op, g, f, s) = Combine(op, f[x], g[s \ {x}]) BY <3>2 DEF Turn
      <4> QED BY <4>3, <4>4, <4>5, <4>6
    <3> QED BY <3>1, <3>2
  <2> HIDE DEF h
  <2>3. Good(n + 1, h) BY <2>2
  <2>4. n \in Nat BY <1>2
  <2> HIDE DEF Good
  <2> QED BY <2>3, <2>4
<1> HIDE DEF Good
<1>3. T = Nat BY <1>1, <1>2, InductionOnNat
<1> USE DEF Good
<1>4. PICK g : Good(Cardinality(S), g) BY <1>3, <1>0
<1>5. \A s \in SUBSET S : s \in Upto(Cardinality(S)) BY FS_Subset
<1> DEFINE h == [s \in SUBSET S |-> g[s]]
<1>6. \A s \in SUBSET S : h[s] = Turn(op, g, f, s) BY <1>4, <1>5
<1>7. \A s \in SUBSET S : Turn(op, g, f, s) = Turn(op, h, f, s) BY SmallerSets DEF Turn
<1>8. h = [s \in SUBSET S |-> Turn(op, h, f, s)] BY <1>6, <1>7
<1> QED BY <1>8 DEF IsFold

\* A fold may take the elements in any order.
LEMMA FoldRemove ==
  ASSUME NEW op \in Operators, NEW S, IsFiniteSet(S), NEW f, \A x \in S : f[x] \in Int,
         NEW h, IsFold(op, h, f, S)
  PROVE  \A s \in SUBSET S :
           /\ h[s] \in Int
           /\ \A x \in s : h[s] = Combine(op, f[x], h[s \ {x}])
<1> DEFINE Op(x, y) == Combine(op, x, y)
           U == {s \in SUBSET S : /\ h[s] \in Int
                                  /\ \A x \in s : h[s] = Op(f[x], h[s \ {x}])}
<1>0. \A s \in SUBSET S : h[s] = Turn(op, h, f, s) BY DEF IsFold
<1>2. ASSUME NEW s \in SUBSET S, \A r \in SUBSET s : r # s => r \in U
      PROVE  s \in U
  <2> DEFINE y == CHOOSE x \in s : TRUE
  <2>0. CASE s = {} BY <2>0, <1>0, Combining DEF Turn
  <2> SUFFICES ASSUME s # {} PROVE s \in U BY <2>0
  <2>1. y \in s /\ h[s] = Op(f[y], h[s \ {y}]) BY <1>0 DEF Turn
  <2> HIDE DEF y
  <2>2. h[s] \in Int
    <3>1. h[s \ {y}] \in Int /\ f[y] \in Int BY <2>1, <1>2
    <3> QED BY <2>1, <3>1, Combining
  <2>3. ASSUME NEW x \in s, x # y PROVE h[s] = Op(f[x], h[s \ {x}])
    <3> DEFINE r == s \ {x, y}
    <3>1. (s \ {y}) \ {x} = r /\ (s \ {x}) \ {y} = r /\ x \in s \ {y} /\ y \in s \ {x}
      BY <2>1, <2>3
    <3>2. h[s \ {y}] = Op(f[x], h[r]) BY <1>2, <2>1, <3>1
    <3>3. h[s \ {x}] = Op(f[y], h[r]) BY <1>2, <2>1, <3>1
    <3>4. f[x] \in Int /\ f[y] \in Int BY <2>1
    <3>5. h[r] \in Int BY <1>2, <2>3
    <3> HIDE DEF r
    <3> QED BY <2>1, <3>2, <3>3, <3>4, <3>5, Combining
  <2> QED BY <2>1, <2>2, <2>3
<1> HIDE DEF U
<1>3. SUBSET S \subseteq U BY <1>2, InductionOnSubsets
<1> QED BY <1>3 DEF U

\* Two folds agree on the sets on which their functions agree.
LEMMA FoldSame ==
  ASSUME NEW op, NEW S, IsFiniteSet(S), NEW R, NEW Q, S \subseteq R, S \subseteq Q,
         NEW f, NEW g, \A x \in S : f[x] = g[x],
         NEW h, IsFold(op, h, f, R), NEW k, IsFold(op, k, g, Q)
  PROVE  \A s \in SUBSET S : h[s] = k[s]
<1> DEFINE U == {s \in SUBSET S : h[s] = k[s]}
<1>0. \A s \in SUBSET S : h[s] = Turn(op, h, f, s) /\ k[s] = Turn(op, k, g, s)
  BY DEF IsFold
<1>1. ASSUME NEW s \in SUBSET S, \A r \in SUBSET s : r # s => r \in U
      PROVE  s \in U
  <2>1. CASE s = {} BY <2>1, <1>0 DEF Turn
  <2>2. CASE s # {}
    <3> DEFINE y == CHOOSE x \in s : TRUE
    <3>1. y \in s BY <2>2
    <3>2. h[s] = Combine(op, f[y], h[s \ {y}]) BY <1>0, <2>2 DEF Turn
    <3>3. k[s] = Combine(op, g[y], k[s \ {y}]) BY <1>0, <2>2 DEF Turn
    <3>4. h[s \ {y}] = k[s \ {y}] BY <1>1, <3>1
    <3> QED BY <3>1, <3>2, <3>3, <3>4
  <2> QED BY <2>1, <2>2
<1> HIDE DEF U
<1>2. SUBSET S \subseteq U BY <1>1, InductionOnSubsets
<1> QED BY <1>2 DEF U

\* SumFunctionOnSet is such a fold ...
LEMMA SumIsFold ==
  ASSUME NEW S, IsFiniteSet(S), NEW f
  PROVE  \E h : IsFold("plus", h, f, S) /\ SumFunctionOnSet(f, S) = h[S]
<1> DEFINE h == CHOOSE h : IsFold("plus", h, f, S)
<1>1. IsFold("plus", h, f, S) BY FoldExists
<1>2. SumFunctionOnSet(f, S) = h[S]
  BY DEF IsFold, Turn, Combine, Neutral, SumFunctionOnSet, FoldFunctionOnSet, MapThenFoldSet
<1> QED BY <1>1, <1>2

\* The product over a set, as Blinding of module JPEQT writes it.
ProductOnSet(f, S) == FoldFunctionOnSet(LAMBDA x, y : x * y, 1, f, S)

\* ... and so is the product.
LEMMA ProductIsFold ==
  ASSUME NEW S, IsFiniteSet(S), NEW f
  PROVE  \E h : IsFold("times", h, f, S) /\ ProductOnSet(f, S) = h[S]
<1> DEFINE h == CHOOSE h : IsFold("times", h, f, S)
<1>1. IsFold("times", h, f, S) BY FoldExists
<1>2. ProductOnSet(f, S) = h[S]
  BY DEF IsFold, Turn, Combine, Neutral, ProductOnSet, FoldFunctionOnSet, MapThenFoldSet
<1> QED BY <1>1, <1>2

-----------------------------------------------------------------------------
(* What the others need: a sum and a product, element by element. *)

\* A sum over a finite set of integers, as D, ESum and KeySum of module
\* JPEQT are: an integer, and element by element in any order.
THEOREM SumFacts ==
  ASSUME NEW S, IsFiniteSet(S), NEW f, \A x \in S : f[x] \in Int
  PROVE  /\ SumFunctionOnSet(f, S) \in Int
         /\ S = {} => SumFunctionOnSet(f, S) = 0
         /\ \A x \in S : SumFunctionOnSet(f, S) = f[x] + SumFunctionOnSet(f, S \ {x})
<1>1. PICK h : IsFold("plus", h, f, S) /\ SumFunctionOnSet(f, S) = h[S] BY SumIsFold
<1>2. /\ h[S] \in Int
      /\ \A x \in S : h[S] = f[x] + h[S \ {x}]
  <2>1. \A x \in S : h[S] \in Int /\ h[S] = Combine("plus", f[x], h[S \ {x}])
    BY <1>1, FoldRemove DEF Operators
  <2>2. h[S] \in Int BY <1>1, FoldRemove DEF Operators
  <2> QED BY <2>1, <2>2 DEF Combine
<1>3. S = {} => h[S] = 0 BY <1>1 DEF IsFold, Turn, Neutral
<1>4. ASSUME NEW x \in S PROVE SumFunctionOnSet(f, S \ {x}) = h[S \ {x}]
  <2>1. IsFiniteSet(S \ {x}) BY FS_RemoveElement
  <2>2. PICK k : IsFold("plus", k, f, S \ {x}) /\ SumFunctionOnSet(f, S \ {x}) = k[S \ {x}]
    BY <2>1, SumIsFold
  <2>3. \A s \in SUBSET (S \ {x}) : h[s] = k[s] BY <1>1, <2>1, <2>2, FoldSame
  <2> QED BY <2>2, <2>3
<1> QED BY <1>1, <1>2, <1>3, <1>4

\* Functions that agree on the set have the same sum.
THEOREM SumSame ==
  ASSUME NEW S, IsFiniteSet(S), NEW f, NEW g, \A x \in S : f[x] = g[x]
  PROVE  SumFunctionOnSet(f, S) = SumFunctionOnSet(g, S)
<1>1. PICK h : IsFold("plus", h, f, S) /\ SumFunctionOnSet(f, S) = h[S] BY SumIsFold
<1>2. PICK k : IsFold("plus", k, g, S) /\ SumFunctionOnSet(g, S) = k[S] BY SumIsFold
<1> QED BY <1>1, <1>2, FoldSame

\* The same of a product (Blinding).
LEMMA ProductFacts ==
  ASSUME NEW S, IsFiniteSet(S), NEW f, \A x \in S : f[x] \in Int
  PROVE  /\ ProductOnSet(f, S) \in Int
         /\ S = {} => ProductOnSet(f, S) = 1
         /\ \A x \in S : ProductOnSet(f, S) = f[x] * ProductOnSet(f, S \ {x})
<1>1. PICK h : IsFold("times", h, f, S) /\ ProductOnSet(f, S) = h[S] BY ProductIsFold
<1>2. /\ h[S] \in Int
      /\ \A x \in S : h[S] = f[x] * h[S \ {x}]
  <2>1. \A x \in S : h[S] \in Int /\ h[S] = Combine("times", f[x], h[S \ {x}])
    BY <1>1, FoldRemove DEF Operators
  <2>2. h[S] \in Int BY <1>1, FoldRemove DEF Operators
  <2> QED BY <2>1, <2>2 DEF Combine
<1>3. S = {} => h[S] = 1 BY <1>1 DEF IsFold, Turn, Neutral
<1>4. ASSUME NEW x \in S PROVE ProductOnSet(f, S \ {x}) = h[S \ {x}]
  <2>1. IsFiniteSet(S \ {x}) BY FS_RemoveElement
  <2>2. PICK k : IsFold("times", k, f, S \ {x}) /\ ProductOnSet(f, S \ {x}) = k[S \ {x}]
    BY <2>1, ProductIsFold
  <2>3. \A s \in SUBSET (S \ {x}) : h[s] = k[s] BY <1>1, <2>1, <2>2, FoldSame
  <2> QED BY <2>2, <2>3
<1> QED BY <1>1, <1>2, <1>3, <1>4

\* Functions that agree on the set have the same product.
THEOREM ProductSame ==
  ASSUME NEW S, IsFiniteSet(S), NEW f, NEW g, \A x \in S : f[x] = g[x]
  PROVE  ProductOnSet(f, S) = ProductOnSet(g, S)
<1>1. PICK h : IsFold("times", h, f, S) /\ ProductOnSet(f, S) = h[S] BY ProductIsFold
<1>2. PICK k : IsFold("times", k, g, S) /\ ProductOnSet(g, S) = k[S] BY ProductIsFold
<1> QED BY <1>1, <1>2, FoldSame

\* A product of ones.
LEMMA ProductOnes ==
  ASSUME NEW S, IsFiniteSet(S), NEW f, \A x \in S : f[x] = 1
  PROVE  ProductOnSet(f, S) = 1
<1> DEFINE U == {s \in SUBSET S : ProductOnSet(f, s) = 1}
<1>1. ASSUME NEW s \in SUBSET S, \A r \in SUBSET s : r # s => r \in U
      PROVE  s \in U
  <2>0. IsFiniteSet(s) /\ \A x \in s : f[x] \in Int BY FS_Subset
  <2>1. CASE s = {} BY <2>0, <2>1, ProductFacts
  <2>2. CASE s # {}
    <3>1. PICK x \in s : TRUE BY <2>2
    <3>2. ProductOnSet(f, s) = f[x] * ProductOnSet(f, s \ {x}) BY <2>0, <3>1, ProductFacts
    <3>3. s \ {x} \in U BY <1>1, <3>1
    <3>4. ProductOnSet(f, s \ {x}) = 1 /\ f[x] = 1 BY <3>1, <3>3
    <3> QED BY <3>2, <3>4
  <2> QED BY <2>1, <2>2
<1> HIDE DEF U
<1>2. SUBSET S \subseteq U BY <1>1, InductionOnSubsets
<1> QED BY <1>2 DEF U

-----------------------------------------------------------------------------
(* Loops over a sequence.  FoldLeft and FoldRight are recursive functions on  *)
(* the sets of places of the sequence; FoldLeft takes the largest place last, *)
(* FoldRight the least one.                                                   *)

\* The place that is taken last.
LastTaken(side, s) == IF side = "right" THEN Min(s) ELSE Max(s)

Unrolled(h, side, kind, ctx, base, seq, s) ==
  IF s = {} THEN base
  ELSE OneRound(kind, ctx, seq[LastTaken(side, s)], h[s \ {LastTaken(side, s)}])

IsUnrolling(h, side, kind, ctx, base, seq, n) ==
  h = [s \in SUBSET (1..n) |-> Unrolled(h, side, kind, ctx, base, seq, s)]

\* A set of places has a least and a largest one.
LEMMA Taking ==
  ASSUME NEW n \in Nat, NEW s \in SUBSET (1..n), s # {}, NEW side \in {"left", "right"}
  PROVE  /\ LastTaken(side, s) \in s
         /\ side = "left" => \A x \in s : x <= LastTaken(side, s)
         /\ side = "right" => \A x \in s : LastTaken(side, s) <= x
<1>1. IsFiniteSet(s) /\ s \in SUBSET Nat
  <2>1. IsFiniteSet(1..n) BY FS_Interval
  <2>2. IsFiniteSet(s) BY <2>1, FS_Subset
  <2>3. \A x \in s : x \in Nat OBVIOUS
  <2> QED BY <2>2, <2>3
<1>2. Max(s) \in s /\ \A x \in s : x <= Max(s) BY <1>1, MaxIs
<1>3. Min(s) \in s /\ \A x \in s : Min(s) <= x
  <2>1. \E x \in s : \A y \in s : x <= y BY <1>1, LeastNat
  <2> QED BY <2>1 DEF Min
<1> QED BY <1>2, <1>3 DEF LastTaken

\* The recursion has a solution.
LEMMA UnrollingExists ==
  ASSUME NEW n \in Nat, NEW side \in {"left", "right"}, NEW kind, NEW ctx, NEW base, NEW seq
  PROVE  \E h : IsUnrolling(h, side, kind, ctx, base, seq, n)
<1> DEFINE Turning(h, s) == Unrolled(h, side, kind, ctx, base, seq, s)
           Within(m) == {s \in SUBSET (1..n) : Cardinality(s) <= m}
           Good(m, h) == \A s \in Within(m) : h[s] = Turning(h, s)
           U == {m \in Nat : \E h : Good(m, h)}
<1>0. /\ IsFiniteSet(1..n) /\ Cardinality(1..n) = n
      /\ \A s \in SUBSET (1..n) : IsFiniteSet(s) /\ Cardinality(s) \in Nat /\ Cardinality(s) <= n
  <2>1. IsFiniteSet(1..n) /\ Cardinality(1..n) = n BY FS_Interval
  <2>2. \A s \in SUBSET (1..n) : IsFiniteSet(s) /\ Cardinality(s) <= Cardinality(1..n)
    BY <2>1, FS_Subset
  <2> QED BY <2>1, <2>2, FS_CardinalityType
<1>r. ASSUME NEW s \in SUBSET (1..n), s # {}
      PROVE  LET r == s \ {LastTaken(side, s)}
             IN  r \in SUBSET (1..n) /\ Cardinality(r) = Cardinality(s) - 1
  <2> DEFINE x == LastTaken(side, s)
  <2>1. x \in s BY <1>r, Taking
  <2> HIDE DEF x
  <2>2. Cardinality(s \ {x}) = Cardinality(s) - 1 BY <2>1, <1>0, FS_RemoveElement
  <2> QED BY <2>2 DEF x
<1>1. 0 \in U
  <2> DEFINE h == [s \in SUBSET (1..n) |-> base]
  <2>1. \A s \in Within(0) : s = {} BY <1>0, FS_EmptySet
  <2>2. Good(0, h) BY <2>1 DEF Unrolled
  <2> QED BY <2>2
<1>2. ASSUME NEW m \in U PROVE m + 1 \in U
  <2>0. m \in Nat BY <1>2
  <2>1. PICK g : Good(m, g) BY <1>2
  <2> DEFINE h == [s \in SUBSET (1..n) |-> IF s \in Within(m) THEN g[s] ELSE Turning(g, s)]
  <2>2. ASSUME NEW s \in Within(m + 1) PROVE h[s] = Turning(h, s)
    <3>1. h[s] = Turning(g, s) BY <2>1
    <3>2. CASE s = {} BY <3>1, <3>2 DEF Unrolled
    <3>3. CASE s # {}
      <4> DEFINE r == s \ {LastTaken(side, s)}
      <4>1. r \in SUBSET (1..n) /\ Cardinality(r) = Cardinality(s) - 1 BY <3>3, <1>r
      <4>2. Cardinality(s) \in Nat /\ Cardinality(s) <= m + 1 BY <1>0
      <4>3. r \in Within(m) BY <4>1, <4>2, <2>0
      <4>4. h[r] = g[r] BY <4>3
      <4> QED BY <3>1, <3>3, <4>4 DEF Unrolled
    <3> QED BY <3>2, <3>3
  <2> HIDE DEF h
  <2>3. Good(m + 1, h) BY <2>2
  <2> HIDE DEF Good
  <2> QED BY <2>0, <2>3
<1> HIDE DEF Good
<1>3. U = Nat BY <1>1, <1>2, InductionOnNat
<1> USE DEF Good
<1>4. PICK g : Good(n, g) BY <1>3
<1> DEFINE h == [s \in SUBSET (1..n) |-> g[s]]
<1>5. \A s \in SUBSET (1..n) : h[s] = Turning(g, s) BY <1>4, <1>0
<1>6. \A s \in SUBSET (1..n) : Turning(g, s) = Turning(h, s)
  <2> SUFFICES ASSUME NEW s \in SUBSET (1..n) PROVE Turning(g, s) = Turning(h, s)
    OBVIOUS
  <2>1. CASE s = {} BY <2>1 DEF Unrolled
  <2>2. CASE s # {}
    <3>1. s \ {LastTaken(side, s)} \in SUBSET (1..n) OBVIOUS
    <3>2. h[s \ {LastTaken(side, s)}] = g[s \ {LastTaken(side, s)}] BY <3>1
    <3> QED BY <2>2, <3>2 DEF Unrolled
  <2> QED BY <2>1, <2>2
<1>7. h = [s \in SUBSET (1..n) |-> Turning(h, s)] BY <1>5, <1>6
<1> QED BY <1>7 DEF IsUnrolling

AreRounds(g, side, kind, ctx, base, seq, n) ==
  /\ g[0] = base
  /\ \A k \in 0..(n - 1) :
       g[k + 1] = OneRound(kind, ctx, seq[IF side = "right" THEN n - k ELSE k + 1], g[k])

\* Place by place: the fold of the first (or last) k places from the fold of one place less.
LEMMA RoundByRound ==
  ASSUME NEW n \in Nat, NEW side \in {"left", "right"}, NEW kind, NEW ctx, NEW base, NEW seq,
         NEW h, IsUnrolling(h, side, kind, ctx, base, seq, n)
  PROVE  \E g : AreRounds(g, side, kind, ctx, base, seq, n) /\ g[n] = h[1..n]
<1> DEFINE seg(k) == IF side = "right" THEN (n - k + 1)..n ELSE 1..k
           g == [k \in 0..n |-> h[seg(k)]]
<1>1. \A s \in SUBSET (1..n) : h[s] = Unrolled(h, side, kind, ctx, base, seq, s)
  BY DEF IsUnrolling
<1>2. g[0] = base
  <2>1. seg(0) = {} OBVIOUS
  <2>2. g[0] = h[{}] BY <2>1
  <2>3. h[{}] = base BY <1>1 DEF Unrolled
  <2> QED BY <2>2, <2>3
<1>3. g[n] = h[1..n]
  <2>1. seg(n) = 1..n OBVIOUS
  <2> QED BY <2>1
<1>4. ASSUME NEW k \in 0..(n - 1)
      PROVE  g[k + 1] = OneRound(kind, ctx, seq[IF side = "right" THEN n - k ELSE k + 1], g[k])
  <2> DEFINE x == IF side = "right" THEN n - k ELSE k + 1
             s == seg(k + 1)
             t == LastTaken(side, s)
  <2>1. s \in SUBSET (1..n) /\ x \in s /\ x \in Int /\ s \ {x} = seg(k)
    <3>1. CASE side = "right" BY <3>1
    <3>2. CASE side = "left" BY <3>2
    <3> QED BY <3>1, <3>2
  <2>2. (side = "left" => \A y \in s : y <= x) /\ (side = "right" => \A y \in s : x <= y) OBVIOUS
  <2>3. t \in s /\ (side = "left" => \A y \in s : y <= t) /\ (side = "right" => \A y \in s : t <= y)
    <3>1. s # {} BY <2>1
    <3>2. PICK z : z = s OBVIOUS
    <3>3. z \in SUBSET (1..n) /\ z # {} BY <2>1, <3>1, <3>2
    <3> HIDE DEF s
    <3>4. /\ LastTaken(side, z) \in z
          /\ side = "left" => \A y \in z : y <= LastTaken(side, z)
          /\ side = "right" => \A y \in z : LastTaken(side, z) <= y
      BY ONLY n \in Nat, side \in {"left", "right"}, <3>3, Taking
    <3> QED BY <3>2, <3>4
  <2>4. t = x
    <3>1. t \in Int /\ x \in Int BY <2>1, <2>3
    <3>2. (side = "left" => t <= x /\ x <= t) /\ (side = "right" => x <= t /\ t <= x) BY <2>1, <2>2, <2>3
    <3> HIDE DEF t, x, s
    <3> QED BY <3>1, <3>2
  <2>5. g[k + 1] = h[s] /\ g[k] = h[seg(k)] OBVIOUS
  <2>6. s # {} /\ h[s] = Unrolled(h, side, kind, ctx, base, seq, s) BY <1>1, <2>1
  <2> HIDE DEF g, s, x
  <2>7. h[s] = OneRound(kind, ctx, seq[t], h[s \ {t}]) BY <2>6 DEF Unrolled
  <2> QED BY <2>1, <2>4, <2>5, <2>7 DEF x
<1>5. AreRounds(g, side, kind, ctx, base, seq, n) BY <1>2, <1>4 DEF AreRounds
<1> QED BY <1>3, <1>5

-----------------------------------------------------------------------------
(* Sequences whose elements need no type. *)

Listing(s) == Len(s) \in Nat /\ s = [k \in 1..Len(s) |-> s[k]]

LEMMA ListingSeq ==
  ASSUME NEW s
  PROVE  /\ Listing(s) => /\ s \in Seq({s[k] : k \in 1..Len(s)})
                          /\ DOMAIN s = 1..Len(s)
         /\ \A S : s \in Seq(S) => Listing(s)
<1>1. ASSUME Listing(s) PROVE s \in Seq({s[k] : k \in 1..Len(s)}) /\ DOMAIN s = 1..Len(s)
  <2> DEFINE S == {s[k] : k \in 1..Len(s)}
  <2>1. Len(s) \in Nat /\ s \in [1..Len(s) -> S] BY <1>1 DEF Listing
  <2>2. s \in UNION {[1..n -> S] : n \in Nat} BY <2>1
  <2>3. Seq(S) = UNION {[1..n -> S] : n \in Nat} BY SeqDef
  <2> QED BY <2>1, <2>2, <2>3
<1>2. ASSUME NEW S, s \in Seq(S) PROVE Listing(s)
  BY <1>2, LenProperties DEF Listing
<1> QED BY <1>1, <1>2

LEMMA ListingOf ==
  ASSUME NEW n \in Nat, NEW f, f = [k \in 1..n |-> f[k]]
  PROVE  Listing(f) /\ Len(f) = n /\ DOMAIN f = 1..n
<1> DEFINE S == {f[k] : k \in 1..n}
<1>1. f \in [1..n -> S] OBVIOUS
<1>2. f \in Seq(S) BY <1>1
<1>3. Listing(f) BY <1>2, ListingSeq
<1>4. DOMAIN f = 1..n /\ DOMAIN f = 1..Len(f) /\ Len(f) \in Nat BY <1>2, LenProperties
<1>5. Len(f) = n
  <2> DEFINE m == Len(f)
  <2>1. m \in Nat /\ 1..m = 1..n BY <1>4
  <2> HIDE DEF m
  <2>2. \A x \in 1..n : x <= m BY <2>1
  <2>3. \A x \in 1..m : x <= n BY <2>1
  <2> QED BY <2>1, <2>2, <2>3 DEF m
<1> QED BY <1>3, <1>4, <1>5

LEMMA ListingAppend ==
  ASSUME NEW s, Listing(s), NEW x
  PROVE  /\ Listing(Append(s, x)) /\ Len(Append(s, x)) = Len(s) + 1
         /\ \A k \in 1..Len(s) : Append(s, x)[k] = s[k]
         /\ Append(s, x)[Len(s) + 1] = x
<1> DEFINE S == {s[k] : k \in 1..Len(s)} \cup {x}
<1>1. s \in Seq(S)
  <2>1. s \in Seq({s[k] : k \in 1..Len(s)}) BY ListingSeq
  <2> QED BY <2>1, SeqMonotonic
<1>2. x \in S OBVIOUS
<1> HIDE DEF S
<1>3. /\ Append(s, x) \in Seq(S) /\ Len(Append(s, x)) = Len(s) + 1
      /\ \A k \in 1..Len(s) : Append(s, x)[k] = s[k]
      /\ Append(s, x)[Len(s) + 1] = x
  BY <1>1, <1>2, AppendProperties
<1>4. Listing(Append(s, x)) BY <1>3, ListingSeq
<1> QED BY <1>3, <1>4

-----------------------------------------------------------------------------
\* Division with remainder.
LEMMA Remainder ==
  ASSUME NEW q \in Nat \ {0}, NEW x \in Int
  PROVE  /\ x \div q \in Int /\ x % q \in 0..(q - 1)
         /\ x = q * (x \div q) + (x % q)
BY SMT

\* A remainder of zero is divisibility.
LEMMA Multiple ==
  ASSUME NEW q \in Nat \ {0}, NEW x \in Int
  PROVE  x % q = 0 <=> \E k \in Int : x = q * k
<1>1. ASSUME NEW k \in Int, x = q * k PROVE x % q = 0
  <2> DEFINE d == x \div q
             r == x % q
  <2>1. d \in Int /\ r \in 0..(q - 1) /\ q * k = q * d + r BY <1>1, Remainder
  <2> HIDE DEF d, r
  <2>2. r = q * (k - d) BY <2>1, SMT
  <2>3. CASE k - d >= 1
    <3>1. q * (k - d) >= q * 1 BY <2>1, <2>3, SMT
    <3> QED BY <2>1, <2>2, <3>1, SMT
  <2>4. CASE k - d <= -1
    <3>1. q * (k - d) <= q * (-1) BY <2>1, <2>4, SMT
    <3> QED BY <2>1, <2>2, <3>1, SMT
  <2>5. CASE k - d = 0
    <3>1. r = 0 BY <2>1, <2>2, <2>5, SMT
    <3> QED BY <3>1 DEF r
  <2> QED BY <2>1, <2>3, <2>4, <2>5, SMT
<1>2. ASSUME x % q = 0 PROVE x = q * (x \div q) /\ x \div q \in Int BY <1>2, Remainder, SMT
<1> QED BY <1>1, <1>2

\* Differences of multiples are multiples.
LEMMA Multiples ==
  ASSUME NEW q \in Nat \ {0}, NEW x \in Int, NEW y \in Int, NEW k \in Int, x % q = 0, y % q = 0
  PROVE  (x - k * y) % q = 0
<1>1. PICK i \in Int : x = q * i BY Multiple
<1>2. PICK j \in Int : y = q * j BY Multiple
<1>3. x - k * y = q * (i - k * j) /\ i - k * j \in Int /\ x - k * y \in Int BY <1>1, <1>2, SMT
<1> QED BY <1>3, Multiple

\* Euclid: a prime that divides a product divides one of the factors.
LEMMA Euclid ==
  ASSUME NEW q \in Nat, q >= 2, \A d \in 2..(q - 1) : q % d # 0,
         NEW a \in Int, NEW b \in Int, (a * b) % q = 0
  PROVE  a % q = 0 \/ b % q = 0
<1>0. q \in Nat \ {0} BY SMT
<1> DEFINE T == {n \in Nat \ {0} : (n * b) % q = 0}
<1>1. (q * b) % q = 0 /\ q * b \in Int BY <1>0, Multiple, SMT
<1>2. q \in T BY <1>1
<1>3. PICK m \in T : \A n \in T : m <= n BY <1>2, LeastNat
<1>4. m \in Nat \ {0} /\ (m * b) % q = 0 BY <1>3
<1>5. ASSUME NEW c \in Int, (c * b) % q = 0 PROVE c % m = 0
  <2> DEFINE d == c \div m
             r == c % m
  <2>1. d \in Int /\ r \in 0..(m - 1) /\ c = m * d + r BY <1>4, Remainder
  <2> HIDE DEF d, r
  <2>2. r * b = c * b - d * (m * b) /\ c * b \in Int /\ m * b \in Int BY <2>1, <1>4, SMT
  <2>3. (r * b) % q = 0 BY <1>0, <2>1, <2>2, <1>4, <1>5, Multiples
  <2>4. r = 0 BY <1>3, <1>4, <2>1, <2>3, SMT
  <2> QED BY <2>4 DEF r
<1>6. q % m = 0
  <2>1. q \in Int /\ (q * b) % q = 0 BY <1>1, SMT
  <2> QED BY <2>1, <1>5
<1>7. m = 1 \/ m = q
  <2>1. m <= q BY <1>2, <1>3
  <2>2. m \notin 2..(q - 1) BY <1>6
  <2> QED BY <2>1, <2>2, <1>4, SMT
<1>8. CASE m = 1
  <2>1. 1 * b = b BY SMT
  <2> QED BY <1>4, <1>8, <2>1
<1>9. CASE m = q BY <1>5, <1>9
<1> QED BY <1>7, <1>8, <1>9

\* A product is divisible by a prime exactly when a factor is.
LEMMA EuclidBoth ==
  ASSUME NEW q \in Nat, q >= 2, \A d \in 2..(q - 1) : q % d # 0,
         NEW a \in Int, NEW b \in Int
  PROVE  (a * b) % q = 0 <=> a % q = 0 \/ b % q = 0
<1>0. q \in Nat \ {0} BY SMT
<1>1. ASSUME NEW u \in Int, NEW v \in Int, u % q = 0 PROVE (u * v) % q = 0 /\ (v * u) % q = 0
  <2>1. PICK k \in Int : u = q * k BY <1>0, <1>1, Multiple
  <2>2. u * v = q * (k * v) /\ v * u = q * (k * v) /\ k * v \in Int /\ u * v \in Int
    BY <2>1, SMT
  <2>3. v * u \in Int BY SMT
  <2> QED BY <1>0, <2>2, <2>3, Multiple
<1>2. ASSUME (a * b) % q = 0 PROVE a % q = 0 \/ b % q = 0 BY <1>2, Euclid
<1> QED BY <1>1, <1>2

\* ... and so for products over a finite set.
LEMMA EuclidProduct ==
  ASSUME NEW q \in Nat, q >= 2, \A d \in 2..(q - 1) : q % d # 0,
         NEW S, IsFiniteSet(S), NEW f, \A x \in S : f[x] \in Int
  PROVE  ProductOnSet(f, S) % q = 0 <=> \E x \in S : f[x] % q = 0
<1>0. q \in Nat \ {0} BY SMT
<1> DEFINE U == {s \in SUBSET S : ProductOnSet(f, s) % q = 0 <=> \E x \in s : f[x] % q = 0}
<1>1. ASSUME NEW s \in SUBSET S, \A r \in SUBSET s : r # s => r \in U
      PROVE  s \in U
  <2>0. IsFiniteSet(s) BY FS_Subset
  <2>1. CASE s = {}
    <3>1. ProductOnSet(f, s) = 1 BY <2>0, <2>1, ProductFacts
    <3>2. 1 % q # 0 BY SMT
    <3> QED BY <2>1, <3>1, <3>2
  <2>2. CASE s # {}
    <3>1. PICK x \in s : TRUE BY <2>2
    <3> DEFINE r == s \ {x}
               p == ProductOnSet(f, r)
    <3>2. ProductOnSet(f, s) = f[x] * p BY <2>0, <3>1, ProductFacts
    <3>3. IsFiniteSet(r) /\ r \in U BY <1>1, <2>0, <3>1, FS_RemoveElement
    <3>4. p \in Int /\ f[x] \in Int BY <3>3, ProductFacts
    <3>5. p % q = 0 <=> \E y \in r : f[y] % q = 0 BY <3>3
    <3> HIDE DEF p
    <3>6. (f[x] * p) % q = 0 <=> f[x] % q = 0 \/ p % q = 0 BY <3>4, EuclidBoth
    <3>7. ProductOnSet(f, s) % q = 0 <=> f[x] % q = 0 \/ \E y \in r : f[y] % q = 0
      BY <3>2, <3>5, <3>6
    <3> QED BY <3>1, <3>7
  <2> QED BY <2>1, <2>2
<1> HIDE DEF U
<1>2. SUBSET S \subseteq U BY <1>1, InductionOnSubsets
<1> QED BY <1>2 DEF U

-----------------------------------------------------------------------------
(* Numbers that are equal up to multiples of q.                               *)
Congruent(q, a, b) == \E k \in Int : a = b + q * k

\* It is an equivalence, and equality of remainders.
LEMMA Congruence ==
  ASSUME NEW q \in Nat \ {0}
  PROVE  /\ \A a \in Int : Congruent(q, a, a) /\ Congruent(q, a % q, a)
         /\ \A a, b \in Int : Congruent(q, a, b) => Congruent(q, b, a) /\ a % q = b % q
         /\ \A a, b, c \in Int : Congruent(q, a, b) /\ Congruent(q, b, c) => Congruent(q, a, c)
<1>1. ASSUME NEW a \in Int PROVE Congruent(q, a, a) /\ Congruent(q, a % q, a)
  <2>1. a = a + q * 0 /\ 0 \in Int BY SMT
  <2> DEFINE d == a \div q
             r == a % q
  <2>2. d \in Int /\ r \in Int /\ a = q * d + r BY Remainder, SMT
  <2> HIDE DEF d, r
  <2>3. -d \in Int /\ r = a + q * (-d) BY <2>2, SMT
  <2> QED BY <2>1, <2>3 DEF r, Congruent
<1>2. ASSUME NEW a \in Int, NEW b \in Int, Congruent(q, a, b)
      PROVE  Congruent(q, b, a) /\ a % q = b % q
  <2>1. PICK k \in Int : a = b + q * k BY <1>2 DEF Congruent
  <2>2. b = a + q * (-k) /\ -k \in Int BY <2>1, SMT
  <2> DEFINE d == a \div q
             r == a % q
             e == b \div q
             s == b % q
  <2>3. d \in Int /\ r \in 0..(q - 1) /\ a = q * d + r BY Remainder, SMT
  <2>4. e \in Int /\ s \in 0..(q - 1) /\ b = q * e + s BY Remainder, SMT
  <2> HIDE DEF d, r, e, s
  <2>5. r - s = q * (e + k - d) /\ r - s \in Int /\ e + k - d \in Int BY <2>1, <2>3, <2>4, SMT
  <2>6. CASE e + k - d = 0
    <3>1. q * (e + k - d) = 0 BY <2>6
    <3>2. r = s BY <2>3, <2>4, <2>5, <3>1, SMT
    <3> QED BY <2>2, <3>2 DEF r, s, Congruent
  <2>7. CASE e + k - d >= 1
    <3>1. q * (e + k - d) >= q * 1 BY <2>5, <2>7, SMT
    <3> QED BY <2>3, <2>4, <2>5, <3>1, SMT
  <2>8. CASE e + k - d <= -1
    <3>1. q * (e + k - d) <= q * (-1) BY <2>5, <2>8, SMT
    <3> QED BY <2>3, <2>4, <2>5, <3>1, SMT
  <2> QED BY <2>5, <2>6, <2>7, <2>8, SMT
<1>3. ASSUME NEW a \in Int, NEW b \in Int, NEW c \in Int, Congruent(q, a, b), Congruent(q, b, c)
      PROVE  Congruent(q, a, c)
  <2>1. PICK k \in Int : a = b + q * k BY <1>3 DEF Congruent
  <2>2. PICK l \in Int : b = c + q * l BY <1>3 DEF Congruent
  <2>3. a = c + q * (k + l) /\ k + l \in Int BY <2>1, <2>2, SMT
  <2> QED BY <2>3 DEF Congruent
<1> QED BY <1>1, <1>2, <1>3

\* Transitivity, to be cited on its own.
LEMMA CongruentChain ==
  ASSUME NEW q \in Nat \ {0}, NEW a \in Int, NEW b \in Int, NEW c \in Int,
         Congruent(q, a, b), Congruent(q, b, c)
  PROVE  Congruent(q, a, c)
BY Congruence

\* The remainder will do for the number.
LEMMA CongruentRemainder ==
  ASSUME NEW q \in Nat \ {0}, NEW a \in Int, NEW b \in Int, Congruent(q, a, b)
  PROVE  a % q \in Int /\ Congruent(q, a % q, b)
<1>1. a % q \in Int BY Remainder, SMT
<1>2. Congruent(q, a % q, a) BY Congruence
<1> QED BY <1>1, <1>2, CongruentChain

\* Sums of congruent numbers.
LEMMA CongruentSum ==
  ASSUME NEW q \in Nat \ {0}, NEW a \in Int, NEW b \in Int, NEW c \in Int, NEW d \in Int,
         Congruent(q, a, b), Congruent(q, c, d)
  PROVE  Congruent(q, a + c, b + d)
<1>1. PICK k \in Int : a = b + q * k BY DEF Congruent
<1>2. PICK l \in Int : c = d + q * l BY DEF Congruent
<1>3. a + c = (b + d) + q * (k + l) /\ k + l \in Int BY <1>1, <1>2, SMT
<1> QED BY <1>3 DEF Congruent

\* Products of congruent numbers.
LEMMA CongruentProduct ==
  ASSUME NEW q \in Nat \ {0}, NEW a \in Int, NEW b \in Int, NEW c \in Int, NEW d \in Int,
         Congruent(q, a, b), Congruent(q, c, d)
  PROVE  Congruent(q, a * c, b * d)
<1>1. PICK k \in Int : a = b + q * k BY DEF Congruent
<1>2. PICK l \in Int : c = d + q * l BY DEF Congruent
<1>3. a * c = b * d + q * (b * l + k * d + q * (k * l))
  <2> DEFINE u == q * k
             v == q * l
  <2>1. u \in Int /\ v \in Int BY SMT
  <2>2. a * c = b * d + b * v + u * d + u * v BY <1>1, <1>2, <2>1, SMT
  <2>3. b * v = q * (b * l) /\ u * d = q * (k * d) /\ u * v = q * (q * (k * l)) BY SMT
  <2>4. b * l \in Int /\ k * d \in Int /\ q * (k * l) \in Int BY SMT
  <2> HIDE DEF u, v
  <2> DEFINE x == b * l
             y == k * d
             z == q * (k * l)
  <2>5. q * (x + y + z) = q * x + q * y + q * z BY <2>4, SMT
  <2>6. b * d \in Int BY SMT
  <2>7. b * v + u * d + u * v = q * (x + y + z) BY <2>3, <2>4, <2>5
  <2>8. b * v \in Int /\ u * d \in Int /\ u * v \in Int BY <2>1, SMT
  <2> HIDE DEF x, y, z
  <2> QED BY <2>2, <2>6, <2>7, <2>8, SMT DEF x, y, z
<1>4. b * l + k * d + q * (k * l) \in Int BY SMT
<1> QED BY <1>3, <1>4 DEF Congruent


\* A multiple of a sum, term by term: t is what it comes to.
LEMMA SumCongruent ==
  ASSUME NEW q \in Nat \ {0}, NEW a \in Int, NEW n \in Nat,
         NEW f, \A k \in 1..n : f[k] \in Int,
         NEW t, \A k \in 0..n : t[k] \in Int, t[0] = 0,
         \A k \in 0..(n - 1) : Congruent(q, t[k + 1], t[k] + a * f[k + 1])
  PROVE  Congruent(q, a * SumFunctionOnSet(f, 1..n), t[n])
<1> DEFINE sum(k) == SumFunctionOnSet(f, 1..k)
           T == {k \in Nat : k <= n => Congruent(q, a * sum(k), t[k])}
<1>1. 0 \in T
  <2>1. 1..0 = {} OBVIOUS
  <2>2. sum(0) = 0
    <3>1. IsFiniteSet({}) BY FS_EmptySet
    <3>2. SumFunctionOnSet(f, {}) = 0 BY <3>1, SumFacts
    <3> QED BY <2>1, <3>2
  <2>3. a * sum(0) = 0 BY <2>2, SMT
  <2>4. Congruent(q, 0, 0) BY Congruence
  <2> QED BY <2>3, <2>4
<1>2. ASSUME NEW k \in T PROVE k + 1 \in T
  <2> SUFFICES ASSUME k + 1 <= n PROVE Congruent(q, a * sum(k + 1), t[k + 1]) BY <1>2
  <2>0. k \in Nat /\ k \in 0..(n - 1) /\ k + 1 \in 1..n /\ k \in 0..n /\ k + 1 \in 0..n
    BY <1>2
  <2>1. Congruent(q, a * sum(k), t[k]) BY <1>2, <2>0
  <2>2. sum(k) \in Int /\ sum(k + 1) = f[k + 1] + sum(k)
    <3>1. IsFiniteSet(1..k) /\ IsFiniteSet(1..(k + 1)) BY <2>0, FS_Interval
    <3>2. (1..(k + 1)) \ {k + 1} = 1..k /\ k + 1 \in 1..(k + 1) BY <2>0
    <3>3. \A j \in 1..(k + 1) : f[j] \in Int BY <2>0
    <3>4. \A j \in 1..k : f[j] \in Int BY <2>0
    <3>5. sum(k) \in Int BY <3>1, <3>4, SumFacts
    <3>6. SumFunctionOnSet(f, 1..(k + 1)) =
            f[k + 1] + SumFunctionOnSet(f, (1..(k + 1)) \ {k + 1})
      BY <3>1, <3>2, <3>3, SumFacts
    <3> QED BY <3>2, <3>5, <3>6
  <2> HIDE DEF sum
  <2> DEFINE y == f[k + 1]
  <2>3. y \in Int /\ t[k] \in Int /\ t[k + 1] \in Int BY <2>0
  <2>4. Congruent(q, t[k + 1], t[k] + a * y) BY <2>0
  <2>y. sum(k + 1) = y + sum(k) BY <2>2
  <2> HIDE DEF y
  <2>5. a * sum(k) \in Int /\ a * y \in Int /\ a * sum(k + 1) \in Int BY <2>2, <2>3, <2>y, SMT
  <2>6. Congruent(q, a * y, a * y) BY <2>5, Congruence
  <2>7. Congruent(q, a * sum(k) + a * y, t[k] + a * y)
    BY ONLY q \in Nat \ {0}, <2>1, <2>3, <2>5, <2>6, CongruentSum
  <2>8. a * sum(k + 1) = a * sum(k) + a * y BY <2>2, <2>3, <2>y, SMT
  <2>9. t[k] + a * y \in Int BY <2>3, <2>5
  <2>10. Congruent(q, t[k] + a * y, t[k + 1]) BY <2>3, <2>4, <2>9, Congruence
  <2> DEFINE l == a * sum(k + 1)
             m == t[k] + a * y
             r == t[k + 1]
  <2>11. l \in Int /\ m \in Int /\ r \in Int BY <2>3, <2>5, <2>9
  <2>12. Congruent(q, l, m) BY <2>7, <2>8
  <2>13. Congruent(q, m, r) BY <2>10
  <2> HIDE DEF l, m, r
  <2>14. Congruent(q, l, r) BY ONLY q \in Nat \ {0}, <2>11, <2>12, <2>13, Congruence
  <2> QED BY <2>14 DEF l, r
<1> HIDE DEF T
<1>t. T \in SUBSET Nat BY DEF T
<1>3. T = Nat BY <1>t, <1>1, <1>2, InductionOnNat
<1> USE DEF T
<1> QED BY <1>3
=============================================================================
