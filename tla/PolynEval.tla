----------------------------- MODULE PolynEval -----------------------------
(***************************************************************************)
(* What the receiver computes with the powers of a query: every bin        *)
(* bundle's batched polynomial is evaluated on them, by eval() or, with    *)
(* Paterson and Stockmeyer's method, by eval_patstock()                    *)
(* (uMCRG/MCRG/receiver/apsu/bin_bundle.cpp), and masked.  One slot of the *)
(* batch is followed: the query's plaintext x, the bin's coefficients, the *)
(* mask.  A ciphertext is the exponent and the form ComputePowers left, so *)
(* its slot is the exponent's power of x.  SEAL throws on operands whose   *)
(* forms do not agree; noise, relinearisation and the cleared low bits are *)
(* not modelled.                                                           *)
(***************************************************************************)
EXTENDS ComputePowers, FieldPolynomials

(* exponentiate_array on the sender: square and multiply, low bits first,  *)
(* until no bit of the exponent is left; as many rounds as the exponent    *)
(* are enough.                                                             *)
SquareAndMultiply(s) ==
    IF s.exponent = 0
    THEN s
    ELSE [value |-> (s.value * s.value) % mod,
          result |-> IF s.exponent % 2 = 1 THEN (s.value * s.result) % mod ELSE s.result,
          exponent |-> s.exponent \div 2]

ExponentiateArray(value, exponent) ==
    FoldLeft(LAMBDA s, round : SquareAndMultiply(s),
             [value |-> value, result |-> 1, exponent |-> exponent],
             [round \in 1..exponent |-> round]).result

HighDegree == LowDegree + 1    \* ps_high_degree

(* How coefficient i is stored: NTT form at the low powers' level, except  *)
(* where it is added, or multiplies a high power.                          *)
CoefficientForm(i) ==
    IF i % (IF LowDegree = 0 THEN i + 1 ELSE HighDegree) = 0
    THEN "high"
    ELSE FinalForm(1)

(* multiply_plain takes power p and coefficient i. *)
Multiplies(p, i) ==
    p \in DOMAIN powers /\ powers[p].form = CoefficientForm(i)

Term(p, c, x) == (ExponentiateArray(x, powers[p].exp) * c) % mod

SumOf(terms) == SumFunctionOnSet(terms, DOMAIN terms) % mod

-----------------------------------------------------------------------------
(* using_ps *)
UsingPS(degree) == LowDegree > 1 /\ LowDegree < degree

(* eval(): coefficient i times power i.  coeffs[i + 1] is coefficient i.   *)
EvalAccepted(degree) == \A i \in 1..degree : Multiplies(i, i)

EvalPolyn(coeffs, x) ==
    SumOf([i \in 1..(Len(coeffs) - 1) |-> Term(i, coeffs[i + 1], x)])

(* The inner polynomial at high power i, its last low power j, no constant *)
(* term; the last one stops at the degree's remainder.                     *)
LastLow(i, degree) ==
    IF i < degree \div HighDegree THEN LowDegree ELSE degree % HighDegree

Inner(coeffs, i, last, x) ==
    SumOf([j \in 1..last |-> Term(j, coeffs[i * HighDegree + j + 1], x)])

HighPowers(degree) == 1..(degree \div HighDegree)

PatstockAccepted(degree) ==
    /\ \A j \in 1..LowDegree : Multiplies(j, j)
    /\ \A i \in HighPowers(degree) : Multiplies(i * HighDegree, i * HighDegree)

\* Mutant: the high power that closes the polynomial has no inner one.
EvalPatstockNoRemainder(coeffs, x) ==
    LET degree == Len(coeffs) - 1
    IN  (SumOf([i \in 1..(degree \div HighDegree - 1) |->
                   Term(i * HighDegree, Inner(coeffs, i, LowDegree, x), x)])
         + Inner(coeffs, 0, LowDegree, x)
         + SumOf([i \in HighPowers(degree) |->
                   Term(i * HighDegree, coeffs[i * HighDegree + 1], x)])) % mod

(* eval_patstock(): the inner polynomials times their high powers, the one *)
(* without a high power, and the high powers' own coefficients.            *)
EvalPatstock(coeffs, x) ==
    LET degree == Len(coeffs) - 1
    IN  (SumOf([i \in HighPowers(degree) |->
                   Term(i * HighDegree, Inner(coeffs, i, LastLow(i, degree), x), x)])
         + Inner(coeffs, 0, LowDegree, x)
         + SumOf([i \in HighPowers(degree) |->
                   Term(i * HighDegree, coeffs[i * HighDegree + 1], x)])) % mod

Accepted(degree) ==
    IF UsingPS(degree) THEN PatstockAccepted(degree) ELSE EvalAccepted(degree)

(* Both evaluations end alike: coefficient 0 is added, and the mask.        *)
AddConstantAndMask(value, coeffs, mask) == (value + coeffs[1] + mask) % mod

(* One slot of ProcessBinBundleCache's result. *)
PsuResult(coeffs, x, mask) ==
    LET value == IF UsingPS(Len(coeffs) - 1)
                 THEN EvalPatstock(coeffs, x)
                 ELSE EvalPolyn(coeffs, x)
    IN  AddConstantAndMask(value, coeffs, mask)

-----------------------------------------------------------------------------
(* The slots checked: 0, -1 and 2, whose powers differ when it is a         *)
(* primitive root, so that no wrong power of it can stand for another.     *)
Items == {0, 2, mod - 1}

(* The largest max_items_per_bin that create_powers_set maps to targets.   *)
LargestBin ==
    IF LowDegree = 0 \/ Max(targets) = LowDegree
    THEN Max(targets)
    ELSE Max(targets) + LowDegree

(* The fullest bin of a bundle, degree items, and one half as full: the    *)
(* polynomials are padded with zeros to the bundle's degree.               *)
BinCoeffs(degree) ==
    {LET p == PolynWithRoots([i \in 1..items |-> (first + i) % mod])
     IN  [i \in 1..(degree + 1) |-> IF i <= Len(p) THEN p[i] ELSE 0] :
        items \in {degree \div 2, degree}, first \in {0, mod \div 2}}

(* ComputePowers, the plan and the two evaluations fit together: on the    *)
(* powers a normal return leaves, no polynomial that fits a bin is refused *)
(* for its form, and every one of every degree, Paterson and Stockmeyer's  *)
(* remainder included, gets the value it has at the sender's item, plus    *)
(* the mask.                                                               *)
EvalRight ==
    (/\ main = "returned" /\ powers # <<>>
     /\ targets = CreatePowersSet(LowDegree, Max(targets))) =>
        \A degree \in 0..LargestBin :
            /\ Accepted(degree)
            /\ \A coeffs \in BinCoeffs(degree), x \in Items :
                PsuResult(coeffs, x, mod - 1)
                    = (ValueAt(coeffs, x) + mod - 1) % mod

=============================================================================
