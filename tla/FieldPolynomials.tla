-------------------------- MODULE FieldPolynomials --------------------------
(* Polynomials over the plain modulus, as the receiver builds them from its   *)
(* bins (common/apsu/util/interpolate.cpp): a polynomial is the sequence of   *)
(* its coefficients, the constant term first.                                 *)
EXTENDS Integers, Sequences, SequencesExt

CONSTANT mod     \* the plain modulus, a prime

\* The SEAL parameters require a prime plain modulus.
ASSUME ModAssumption == mod \in Nat /\ mod >= 2 /\ \A d \in 2..(mod - 1) : mod % d # 0

Felt == 0..(mod - 1)

\* The value of a polynomial at a point.
ValueAt(polyn, x) == FoldRight(LAMBDA c, acc : (c + x * acc) % mod, polyn, 0)

\* (x - a) * polyn: coefficient i becomes polyn[i-1] - a * polyn[i].
MulMonicMonomial(polyn, a) ==
  LET c == polyn \o <<0>>
  IN  [i \in 1..Len(c) |-> ((IF i > 1 THEN c[i - 1] ELSE 0) - a * c[i]) % mod]

\* The monic polynomial whose roots are the items of a bin, repeated ones as often as they occur.
PolynWithRoots(roots) == FoldLeft(MulMonicMonomial, <<1>>, roots)

InverseMod(d) == (d ^ (mod - 2)) % mod      \* mod is prime

\* Fermat's little theorem, for this modulus.
InversesRight == \A d \in Felt \ {0} : InverseMod(d) \in Felt /\ (d * InverseMod(d)) % mod = 1

\* DD[j][i]: the divided difference of the values i..i+j.
DividedDifferences(points, values) ==
  LET n == Len(points)
      dd[j \in 0..(n - 1)] ==
        IF j = 0 THEN values
        ELSE [i \in 1..(n - j) |->
               ((dd[j - 1][i + 1] - dd[j - 1][i])
                  * InverseMod((points[i + j] - points[i]) % mod)) % mod]
  IN  dd

\* "tried to interpolate at repeated points" (or points and values of two lengths).
CannotInterpolate(points, values) ==
  \/ Len(points) # Len(values)
  \/ /\ \E i \in DOMAIN values : values[i] # 0
     /\ ~IsInjective(points)

\* The polynomial that takes the given values at the given points, by Horner's method on the
\* Newton form; all values zero (no points at all included) give a vector of zeros.
NewtonInterpolatePolyn(points, values) ==
  IF \A i \in DOMAIN values : values[i] = 0
  THEN [i \in 1..(IF points = <<>> THEN 1 ELSE Len(points)) |-> 0]
  ELSE LET dd == DividedDifferences(points, values)
           AddTo(p, c) == [p EXCEPT ![1] = (@ + c) % mod]
           inner == FoldRight(LAMBDA i, p : MulMonicMonomial(AddTo(p, dd[i][1]), points[i]),
                              [i \in 1..(Len(points) - 1) |-> i], <<0>>)
       IN  AddTo(inner, dd[0][1])
=============================================================================
