------------------------------ MODULE ElGamal ------------------------------
(***************************************************************************)
(* The exponential ElGamal operations of src/JPEQT/elgamal.h and of the    *)
(* Kunlun library it calls.                                                *)
(*                                                                         *)
(* A curve point g^x is represented by a discrete logarithm x of it, which *)
(* is defined only modulo the order of the group.  Exponents are therefore *)
(* kept unreduced and the reduction happens where the code compares two    *)
(* points: SamePoint.  Adding points adds logarithms and multiplying a     *)
(* point by a scalar multiplies its logarithm.                             *)
(***************************************************************************)
EXTENDS Integers

CONSTANT Order      \* the order of the group, a prime

ASSUME OrderAssumption ==
  Order \in Nat /\ Order >= 2 /\ \A d \in 2..(Order - 1) : Order % d # 0

CT == [X : Int, Y : Int]

SamePoint(x, y) == (x - y) % Order = 0

\* The encryption of zero with zero randomness: both points at infinity.
ZeroCT == [X |-> 0, Y |-> 0]

Enc(pk, m, r) == [X |-> r, Y |-> m + pk * r]

HomoAdd(c1, c2) == [X |-> c1.X + c2.X, Y |-> c1.Y + c2.Y]

HomoSub(c1, c2) == [X |-> c1.X - c2.X, Y |-> c1.Y - c2.Y]

ScalarMul(ct, k) == [X |-> k * ct.X, Y |-> k * ct.Y]

\* Re-randomisation: a fresh encryption of zero added to ct.
ReEnc(pk, ct, r) == [X |-> r + ct.X, Y |-> pk * r + ct.Y]

\* Incomplete decryption: removes the layer of the holder of sk.
Dec(sk, ct) == [X |-> ct.X, Y |-> ct.Y - ct.X * sk]

\* The test of the last key holder, which also removes its own layer.
Get_intersection(sk, ct) == SamePoint(ct.X * sk, ct.Y)
=============================================================================
