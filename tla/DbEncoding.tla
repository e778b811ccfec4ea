----------------------------- MODULE DbEncoding -----------------------------
(* Items and labels as field elements (common/apsu/util/db_encoding.cpp).     *)
(* A bit string is a sequence over {0, 1}, the lowest bit first; the byte     *)
(* shifts of copy_with_bit_offset are the taking of a run of bits.            *)
EXTENDS FieldPolynomials

CONSTANT felts_per_item   \* ItemParams::felts_per_item

ASSUME FeltsAssumption == felts_per_item \in Nat \ {0}

Bit == {0, 1}

\* What is known of the powers of two.
PowersOfTwo == 2 ^ 0 = 1 /\ \A n \in 0..(mod - 1) : 2 ^ (n + 1) = 2 * 2 ^ n

\* One bit less than the modulus has, so that every value of these bits is a field element.
bits_per_felt == (CHOOSE n \in 1..mod : 2 ^ (n - 1) <= mod /\ mod < 2 ^ n) - 1

item_bit_count == bits_per_felt * felts_per_item

CeilDiv(a, b) == (a + b - 1) \div b

\* A run of bits read as a number, and a number written as a run of n bits.
BitsValue(bits) == FoldRight(LAMBDA b, acc : b + 2 * acc, bits, 0)
LowBits(felt, n) == [i \in 1..n |-> (felt \div 2 ^ (i - 1)) % 2]

\* The bits that go into field element j, bits_per_felt of them or what is left.
FeltBits(bits, j) ==
  SubSeq(bits, (j - 1) * bits_per_felt + 1,
         IF j * bits_per_felt < Len(bits) THEN j * bits_per_felt ELSE Len(bits))

BitsToFieldElts(bits) ==
  [j \in 1..CeilDiv(Len(bits), bits_per_felt) |-> BitsValue(FeltBits(bits, j))]

\* The bit count must need every field element and fit in them.
CannotDecode(felts, bit_count) ==
  \/ felts = <<>>
  \/ bit_count > bits_per_felt * Len(felts)
  \/ bit_count <= bits_per_felt * (Len(felts) - 1)

FieldEltsToBits(felts, bit_count) ==
  SubSeq(FlattenSeq([j \in DOMAIN felts |-> LowBits(felts[j], bits_per_felt)]), 1, bit_count)

\* An item of item_bit_count bits as field elements.
AlgebraizeItem(item) == BitsToFieldElts(SubSeq(item, 1, item_bit_count))

\* How many item lengths a label takes (receiver_db.cpp compute_label_size).
LabelSize(bit_count) == CeilDiv(bit_count, item_bit_count)

\* A label in item-sized rows, padded with zeros; part p of felt f is row p, column f.
AlgebraizeLabel(label) ==
  LET felts == BitsToFieldElts(label)
      rows  == CeilDiv(Len(felts), felts_per_item)
  IN  [f \in 1..felts_per_item |->
        [p \in 1..rows |-> LET k == felts_per_item * (p - 1) + f
                           IN  IF k <= Len(felts) THEN felts[k] ELSE 0]]

\* dealgebraize_label, of all the bits of the label's field elements: they stand in the order of
\* their rows (bin_bundle.cpp try_get_multi_label), and the padding is cut off by the caller.
DealgebraizeLabel(felts, label_bit_count) ==
  SubSeq(FieldEltsToBits(felts, Len(felts) * bits_per_felt), 1, label_bit_count)
=============================================================================
