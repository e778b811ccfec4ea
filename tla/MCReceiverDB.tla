---------------------------- MODULE MCReceiverDB ----------------------------
(* Two bundle indices of one item each, items of two field elements mod 11.   *)
EXTENDS ReceiverDB

\* Items as their two field elements, three bits each.  Items share elements, but no element of
\* one with an element of another makes a third one.
Item(f1, f2) == LowBits(f1, 3) \o LowBits(f2, 3)
a == Item(1, 1)
b == Item(1, 2)
c == Item(2, 3)

\* The arithmetic and the exclusive or that the proofs take as given.
ASSUME ArithmeticHolds == PowersOfTwo /\ InversesRight /\ BucketsPaired

MCParams ==
  FromJson([table_size |-> 2, max_items_per_bin |-> 3, hash_func_count |-> 2, felts_per_item |-> 2,
   ps_low_degree |-> 0, query_powers |-> {}, poly_modulus_degree |-> 2, plain_modulus_bits |-> 4,
   seal_ok |-> TRUE])

MCBatches == {<<a>>, <<c>>, <<a, b>>, <<b, a>>, <<a, a>>, <<a, b, c>>}
\* Labels one field element longer than items: two rows, the second one padded.
MCLabels == {Item(0, 1) \o LowBits(5, 3), Item(7, 2) \o LowBits(0, 3)}

\* The hashes share elements in the places where the items do.
MCOprfHash(item) ==
  CASE item = a -> Item(4, 4)
    [] item = b -> Item(4, 0)
    [] item = c -> Item(0, 3)

\* c and its hash are at both places of the table.
MCLocationsOf(item) == IF item \in {c, MCOprfHash(c)} THEN {0, 1} ELSE {0}

\* The second run of the OPRF has outputs of its own: nothing of the first is found again.
MCKkrtOutput(session, location, item) ==
  LET felts == AlgebraizeItem(item)
  IN  IF session = 1 THEN item ELSE Item(7 - felts[1], 7 - felts[2])

\* Elements 1 and 2, and 4 and 0 of the hashes, have one tag and one bucket, and the two buckets of
\* tag 2 are the same one.
MCTagOf(x) == IF x \in {0, 1, 2, 4} THEN 1 ELSE 2
MCIndexOf(x) == IF x \in {0, 1, 2, 4} THEN 1 ELSE x
MCAltOf(tag) == IF tag = 1 THEN 1 ELSE 0
MCVictimAt(k) == 1
=============================================================================
