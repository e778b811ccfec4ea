----------------------------- MODULE PsuParams ------------------------------
(* The parameters both sides run with (common/apsu/psu_params.cpp, .h): what  *)
(* initialize accepts and what it computes from them.  A parameter set is a   *)
(* record; the encryption parameters are its poly_modulus_degree and the bit  *)
(* count of its plain modulus, seal_ok standing for the checks SEAL makes.    *)
EXTENDS Integers, FiniteSets

CONSTANTS
  felts_per_item_min, felts_per_item_max,     \* 2 and 32
  hash_func_count_min, hash_func_count_max,   \* 1 and 8
  item_bit_count_min, item_bit_count_max      \* 80 and 128

ASSUME LimitsAssumption == /\ felts_per_item_min \in Nat \ {0}
                           /\ felts_per_item_max \in Nat
                           /\ hash_func_count_min \in Nat \ {0}
                           /\ hash_func_count_max \in Nat
                           /\ item_bit_count_min \in Nat \ {0}
                           /\ item_bit_count_max \in Nat

\* Every field is a uint32 (query_powers a set of them) read from JSON or from a buffer.
RawParams ==
  [table_size : Nat, max_items_per_bin : Nat, hash_func_count : Nat, felts_per_item : Nat,
   ps_low_degree : Nat, query_powers : SUBSET Nat, poly_modulus_degree : Nat,
   plain_modulus_bits : Nat \ {0}, seal_ok : BOOLEAN]

TableValid(p) ==
  /\ p.table_size # 0
  /\ p.max_items_per_bin # 0
  /\ p.hash_func_count \in hash_func_count_min..hash_func_count_max
  /\ p.felts_per_item \in felts_per_item_min..felts_per_item_max

PowersValid(p) ==
  /\ p.ps_low_degree <= p.max_items_per_bin
  /\ 0 \notin p.query_powers
  /\ 1 \in p.query_powers
  /\ Cardinality(p.query_powers) <= p.max_items_per_bin
  /\ \A q \in p.query_powers :
       /\ q <= p.max_items_per_bin
       /\ q > p.ps_low_degree => q % (p.ps_low_degree + 1) = 0

item_bit_count_per_felt(p) == p.plain_modulus_bits - 1
item_bit_count_of(p) == item_bit_count_per_felt(p) * p.felts_per_item
items_per_bundle(p) == p.poly_modulus_degree \div p.felts_per_item
bins_per_bundle(p) == items_per_bundle(p) * p.felts_per_item
bundle_idx_count(p) == p.table_size \div items_per_bundle(p)

\* initialize returns; every other parameter set makes it throw.
ValidParams(p) ==
  /\ TableValid(p)
  /\ PowersValid(p)
  /\ p.seal_ok
  /\ item_bit_count_of(p) \in item_bit_count_min..item_bit_count_max
  /\ items_per_bundle(p) # 0
  /\ p.table_size % items_per_bundle(p) = 0

\* Load from JSON: "Should always contain 1".
FromJson(p) == [p EXCEPT !.query_powers = @ \cup {1}]

\* receiver_db.cpp unpack_cuckoo_idx, for the first bin of a table location (location *
\* felts_per_item): the bin inside the bundle and the bundle index.
BinOf(cuckoo_idx, bins) == cuckoo_idx % bins
BundleOf(cuckoo_idx, bins) == (cuckoo_idx - BinOf(cuckoo_idx, bins)) \div bins
=============================================================================
