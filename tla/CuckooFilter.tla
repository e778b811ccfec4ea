---------------------------- MODULE CuckooFilter ----------------------------
(* The cuckoo filter each bin keeps beside its items                          *)
(* (receiver/apsu/util/cuckoo_filter.cpp, cuckoo_filter_table.cpp).  A filter *)
(* is a record: buckets of tags (0 is an empty place), one overflow entry and *)
(* the number of items.  The bit packing of the tags is left out.             *)
EXTENDS Integers, Sequences, FiniteSets

CONSTANTS
  tags_per_bucket,      \* CuckooFilterTable::tags_per_bucket_ (4 in the code)
  max_cuckoo_kicks,     \* CuckooFilter::max_cuckoo_kicks_ (500 in the code)
  TagOf(_), IndexOf(_), \* the low and the high half of hasher_(item)
  AltOf(_),             \* hasher_(tag): the distance to a tag's other bucket
  VictimAt(_)           \* the place rand() picks in a round; rand() is never seeded

NoOverflow == [used |-> FALSE, index |-> 0, tag |-> 0]

NextPowerOf2(n) == CHOOSE p \in {2 ^ k : k \in 0..n} : p >= n /\ (p = 1 \/ p \div 2 < n)

\* The buckets for a number of keys, doubled when the table would be more than 96% full.
NumBuckets(key_count_max) ==
  LET n == key_count_max \div tags_per_bucket
      b == NextPowerOf2(IF n < 1 THEN 1 ELSE n)
  IN  IF key_count_max * 100 > 96 * b * tags_per_bucket THEN 2 * b ELSE b

EmptyFilter(key_count_max) ==
  [table |-> [b \in 0..(NumBuckets(key_count_max) - 1) |-> [i \in 1..tags_per_bucket |-> 0]],
   overflow |-> NoOverflow, num_items |-> 0]

Limit(filter, n) == n % Cardinality(DOMAIN filter.table)     \* the bucket mask

Xor(a, b) ==       \* bucket indices are small
  LET bit(n, k) == (n \div 2 ^ k) % 2
      part(k)   == IF bit(a, k) # bit(b, k) THEN 2 ^ k ELSE 0
  IN  part(0) + part(1) + part(2) + part(3)

Index1(filter, item) == Limit(filter, IndexOf(item))
AltIndex(filter, idx, tag) == Xor(idx, Limit(filter, AltOf(tag)))

\* The table: a tag is read, written, looked for in a bucket.
ReadTag(table, b, i) == table[b][i]
WriteTag(table, b, i, tag) == [table EXCEPT ![b][i] = tag]
PlacesOf(table, b, tag) == {i \in 1..tags_per_bucket : ReadTag(table, b, i) = tag}
FindTagInBuckets(table, b1, b2, tag) == PlacesOf(table, b1, tag) \cup PlacesOf(table, b2, tag) # {}
First(places) == CHOOSE i \in places : \A j \in places : i <= j

FilterContains(filter, item) ==
  LET tag == TagOf(item)
      b1  == Index1(filter, item)
      b2  == AltIndex(filter, b1, tag)
  IN  \/ filter.overflow.used /\ filter.overflow.tag = tag /\ filter.overflow.index \in {b1, b2}
      \/ FindTagInBuckets(filter.table, b1, b2, tag)

\* insert_tag: the first free place of the bucket, or, with kickout, a random place whose tag is
\* thrown out (old).
InsertTag(table, b, tag, kickout, k) ==
  LET free == PlacesOf(table, b, 0)
  IN  IF free # {} THEN [done |-> TRUE, table |-> WriteTag(table, b, First(free), tag), old |-> 0]
      ELSE [done |-> FALSE,
            table |-> IF kickout THEN WriteTag(table, b, VictimAt(k), tag) ELSE table,
            old |-> IF kickout THEN ReadTag(table, b, VictimAt(k)) ELSE tag]

\* The loop of add_index_tag: a tag that finds no place is tried at its other bucket, and from the
\* second round on throws out another.
Insertion(filter, idx, tag) ==
  LET round[k \in 0..max_cuckoo_kicks] ==
        IF k = 0 THEN [table |-> filter.table, idx |-> idx, tag |-> tag, done |-> FALSE]
        ELSE LET s == round[k - 1]
                 t == InsertTag(s.table, s.idx, s.tag, k > 1, k)
             IN  IF s.done THEN s
                 ELSE IF t.done THEN [s EXCEPT !.table = t.table, !.done = TRUE]
                 ELSE [table |-> t.table, idx |-> AltIndex(filter, s.idx, t.old), tag |-> t.old,
                       done |-> FALSE]
  IN  round[max_cuckoo_kicks]

\* Mutant: the tag left over by the kicks is dropped.
OverflowDropped(filter, idx, tag) == [filter EXCEPT !.table = Insertion(filter, idx, tag).table]

\* After the last round the tag in hand becomes the overflow entry.
AddIndexTag(filter, idx, tag) ==
  LET last == Insertion(filter, idx, tag)
  IN  [filter EXCEPT
         !.table = last.table,
         !.overflow = IF last.done THEN @ ELSE [used |-> TRUE, index |-> last.idx, tag |-> last.tag]]

\* add: nothing is done, and false is returned, once the overflow entry is taken.
FilterAdd(filter, item) ==
  IF filter.overflow.used THEN filter
  ELSE [AddIndexTag(filter, Index1(filter, item), TagOf(item)) EXCEPT !.num_items = @ + 1]

\* The overflow entry is tried again after a tag has left the table.
TryEliminateOverflow(filter) ==
  IF filter.overflow.used
  THEN AddIndexTag([filter EXCEPT !.overflow = NoOverflow], filter.overflow.index, filter.overflow.tag)
  ELSE filter

\* delete_tag: the first place of the bucket that has the tag is free again.
DeleteTag(filter, b, tag) ==
  [filter EXCEPT !.table = WriteTag(@, b, First(PlacesOf(@, b, tag)), 0), !.num_items = @ - 1]

\* remove: one copy of the tag leaves the first bucket, else the second, else the overflow entry.
FilterRemove(filter, item) ==
  LET tag  == TagOf(item)
      b1   == Index1(filter, item)
      b2   == AltIndex(filter, b1, tag)
      Has(b) == PlacesOf(filter.table, b, tag) # {}
  IN  IF Has(b1) THEN TryEliminateOverflow(DeleteTag(filter, b1, tag))
      ELSE IF Has(b2) THEN TryEliminateOverflow(DeleteTag(filter, b2, tag))
      ELSE IF /\ filter.overflow.used /\ filter.overflow.tag = tag
              /\ filter.overflow.index \in {b1, b2}
      THEN [filter EXCEPT !.overflow = NoOverflow, !.num_items = @ - 1]
      ELSE filter
=============================================================================
