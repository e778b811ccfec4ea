----------------------------- MODULE BinBundle ------------------------------
(* One bin bundle of the receiver's database (receiver/apsu/bin_bundle.cpp,   *)
(* bin_bundle.h) and the polynomials cached for it.  A bundle is a record;    *)
(* what is inserted at bin b..b+n-1 is a sequence of n parts, each with its   *)
(* felt and the sequence of its label parts (<<>> in an unlabeled bundle).    *)
(* A batched polynomial is the sequence of its plaintexts, plaintext i        *)
(* holding every bin's coefficient of degree i.                               *)
EXTENDS DbEncoding, CuckooFilter, FiniteSetsExt

CONSTANTS
  num_bins,             \* BinBundle::num_bins_ (PSUParams::bins_per_bundle)
  max_bin_size          \* BinBundle::max_bin_size_ (TableParams::max_items_per_bin)

ASSUME BundleAssumption == num_bins \in Nat \ {0} /\ max_bin_size \in Nat \ {0}

\* A tag is not 0 (tag_bit_limit), and rand() picks a place of the bucket (insert_tag).
ASSUME FilterAssumption ==
  /\ tags_per_bucket \in Nat \ {0} /\ max_cuckoo_kicks \in Nat
  /\ \A x \in Felt : TagOf(x) \in Nat \ {0}
  /\ \A k \in 1..max_cuckoo_kicks : VictimAt(k) \in 1..tags_per_bucket

\* What is known of the exclusive or of bucket indices: the other bucket of the other bucket of a
\* tag is the first one.
BucketsPaired ==
  LET empty == EmptyFilter(max_bin_size)
  IN  \A x \in Felt :
        LET other(b) == AltIndex(empty, b, TagOf(x))
        IN  /\ Index1(empty, x) \in DOMAIN empty.table
            /\ \A b \in DOMAIN empty.table : other(b) \in DOMAIN empty.table /\ other(other(b)) = b

Bins == 0..(num_bins - 1)

NoCache == [matching |-> <<>>, interp |-> <<>>, batched_matching |-> <<>>, batched_interp |-> <<>>]

\* clear: bins, label bins and filters unless the bundle is a stripped one, and no cache.
Cleared(label_size, stripped) ==
  LET perBin(x) == IF stripped THEN <<>> ELSE [b \in Bins |-> x]
  IN  [item_bins |-> perBin(<<>>), filters |-> perBin(EmptyFilter(max_bin_size)),
       label_bins |-> IF stripped THEN <<>> ELSE [l \in 1..label_size |-> perBin(<<>>)],
       label_size |-> label_size, cache |-> NoCache, cache_invalid |-> TRUE, stripped |-> stripped]

\* The constructor.
EmptyBundle(label_size, stripped) == Cleared(label_size, stripped)

IsEmpty(bundle) == \A b \in DOMAIN bundle.item_bins : bundle.item_bins[b] = <<>>

\* Where find() stops: the first place of a felt in a bin, 0 when it is not there.
PlaceIn(bin, felt) == IF felt \in ToSet(bin) THEN SelectInSeq(bin, LAMBDA x : x = felt) ELSE 0

\* is_present, get_iterator: the filter is asked first, then the bin is searched.
FoundAt(bundle, b, felt) ==
  IF FilterContains(bundle.filters[b], felt) THEN PlaceIn(bundle.item_bins[b], felt) ELSE 0

\* "Return -1 if there isn't enough room in the BinBundle at the given location."
NoRoom(parts, start) == start >= num_bins \/ Len(parts) > num_bins - start

AllFound(bundle, parts, start) ==
  \A k \in DOMAIN parts : FoundAt(bundle, start + k - 1, parts[k].felt) # 0

\* Calls that end in an exception: the bundle is stripped, or it is labeled and the data is not,
\* or the other way round, or the labels have another size.
Refuses(bundle, parts) ==
  bundle.stripped \/ \E k \in DOMAIN parts : Len(parts[k].label) # bundle.label_size

\* multi_insert_dry_run: -1, or the size of the largest bin after the insertion.
MultiInsertDryRun(bundle, parts, start) ==
  IF \/ NoRoom(parts, start)
     \/ /\ bundle.label_size > 0
        /\ \E k \in DOMAIN parts : FoundAt(bundle, start + k - 1, parts[k].felt) # 0
  THEN -1
  ELSE Max({Len(bundle.item_bins[start + k - 1]) + 1 : k \in DOMAIN parts})

\* Mutant: the cache stays marked valid when items are added.
CacheKeptOnInsert(bundle, parts, start) ==
  LET at(b) == b - start + 1
      in(b) == at(b) \in DOMAIN parts
  IN  [bundle EXCEPT
         !.item_bins = [b \in Bins |-> IF in(b) THEN Append(@[b], parts[at(b)].felt) ELSE @[b]],
         !.filters = [b \in Bins |-> IF in(b) THEN FilterAdd(@[b], parts[at(b)].felt) ELSE @[b]],
         !.label_bins = [l \in DOMAIN @ |->
            [b \in Bins |-> IF in(b) THEN Append(@[l][b], parts[at(b)].label[l]) ELSE @[l][b]]]]

\* multi_insert_for_real, in a bundle whose dry run was not -1.
MultiInsert(bundle, parts, start) ==
  [CacheKeptOnInsert(bundle, parts, start) EXCEPT !.cache_invalid = TRUE]

\* try_multi_overwrite of item-labels that are all found.
MultiOverwrite(bundle, parts, start) ==
  LET at(b) == b - start + 1
      new(l, b, labels) ==
        IF at(b) \notin DOMAIN parts THEN labels
        ELSE [labels EXCEPT ![PlaceIn(bundle.item_bins[b], parts[at(b)].felt)] =
                              parts[at(b)].label[l]]
  IN  [bundle EXCEPT !.label_bins = [l \in DOMAIN @ |-> [b \in Bins |-> new(l, b, @[l][b])]],
                     !.cache_invalid = TRUE]

\* try_multi_remove of parts that are all found.
MultiRemove(bundle, parts, start) ==
  LET at(b) == b - start + 1
      in(b) == at(b) \in DOMAIN parts
      place(b) == PlaceIn(bundle.item_bins[b], parts[at(b)].felt)
  IN  [bundle EXCEPT
         !.item_bins = [b \in Bins |-> IF in(b) THEN RemoveAt(@[b], place(b)) ELSE @[b]],
         !.filters = [b \in Bins |-> IF in(b) THEN FilterRemove(@[b], parts[at(b)].felt) ELSE @[b]],
         !.label_bins = [l \in DOMAIN @ |->
            [b \in Bins |-> IF in(b) THEN RemoveAt(@[l][b], place(b)) ELSE @[l][b]]],
         !.cache_invalid = TRUE]

\* try_get_multi_label, of parts that are all found: the label parts, one row after the other.
MultiLabel(bundle, parts, start) ==
  [k \in 1..(Len(parts) * bundle.label_size) |->
    LET n == ((k - 1) % Len(parts)) + 1
        l == ((k - 1) \div Len(parts)) + 1
        b == start + n - 1
    IN  bundle.label_bins[l][b][PlaceIn(bundle.item_bins[b], parts[n].felt)]]
-----------------------------------------------------------------------------
(* The cache *)

\* BatchedPlaintextPolyn's constructor: column i holds the coefficients of degree i, zero where a
\* bin's polynomial is shorter.
Batched(polyns) ==
  LET count == Max({1} \cup {Len(polyns[b]) : b \in DOMAIN polyns})
  IN  [i \in 1..count |->
        [b \in DOMAIN polyns |-> IF i <= Len(polyns[b]) THEN polyns[b][i] ELSE 0]]

\* regen_polyns (one task per bin and label part; nothing is shared between them) and
\* regen_plaintexts.
RegenPolyns(bundle) ==
  LET matching == [b \in Bins |-> PolynWithRoots(bundle.item_bins[b])]
      interp   == [l \in DOMAIN bundle.label_bins |->
                    [b \in Bins |-> NewtonInterpolatePolyn(bundle.item_bins[b],
                                                           bundle.label_bins[l][b])]]
  IN  [matching |-> matching, interp |-> interp, batched_matching |-> Batched(matching),
       batched_interp |-> [l \in DOMAIN interp |-> Batched(interp[l])]]

RegenCache(bundle) ==
  IF bundle.cache_invalid
  THEN [bundle EXCEPT !.cache = RegenPolyns(bundle), !.cache_invalid = FALSE]
  ELSE bundle

\* strip: the cache is brought up to date, then everything but the batched polynomials goes.
StripBundle(bundle) ==
  [RegenCache(bundle) EXCEPT
     !.stripped = TRUE, !.item_bins = <<>>, !.label_bins = <<>>, !.filters = <<>>,
     !.cache.matching = <<>>, !.cache.interp = <<>>]
-----------------------------------------------------------------------------
(* Saving and loading *)

\* save: the filters are not saved, and the cache only when it is valid.
SaveBundle(bundle, bundle_idx) ==
  [bundle_idx |-> bundle_idx, mod |-> mod, item_bins |-> bundle.item_bins,
   label_bins |-> bundle.label_bins, stripped |-> bundle.stripped,
   has_cache |-> ~bundle.cache_invalid,
   cache |-> IF bundle.cache_invalid THEN NoCache ELSE bundle.cache]

CoeffCount(polyns) == Max({0} \cup {Len(polyns[b]) : b \in DOMAIN polyns})
OrAllButOne(count) == IF count <= 1 THEN count ELSE count - 1

\* The checks of load on the saved matching polynomials.
MatchingAccepted(saved) ==
  LET c == saved.cache
      count == CoeffCount(c.matching)
  IN  /\ count <= max_bin_size
      /\ IF saved.stripped THEN Len(c.batched_matching) <= max_bin_size
         ELSE DOMAIN c.matching = Bins /\ Len(c.batched_matching) = count

\* The checks of load on the saved interpolation polynomials.
InterpAccepted(saved, label_size) ==
  LET c == saved.cache
      ofLength(l, b) == Len(c.interp[l][b]) = OrAllButOne(Len(c.matching[b]))
  IN  /\ Len(c.batched_interp) = label_size
      /\ IF saved.stripped
         THEN \A l \in 1..label_size : Len(c.batched_interp[l]) <= max_bin_size
         ELSE /\ Len(c.interp) = label_size
              /\ \A l \in 1..label_size :
                   /\ \A b \in Bins : ofLength(l, b)
                   /\ Len(c.batched_interp[l]) = OrAllButOne(CoeffCount(c.matching))

\* The checks of load on the rest.
DataAccepted(saved, label_size) ==
  /\ saved.mod = mod
  /\ IF saved.stripped THEN saved.has_cache
     ELSE /\ DOMAIN saved.item_bins = Bins
          /\ \A b \in Bins : Len(saved.item_bins[b]) <= max_bin_size
          /\ Len(saved.label_bins) = label_size
          /\ \A l \in 1..label_size, b \in Bins :
               Len(saved.label_bins[l][b]) = Len(saved.item_bins[b])

CanLoad(saved, label_size) ==
  /\ DataAccepted(saved, label_size)
  /\ saved.has_cache => MatchingAccepted(saved) /\ InterpAccepted(saved, label_size)

\* load, of data it accepts: the filters are built anew.
LoadBundle(saved, label_size) ==
  LET filterOf(bin) == FoldLeft(FilterAdd, EmptyFilter(max_bin_size), bin)
  IN  [Cleared(label_size, saved.stripped) EXCEPT
         !.item_bins = saved.item_bins, !.label_bins = saved.label_bins,
         !.filters = [b \in DOMAIN saved.item_bins |-> filterOf(saved.item_bins[b])],
         !.cache = saved.cache, !.cache_invalid = ~saved.has_cache]
=============================================================================
