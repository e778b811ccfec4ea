----------------------------- MODULE ReceiverDB -----------------------------
(* The receiver's database (receiver/apsu/receiver_db.cpp): its owner calls   *)
(* insert_or_assign, remove, strip, clear and save/Load one after the other,  *)
(* while one query (receiver_ddh.cpp RunQuery) reads the caches under the     *)
(* reader lock.  A call is split where it works on the bundles: first the set *)
(* of items and the count change, then the workers run, then the caches are   *)
(* regenerated; the writer lock is held from the first to the last of them.   *)
(* The workers of one dispatch touch the bundles of different bundle indices  *)
(* and are one step.                                                          *)
EXTENDS BinBundle, PsuParams

CONSTANTS
  params,               \* ReceiverDB::params_
  Batches,              \* the data of a call: sequences of items
  Labels,               \* encrypted labels, bit strings
  label_bit_count,      \* their length: nonce_byte_count_ + label_byte_count_, in bits
  LocationsOf(_),       \* all_locations: the places of an item in the table
  OprfHash(_),          \* OPRFSender::GetItemHash: an item under oprf_key_
  Sessions,             \* runs of the KKRT OPRF with the other party
  KkrtOutput(_, _, _),  \* what a run gives for a location and an item
  MaxCalls              \* bound on the calls of the owner

\* The constants of the bundles and of the encoding are those of the parameters.
ASSUME ParamsAssumption == /\ params \in RawParams /\ ValidParams(params)
                           /\ num_bins = bins_per_bundle(params)
                           /\ max_bin_size = params.max_items_per_bin
                           /\ felts_per_item = params.felts_per_item
                           /\ bits_per_felt = item_bit_count_per_felt(params)

\* Items have 128 bits (common/apsu/item.h 179), and item_bit_count is at most that (psu_params.cpp 154).
ItemStrings == {bits \in Seq(Bit) : Len(bits) >= item_bit_count}

BatchItems == UNION {ToSet(batch) : batch \in Batches}

\* Everything that the bundles may be searched for: items, and their hashes in a labeled database.
ItemsOrHashes == BatchItems \cup {OprfHash(item) : item \in BatchItems}

\* Items, their hashes, labels and what the OPRF makes of items and hashes are bit strings.
ASSUME DataAssumption ==
  /\ Batches \subseteq Seq(ItemStrings) /\ Labels \subseteq Seq(Bit) /\ label_bit_count \in Nat
  /\ \A item \in BatchItems : OprfHash(item) \in ItemStrings
  /\ \A session \in Sessions, location \in 0..(params.table_size - 1), item \in ItemsOrHashes :
       KkrtOutput(session, location, item) \in ItemStrings

BundleIdxs == 0..(bundle_idx_count(params) - 1)

VARIABLES
  bin_bundles,      \* ReceiverDB::bin_bundles_
  hashed_items,     \* ReceiverDB::hashed_items_
  item_count,       \* ReceiverDB::item_count_
  stripped,         \* ReceiverDB::stripped_
  is_labeled,       \* ReceiverDB::label_byte_count_ is not zero
  call,             \* the call that holds the writer lock, and where it is in it
  query,            \* the query: where it is and the caches it has collected
  calls, failed     \* calls begun; a call has ended in an exception since the last clear

dbVars == <<bin_bundles, hashed_items, item_count, stripped>>
vars == <<bin_bundles, hashed_items, item_count, stripped, is_labeled, call, query, calls, failed>>

NoCall == [at |-> "none", existing |-> <<>>, data |-> <<>>]
label_size == IF is_labeled THEN LabelSize(label_bit_count) ELSE 0

\* What an insertion stores of an item: its hash under oprf_key_ in a labeled database
\* (OPRFSender::ComputeHashes, 979), else the item itself (change_hashed_item).
HashedItem(item) == IF is_labeled THEN OprfHash(item) ELSE item

\* The hashed_data of an insertion, with a label for each item, <<>> in an unlabeled database.
Datas ==
  LET labels == IF is_labeled THEN Labels ELSE {<<>>}
  IN  UNION {{[k \in DOMAIN b |-> [item |-> HashedItem(b[k]), label |-> l[k]]] :
                l \in [DOMAIN b -> labels]} : b \in Batches}

\* The hashed_data of a removal: the items themselves, in a labeled database too.
Removals == {[k \in DOMAIN b |-> [item |-> b[k], label |-> <<>>]] : b \in Batches}
-----------------------------------------------------------------------------
\* The elements of a sequence at some of its places, in their order.
KeptAt(seq, places) ==
  FoldLeft(LAMBDA kept, k : IF k \in places THEN Append(kept, seq[k]) ELSE kept,
           <<>>, [k \in DOMAIN seq |-> k])

(* Encoding: an entry is the parts of an item and the bin of its first part *)

Entry(item, label, location) ==
  LET felts == AlgebraizeItem(item)
      rows  == AlgebraizeLabel(label)
  IN  [parts |-> [k \in DOMAIN felts |-> [felt |-> felts[k], label |-> rows[k]]],
       idx |-> location * felts_per_item]

\* preprocess_labeled_data: item by item, at each of its locations.
PreprocessLabeled(data) ==
  FlattenSeq([k \in DOMAIN data |->
    LET all == [n \in 1..params.table_size |-> n - 1]
        places == KeptAt(all, {n \in DOMAIN all : all[n] \in LocationsOf(data[k].item)})
    IN  [n \in DOMAIN places |-> Entry(data[k].item, data[k].label, places[n])]])

\* oprf_sender, at the receiver: one OT for each location, and under it any number of items.
OprfSender(inputs, session) ==
  [location \in DOMAIN inputs |->
    [k \in DOMAIN inputs[location] |-> KkrtOutput(session, location, inputs[location][k])]]

\* oprf_receiver, at the sender: the one item of each location of its cuckoo table.
OprfReceiver(table, session) ==
  [location \in DOMAIN table |-> KkrtOutput(session, location, table[location])]

Locations == 0..(params.table_size - 1)

\* preprocess_unlabeled_data: location by location, the items replaced by the outputs of the OPRF.
PreprocessUnlabeled(data, session) ==
  LET here(location) ==
        KeptAt(data, {k \in DOMAIN data : location \in LocationsOf(data[k].item)})
      oprf_in == [location \in Locations |->
                   [k \in DOMAIN here(location) |-> here(location)[k].item]]
      oprf_out == OprfSender(oprf_in, session)
  IN  FlattenSeq([n \in 1..params.table_size |->
        [k \in DOMAIN oprf_out[n - 1] |-> Entry(oprf_out[n - 1][k], <<>>, n - 1)]])
-----------------------------------------------------------------------------
(* The workers; set is the sequence of bundles at one bundle index *)

\* Mutant: a bin is full when it has max_bin_size items.
FullWhenFull(bundle, parts, bin) ==
  LET size == MultiInsertDryRun(bundle, parts, bin)
  IN  size > 0 /\ size <= max_bin_size

\* A bin is taken for full one item early.
HasSpace(bundle, parts, bin) ==
  LET size == MultiInsertDryRun(bundle, parts, bin)
  IN  size > 0 /\ size < max_bin_size

CanOverwrite(bundle, parts, bin) == ~NoRoom(parts, bin) /\ AllFound(bundle, parts, bin)

\* One entry of insert_or_assign_worker: the last bundle that has the item (when overwriting) or
\* space for it takes it, else a new bundle; overwriting never makes a new bundle.
WriteEntry(s, entry, overwrite) ==
  LET parts == entry.parts
      bin   == BinOf(entry.idx, num_bins)
      fresh == EmptyBundle(label_size, FALSE)
      Over(k) == overwrite /\ CanOverwrite(s.set[k], parts, bin)
      taking == {k \in DOMAIN s.set : Over(k) \/ HasSpace(s.set[k], parts, bin)}
  IN  CASE ~s.ok \/ Refuses(fresh, parts) -> [s EXCEPT !.ok = FALSE]
        [] s.ok /\ ~Refuses(fresh, parts) /\ taking # {} ->
             LET k == Max(taking)
             IN  [s EXCEPT !.set[k] = IF Over(k) THEN MultiOverwrite(@, parts, bin)
                                                 ELSE MultiInsert(@, parts, bin)]
        [] OTHER ->
             IF overwrite \/ NoRoom(parts, bin) THEN [s EXCEPT !.ok = FALSE]
             ELSE [s EXCEPT !.set = Append(@, MultiInsert(fresh, parts, bin))]

\* One entry of remove_worker: the first bundle that has the item loses it, and empty bundles go.
RemoveEntry(s, entry) ==
  LET bin == BinOf(entry.idx, num_bins)
      having == {k \in DOMAIN s.set : CanOverwrite(s.set[k], entry.parts, bin)}
      k == Min(having)
      left == IF having = {} THEN s.set ELSE [s.set EXCEPT ![k] = MultiRemove(@, entry.parts, bin)]
  IN  IF ~s.ok THEN s
      ELSE [set |-> KeptAt(left, {n \in DOMAIN left : ~IsEmpty(left[n])}), ok |-> having # {}]

\* What a worker does with an entry in each part of a call.
WorkOn(work, s, entry) ==
  CASE work = "insert"    -> WriteEntry(s, entry, FALSE)
    [] work = "overwrite" -> WriteEntry(s, entry, TRUE)
    [] work = "remove"    -> RemoveEntry(s, entry)

\* dispatch_insert_or_assign and dispatch_remove: each bundle index has its task; an exception
\* in one is thrown after all have run.
Dispatch(work, entries) ==
  LET result == [i \in BundleIdxs |->
                  FoldLeft(LAMBDA s, e : WorkOn(work, s, e), [set |-> bin_bundles[i], ok |-> TRUE],
                           KeptAt(entries, {k \in DOMAIN entries :
                                             BundleOf(entries[k].idx, num_bins) = i}))]
  IN  [bundles |-> [i \in BundleIdxs |-> result[i].set],
       ok |-> \A i \in BundleIdxs : result[i].ok]
-----------------------------------------------------------------------------
(* The calls of the owner *)

\* Mutant: a writer does not wait for the query.
WriterIgnoresReader == call.at = "none"

\* The locks: nobody waits for a lock it already holds.
WriterMayEnter == call.at = "none" /\ query.at # "reading"

\* remove_if with the predicate that also records the items: the kept data in order, and behind it
\* the old tail, its elements with an empty label when they were moved to the front.
RemoveIf(data, dropped) ==
  LET kept == KeptAt(data, DOMAIN data \ dropped)
      n == Len(kept)
  IN  [kept |-> kept,
       tail |-> [k \in 1..(Len(data) - n) |->
                  IF n + k \in dropped THEN data[n + k] ELSE [data[n + k] EXCEPT !.label = <<>>]]]

\* Mutant: the predicate does not see the items it has just recorded.
EarlierUnseen(data, k) == {}

Earlier(data, k) == {data[j].item : j \in 1..(k - 1)}
ItemsOf(data) == {data[k].item : k \in DOMAIN data}

\* insert_or_assign: the items not known yet are recorded before any of them is in a bundle.
BeginInsert(data) ==
  LET known == {k \in DOMAIN data : data[k].item \in hashed_items \cup Earlier(data, k)}
      split == RemoveIf(data, known)
  IN  /\ WriterMayEnter /\ ~stripped /\ calls < MaxCalls
      /\ calls' = calls + 1
      /\ hashed_items' = hashed_items \cup ItemsOf(data)
      /\ item_count' = item_count + Len(split.kept)
      /\ call' = IF ~is_labeled THEN [at |-> "insert", existing |-> <<>>, data |-> split.kept]
                 ELSE [at |-> IF split.tail # <<>> THEN "overwrite" ELSE "insert",
                       existing |-> split.tail, data |-> split.kept]
      /\ UNCHANGED <<bin_bundles, stripped, is_labeled, query, failed>>

\* remove: the items that are known are forgotten; what remove_if left behind them is not erased
\* and is removed from the bundles as well.  In a labeled database, which knows hashes, that is the
\* whole batch, and its dispatch throws.
BeginRemove(data) ==
  LET unknown == {k \in DOMAIN data :
                   data[k].item \notin hashed_items \/ data[k].item \in Earlier(data, k)}
      split == RemoveIf(data, unknown)
  IN  /\ WriterMayEnter /\ ~stripped /\ calls < MaxCalls
      /\ calls' = calls + 1
      /\ hashed_items' = hashed_items \ ItemsOf(data)
      /\ item_count' = item_count - Len(split.kept)
      /\ call' = [at |-> "remove", existing |-> <<>>, data |-> split.kept \o split.tail]
      /\ UNCHANGED <<bin_bundles, stripped, is_labeled, query, failed>>

\* What follows a dispatch: the next part of the call, or the exception out of it.
After(result, next) ==
  /\ bin_bundles' = result.bundles
  /\ call' = IF result.ok THEN [call EXCEPT !.at = next] ELSE NoCall
  /\ failed' = (failed \/ ~result.ok)
  /\ UNCHANGED <<hashed_items, item_count, stripped, is_labeled, query, calls>>

Overwrite ==
  /\ call.at = "overwrite"
  /\ After(Dispatch("overwrite", PreprocessLabeled(call.existing)),
           IF call.data # <<>> THEN "insert" ELSE "caches")

Insert(session) ==
  /\ call.at = "insert"
  /\ After(Dispatch("insert", IF is_labeled THEN PreprocessLabeled(call.data)
                           ELSE PreprocessUnlabeled(call.data, session)),
           "caches")

Remove_(session) ==
  /\ call.at = "remove"
  /\ After(Dispatch("remove", PreprocessUnlabeled(call.data, session)), "caches")

\* generate_caches, and the end of the call.
GenerateCaches(bundles) == [i \in BundleIdxs |-> [k \in DOMAIN bundles[i] |-> RegenCache(bundles[i][k])]]

FinishCall ==
  /\ call.at = "caches"
  /\ bin_bundles' = GenerateCaches(bin_bundles)
  /\ call' = NoCall
  /\ UNCHANGED <<hashed_items, item_count, stripped, is_labeled, query, calls, failed>>

\* strip; the item count stays.
Strip ==
  /\ WriterMayEnter /\ calls < MaxCalls
  /\ calls' = calls + 1
  /\ stripped' = TRUE
  /\ hashed_items' = {}
  /\ bin_bundles' = [i \in BundleIdxs |-> [k \in DOMAIN bin_bundles[i] |->
                                            StripBundle(bin_bundles[i][k])]]
  /\ UNCHANGED <<item_count, is_labeled, call, query, failed>>

Clear ==
  /\ WriterMayEnter /\ calls < MaxCalls
  /\ calls' = calls + 1
  /\ hashed_items' = {} /\ item_count' = 0 /\ stripped' = FALSE
  /\ bin_bundles' = [i \in BundleIdxs |-> <<>>]
  /\ failed' = FALSE
  /\ UNCHANGED <<is_labeled, call, query>>

\* save and Load: the bundles come back in any order within a bundle index (one task each), and
\* caches that were not saved are regenerated.
Saved == [i \in BundleIdxs |-> [k \in DOMAIN bin_bundles[i] |-> SaveBundle(bin_bundles[i][k], i)]]

SaveAndLoad ==
  LET orders(i) == Bijection(DOMAIN bin_bundles[i], DOMAIN bin_bundles[i])
  IN  /\ WriterMayEnter /\ calls < MaxCalls
      /\ calls' = calls + 1
      /\ \A i \in BundleIdxs : \A k \in DOMAIN bin_bundles[i] : CanLoad(Saved[i][k], label_size)
      /\ ~stripped => item_count = Cardinality(hashed_items)
      /\ \E p \in [BundleIdxs -> UNION {orders(i) : i \in BundleIdxs}] :
           /\ \A i \in BundleIdxs : p[i] \in orders(i)
           /\ bin_bundles' = GenerateCaches(
                [i \in BundleIdxs |-> [k \in DOMAIN bin_bundles[i] |->
                                        LoadBundle(Saved[i][p[i][k]], label_size)]])
      /\ UNCHANGED <<hashed_items, item_count, stripped, is_labeled, call, query, failed>>
-----------------------------------------------------------------------------
(* What the owner may ask between the calls *)

\* has_item: it looks for the item itself, in a labeled database too, which holds hashes.
HasItem(item) == item \in hashed_items

\* get_label: nothing if it throws, else the label in the first bundle that has the item's hash at
\* the first of its locations, looked for under an output of the OPRF.
GetLabel(item, session) ==
  LET hash  == OprfHash(item)
      entry == PreprocessUnlabeled(<<[item |-> hash, label |-> <<>>]>>, session)[1]
      bin   == BinOf(entry.idx, num_bins)
      set   == bin_bundles[BundleOf(entry.idx, num_bins)]
      having == {k \in DOMAIN set : CanOverwrite(set[k], entry.parts, bin)}
      felts == MultiLabel(set[Min(having)], entry.parts, bin)
  IN  IF \/ stripped \/ ~is_labeled \/ hash \notin hashed_items \/ having = {}
         \/ CannotDecode(felts, Len(felts) * bits_per_felt)
      THEN <<>>
      ELSE <<DealgebraizeLabel(felts, label_bit_count)>>
-----------------------------------------------------------------------------
(* The query: the reader lock is held from its first line to its last *)

NoQuery == [at |-> "none", next |-> 0, caches |-> <<>>]

\* Mutant: the query goes ahead without the reader lock.
QueryUnlocked ==
  /\ query.at = "none"
  /\ query' = [query EXCEPT !.at = "reading"]
  /\ UNCHANGED <<dbVars, is_labeled, call, calls, failed>>

QueryStarts ==
  /\ query.at = "none" /\ call.at = "none"
  /\ query' = [query EXCEPT !.at = "reading"]
  /\ UNCHANGED <<dbVars, is_labeled, call, calls, failed>>

StaleAt(i) == \E k \in DOMAIN bin_bundles[i] : bin_bundles[i][k].cache_invalid

\* collect_caches for the next bundle index; get_cache throws on a stale one.
QueryCollects ==
  /\ query.at = "reading"
  /\ query' = IF query.next \notin BundleIdxs THEN [query EXCEPT !.at = "done"]
              ELSE IF StaleAt(query.next) THEN [query EXCEPT !.at = "threw"]
              ELSE [query EXCEPT !.next = @ + 1,
                                 !.caches = Append(@, [k \in DOMAIN bin_bundles[query.next] |->
                                                       bin_bundles[query.next][k].cache])]
  /\ UNCHANGED <<dbVars, is_labeled, call, calls, failed>>
-----------------------------------------------------------------------------
Init ==
  /\ is_labeled \in BOOLEAN
  /\ bin_bundles = [i \in BundleIdxs |-> <<>>]
  /\ hashed_items = {} /\ item_count = 0 /\ stripped = FALSE
  /\ call = NoCall /\ query = NoQuery /\ calls = 0 /\ failed = FALSE

Next ==
  \/ \E data \in Datas : BeginInsert(data)
  \/ \E data \in Removals : BeginRemove(data)
  \/ \E session \in Sessions : Insert(session) \/ Remove_(session)
  \/ Overwrite \/ FinishCall \/ Strip \/ Clear \/ SaveAndLoad
  \/ QueryStarts \/ QueryCollects

Spec == Init /\ [][Next]_vars
-----------------------------------------------------------------------------
(* Properties *)

Bundles(i) == {bin_bundles[i][k] : k \in DOMAIN bin_bundles[i]}

\* How many felts the bins at one place hold, over all the bundles there.
Stored(i, bin) ==
  MapThenSumSet(LAMBDA k : Len(bin_bundles[i][k].item_bins[bin]), DOMAIN bin_bundles[i])

\* The labels that the bundles at one of an item's locations have for it.
Answers(item, location) ==
  LET entry == Entry(item, <<>>, location)
      bin   == BinOf(entry.idx, num_bins)
      felts(bundle) == MultiLabel(bundle, entry.parts, bin)
  IN  {DealgebraizeLabel(felts(bundle), label_bit_count) :
         bundle \in {b \in Bundles(BundleOf(entry.idx, num_bins)) :
                      /\ CanOverwrite(b, entry.parts, bin)
                      /\ ~CannotDecode(felts(b), Len(felts(b)) * bits_per_felt)}}

\* Each bin of a table location holds one felt for each item of the location (in a labeled
\* database at least one: an overwritten item may be inserted a second time into a later bundle).
BinsHoldItems ==
  \A location \in Locations, part \in 0..(felts_per_item - 1) :
    LET idx == location * felts_per_item
        stored == Stored(BundleOf(idx, num_bins), BinOf(idx, num_bins) + part)
        due == Cardinality({item \in hashed_items : location \in LocationsOf(item)})
    IN  IF is_labeled THEN stored >= due ELSE stored = due

\* What the sender's query finds: all its felts are roots of the polynomials of one bundle.
QueryFinds(item, location, session) ==
  LET entry == Entry(OprfReceiver([l \in {location} |-> item], session)[location], <<>>, location)
      bin == BinOf(entry.idx, num_bins)
      column(bundle, b) == [d \in DOMAIN bundle.cache.batched_matching |->
                             bundle.cache.batched_matching[d][b]]
  IN  \E bundle \in Bundles(BundleOf(entry.idx, num_bins)) :
        \A k \in DOMAIN entry.parts :
          ValueAt(column(bundle, bin + k - 1), entry.parts[k].felt) = 0

\* The count is that of the items known, whatever calls there were and however they ended; a
\* stripped database has no items left and keeps its count.  Load refuses anything else (1492).
CountRight == ~stripped => item_count = Cardinality(hashed_items)

\* The count is right after any calls, failed ones included.  When no call is running and none has
\* failed, the set of items tells what the bundles hold and what is found in them: in an unlabeled
\* database the encoding that the sender has for an item at one of its locations, by a run of the
\* OPRF, is found if and only if has_item is true of it; in a labeled one the labels kept for a hash
\* are some that were given, and get_label throws for no item inserted whose hash is its own
\* encoding (insertion does not encode the hashes of a labeled database, while get_label looks for
\* an encoding).
\* The set and the count are changed before the workers run (receiver_db.cpp 993, 1091, 1207), and
\* the workers spread the felts of one call over several bundles.
StoreHoldsItems ==
  /\ CountRight
  /\ call.at = "none" /\ ~failed /\ ~stripped =>
       /\ BinsHoldItems
       /\ ~is_labeled => \A item \in BatchItems : \A location \in LocationsOf(item) :
            (\E session \in Sessions : QueryFinds(item, location, session)) <=> HasItem(item)
       /\ is_labeled =>
            /\ \A hash \in hashed_items : \A location \in LocationsOf(hash) :
                 Answers(hash, location) \subseteq Labels
            /\ \A session \in Sessions, item \in BatchItems :
                 LET hash == OprfHash(item)
                     own  == KkrtOutput(session, Min(LocationsOf(hash)), hash) = hash
                 IN  own /\ hash \in hashed_items =>
                       GetLabel(item, session) # <<>> /\ GetLabel(item, session)[1] \in Labels

\* A cache that get_cache hands out is the one of the present bins: the matching polynomial of a
\* bin is zero at its felts and nowhere else, an interpolation polynomial exists (no felt is twice in
\* a labeled bin) and takes the label of each felt.
CachesMatchBins ==
  \A i \in BundleIdxs : \A bundle \in Bundles(i) :
    ~bundle.cache_invalid /\ ~bundle.stripped =>
      \A bin \in Bins :
        LET items == bundle.item_bins[bin]
            labels(l) == bundle.label_bins[l][bin]
            column == [d \in DOMAIN bundle.cache.batched_matching |->
                        bundle.cache.batched_matching[d][bin]]
        IN  /\ \A x \in Felt : (ValueAt(column, x) = 0) <=> x \in ToSet(items)
            /\ \A l \in 1..bundle.label_size :
                 /\ ~CannotInterpolate(items, labels(l))
                 /\ \A n \in DOMAIN items :
                      ValueAt(bundle.cache.interp[l][bin], items[n]) = labels(l)[n]

\* Whatever calls have built the database, failed ones included, save writes what Load accepts,
\* and the bundles come back as they were (Load regenerates the caches that were stale): no bin is
\* filled so far that its polynomial has more coefficients than load allows (receiver_db.cpp 486, bin_bundle.cpp 1348).
LoadsBack ==
  call.at = "none" =>
    \A i \in BundleIdxs : \A bundle \in Bundles(i) :
      LET saved  == SaveBundle(bundle, i)
          loaded == LoadBundle(saved, label_size)
      IN  /\ CanLoad(saved, label_size)
          /\ RegenCache([loaded EXCEPT !.filters = bundle.filters]) = RegenCache(bundle)

\* The filter of a bin knows every felt in it, so that an item that is there is found by overwrite,
\* remove and the check for repeated parts: through insertions, removals and evictions.
FilterFindsAll ==
  \A i \in BundleIdxs : \A bundle \in Bundles(i) :
    \A bin \in DOMAIN bundle.item_bins : \A x \in ToSet(bundle.item_bins[bin]) :
      FilterContains(bundle.filters[bin], x)

\* While a query runs nobody changes the bundles its caches are references into, and what it has
\* collected stays what the database holds (get_cache_at itself takes no lock, 919).
NoChangeUnderReader ==
  [][query.at = "reading" => UNCHANGED dbVars]_vars

\* The query fails on a stale cache only after a call has failed: the lock is not given back
\* between the insertion and the regeneration of the caches.
QueryMeetsFreshCache ==
  [][query'.at = "threw" /\ query.at # "threw" => failed]_vars
=============================================================================
