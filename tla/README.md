# A verification project for MinBucket-MPSI

MinBucket-MPSI computes the intersection of the sets of several parties, or its
size, without showing the sets. This directory holds TLA+ modules that model the
program, TLC configurations that check them on small instances, and TLAPS proofs.
Paths below are relative to `src/`.

## 1. The system

One party, the *sender* (party 0), holds 2^10 items; `bn` *big-set receivers* and
the remaining *small-set receivers* hold theirs. The parties run four programs one
after the other, which hand over files:

| stage | program | writes |
|---|---|---|
| 1 | `uMCRG/MCRG` `sender_cli`, `receiver_cli` (derived from APSU): the sender hashes its items into a cuckoo table, each big-set receiver builds a database and answers an encrypted query with masked results | sender: `sender_item`, `mapping`, `orig_item`, `sender_mcrg_i`; receiver: `receiver_0_i` |
| 2 | `uMCRG/MCRG_diff_large` (`ssPEQT_ROT.cpp`): secret-shared equality tests and a random OT turn the masked matrices into one label per bin | `sender_mcrg_i`, `receiver_mcrg_i` |
| 3 | `MCRG` (`MCRG.cpp`): the same for the small-set receivers, with a VOLE and an OKVS | `sender_result_i`, `receiver_result_i` |
| 4 | `JPEQT` (`JPEQT.cpp`): the joint (permuted) private equality test over the labels of all parties | `intersection.txt`, or the cardinality on the terminal |

### Inventory

For each component: its state, its operations, how it interacts, what is hard, and
what makes it correct.

* **J-PEQT / JP-PEQT protocol** (`JPEQT/JPEQT.cpp`, `elgamal.h`, `communication.h`).
  State: per party its key, its row(s) of labels, one vector of ciphertexts, the
  sockets `chl_0` and `chl_1`. Operations: blocking sends and receives of points and
  ciphertext vectors between the local ElGamal steps. Hard: buffers without tags
  whose meaning follows only from the order of calls; a chain of parties that block
  on each other; one party failing. Correct: party 0 reports exactly the bins whose
  labels add up, whatever the interleaving; receives and sends stay paired; nobody
  waits forever.
* **JPEQT connection set-up** (`JPEQT.cpp:28-43, 238-254`). State: the two vectors of
  sockets, listening ports. Hard: 2(tn-1) blocking calls per party, ports computed
  from the party numbers. Correct: no circular wait, no port bound twice, every
  socket at the index where the protocol looks for its peer.
* **JPEQT input and output files** (`readFiles.h`). State: the tables read, the vector
  `m_idx` of matching bins. Operations: `read_*`, `write_intersection`, the parallel
  loop over the bins. Hard: a data race on `m_idx`, missing or stale files, two index
  mappings that must fit. Correct: `intersection.txt` holds every common item once.
* **ssPEQT and random OT** (`ssPEQT_ROT.cpp`, `Circuit.cpp`). State: matrices, share
  bits, choice bits. Operations: a GMW zero test, a fold over the caches, a random OT,
  for one receiver after the other. Hard: flat matrix indices, the polarity of the
  choice bit, early returns with sockets open. Correct: the labels of the two sides
  agree exactly where the receiver holds the item.
* **Balanced MCRG** (`MCRG/mcrg/MCRG.cpp`). State: VOLE vectors, OKVS, labels, the files
  of stages 1 and 3. Hard: the sender and its receivers return at different points when a
  file does not open; nothing deletes the files of an earlier session. Correct: the decoded
  value equals the receiver's label exactly for common items; both files of a pair are new or
  neither is.
* **uMCRG query exchange** (`uMCRG/MCRG/sender/apsu/sender_ddh.cpp`,
  `receiver/apsu/receiver_ddh.cpp`, `query.cpp`). State: the query, the announced and
  claimed result packages, the matrix the sender's workers fill, the masks the
  receiver draws. Hard: two thread pools and a network between them, global matrices
  that outlive a query, one computed index. Correct: every package is written once
  and to its own place before the file is written, under the mask the receiver keeps.
* **Receiver dispatcher and ZMQ channel** (`receiver_dispatcher_ddh.cpp`,
  `zmq_channel.cpp`, `receiver_operation*.cpp`). State: one request at a time, the queues of
  messages, client identities. Hard: an exception is logged and swallowed while the peer
  waits; several clients on one socket; programs of different versions. Correct: nobody is
  sent an answer it does not wait for.
* **Receiver database and bin bundles** (`receiver_db.cpp`, `bin_bundle.cpp`). State:
  bundles of bins with their items and caches, counters, the reader-writer lock.
  Operations: insert, assign, remove, caches, strip, save, load. Hard: workers that
  throw half-way, caches that are stale, the capacity of a bin, the order in which calls
  were made. Correct: what the item set says is what a query finds; caches are those of the
  bins; what was saved can be loaded.
* **Powers DAG** (`powers.cpp`, `powers.h`). State: nodes, their states during a
  parallel computation. Hard: workers without locks.
* **Thread pool and manager** (`thread_pool.h`, `thread_pool_mgr.cpp`). State: queue,
  workers, target size, in-flight count. Hard: wake-ups, resizing, shutdown.
* **Cuckoo table, simple hashing, mapping files** (`sender_ddh.cpp:429-524`,
  `simple_hash.cpp`, `auto_prepare.py`). Correct: the files that different stages
  write about the same table agree.
* **Parameters and item encoding** (`psu_params.cpp`, `db_encoding.cpp`,
  `interpolate.cpp`): pure algorithms. Correct: the sender's and the receiver's encodings of an
  item meet in one bundle, and labels come back as they went in.
* **Cuckoo filter** (`receiver/apsu/util/cuckoo_filter*.cpp`): insert, contains, remove.
* **Command line programs**, **serialisation, logging, stopwatch**, **FourQ curve
  arithmetic** (vendored), **stream channel** (unused by the programs): not modelled.

## 2. Plan

In the order of what matters most: the joint test that produces the answer, the stages
that produce its input, then the machinery under them.

| # | module | models | composed with | proofs |
|---|---|---|---|---|
| 1 | `ElGamal`, `JPEQT`, `JointPEQT` | the joint test; what it promises | `JPEQT` extends `ElGamal` and `JPEQTParties` and implements `JointPEQT` | `JPEQT_proof` |
| 2 | `JPEQTConnect` | how its parties connect | shares `JPEQTParties` (the parties and their channel numbers) with `JPEQT`, whose sockets it makes | `JPEQT_proof` |
| 3 | `CsvFiles`, `BalancedMCRG`, `Intersection` | the pipeline of the small-set parties, from the csv files to `intersection.txt` | `Intersection` extends `BalancedMCRG`, which extends `CsvFiles`; uses what `JPEQT` promises of a bin | `Intersection_proof` |
| 4 | `SsPeqtRot` | stage 2 of uMCRG | its labels are `JPEQT`'s rows | `SsPeqtRot_proof` |
| 5 | `ThreadPool` | pool and manager | runs the workers of 6 and 7 | `ThreadPool_proof` |
| 6 | `PowersDag`, `ComputePowers`, `PolynEval` | the plan of a query's powers, its parallel execution, the evaluation on what it leaves | each extends the one before; `PolynEval` also `FieldPolynomials` | `ComputePowers_proof` |
| 7 | `ZMQChannel`, `QueryExchange` | stage 1 of uMCRG between sender and receivers, over messages | `QueryExchange` extends `ZMQChannel` and `CsvFiles`; its matrices are `SsPeqtRot`'s | `QueryExchange_proof` |
| 8 | `FieldPolynomials`, `DbEncoding`, `CuckooFilter`, `PsuParams`, `BinBundle`, `ReceiverDB` | the receiver's database and the algorithms in it | `BinBundle` extends `DbEncoding` and `CuckooFilter`, `ReceiverDB` extends `BinBundle` and `PsuParams`; its caches are those `QueryExchange` counts and `PolynEval` evaluates | `ReceiverDB_proof` |

Abstract specifications: `JointPEQT`, the one-step test on the rows, which `JPEQT` implements
(`ImplementsIdeal`); for the pipeline the set of common items (`IntersectionWritten`); for the
database the set of items (`StoreHoldsItems`).

`FoldTheorems` holds what the proofs need of the community modules' folds.

## 3. The modules

### ElGamal, JPEQT, JointPEQT

`ElGamal` is `elgamal.h` in the exponent: a point is an integer, compared modulo the
group order; a ciphertext is a pair of them. `JPEQT` has one process per party. `pc`
is the socket call the party is at, and an action is a receive with the computation
that follows up to the next socket call, or a send; `peer` is party 0's loop index.
`chl_0` and `chl_1` keep the bytes under way between each ordered pair. Actions are
named for the call: `P0RecvPk`, `P0SendPkHE`, `P0RecvCTd`, `P0SendCT`, `P0RecvCT` for
party 0, `SendPk` ... `SendBack` for the others. Opening an input file is part of the
action in which the code does it. `Fail` is an exception: a missing file, or a receive
that finds the peer's socket closed; it ends the process at its `pc`. `JointPEQT` is
the trusted-party specification: from the rows to the verdict in one step.

### JPEQTConnect

One process per party runs the two loops over the other parties (`kind`, `other`). `Listen`,
`Dial` and `Accept` are the blocking calls; `Port` is the source's formula. A client is
through as soon as it is in the backlog, which is how the operating system does it.

### CsvFiles, BalancedMCRG, Intersection

`CsvFiles` is the reader (`ReadCsv`: the first line decides on labels and whether anything is
read) and what `auto_prepare.py` writes. `BalancedMCRG` adds the simple hashing of the small-set
parties (`SimpleHash`, `HashFile`) and the balanced MCRG: `ConnectReceive`, `ConnectSend`,
`Read`, `Vole`, `SendDiffC`, `Answer`, `WriteReceiver`, `WriteSender`, and `Throw` when the partner
of the VOLE has gone. The VOLE relation is kept as the factor that multiplies `mD`, the OKVS as
the set of pairs it was solved for. `Intersection` runs the programs one after the other:
`LoadQuery`, `Cuckoo_Hash` (the Kuku library: any placement its hash functions allow, or
`InsertFails`), the MCRG, `Collect`, the loop of party 0 over the bins (`Skip`, `EmplaceRead`,
`EmplaceWrite`, each thread with its block of iterations; `emplace_back` is two steps because the
code takes no lock), and `write_intersection`. Files start as an earlier session left them
(`Old`); a read outside a vector is the state `crashed`.

### SsPeqtRot

The sender serves one receiver after the other (`serving`); `Connect`, `ZeroTest` and
`RandomOT` are joint steps of a pair, for which the libraries stand; `Read`, `SS_sender`,
`SS_receiver`, `WriteLabels` and `Write` are each side's own. `Throw` is an exception
that closes a socket. `result` starts with the files an earlier session left (`Old`).

### ThreadPool

What runs under `queue_mutex` is one action; a wait on a condition variable is a state
that only a notification leaves. Workers go through `Sleep`, `Take` (or `Spin` or
`Exit`), `NotifyProducers`, `Run`, `CountOut`, `NotifyIdle`; clients construct a manager,
enqueue, collect futures, wait, tune the pool (`SetPoolSize`, `SetQueueSizeLimit`), and release
the manager, the last of them joining the workers.

### PowersDag, ComputePowers, PolynEval

`ConfigureSucceeds` and `ConfigureRefuses` are `configure()` with its leading `reset()`.
`ComputePowers` extends it with `parallel_apply`: each worker's turn round the loop is
split at every access to the shared node states (`ChecksDone`, `Claims`, `PassesBy`,
`ReadsFirstParent`, `ReadsSecondParent`, `Releases`, `BeginsFunc`, `EndsFunc`, `Marks`);
main collects the futures in order (`AwaitsWorker`, `Rethrows`) and then switches the
powers' forms in place (`SwitchTask`). `PolynEval` has `eval` (`EvalPolyn`) and `eval_patstock`
(`EvalPatstock`) on the exponents and forms these steps have left in `powers`: an operation of
SEAL on operands whose forms do not fit is one it does not accept.

### ZMQChannel, QueryExchange

`ZMQChannel` says which message a call sends, as the sequence of its parts, and what the receiving
call makes of any message (`ReceiveNetworkOperation`, `ReceiveResponse`, `ReceiveResult`): a null
pointer for a wrong number of parts, a header of another version, or a part that cannot be
parsed under the program's encryption parameters.

`QueryExchange` has the sender's program (`Query`, `OprfThrows`, `ReceiveQueryResponse`,
`WriteResults`, `GivesUp`) and its workers (`Load`, `Claim`, `ReceivePackage`, `Copy`: the load, the
compare-and-swap, the blocking receive and the copy are separate steps); each receiver's start
(`StartsUp`, `Bind`), its dispatcher's loop (`Drop`, `DispatchParms`, `DispatchQuery`), and
`RunQuery` (`Respond`, `DrawMasks`, one `ProcessBinBundleCache` per package in any order,
`WriteMasks`). Somebody else may ask for the parameters on the same socket (`RequestParams`,
`GetParams`). An exception in `RunQuery` is swallowed by the dispatcher (`Throws`), tasks that were
queued may still send (`StrayTask`) before the process ends (`Exits`). A mask is the place in
`random_plain_list` it is stored at; a cell is the mask and the item it carries.

### FieldPolynomials, DbEncoding, CuckooFilter, PsuParams, BinBundle, ReceiverDB

The first four are the algorithms as operators: polynomials from roots and by divided
differences; bits to field elements and back; the filter with its kicks and its overflow entry;
the checks and derived sizes of the parameters. `BinBundle` has one operator per member
function of a bundle (`MultiInsert`, `MultiInsertDryRun`, `MultiOverwrite`, `MultiRemove`,
`RegenCache`, `SaveBundle`, `LoadBundle`, ...). `ReceiverDB` has the database's state, one action for
`strip`, `clear` and `save` with `Load`, and for `insert_or_assign` and `remove` an action up to
the workers (`BeginInsert`, `BeginRemove`), one or two for the dispatched workers (`Overwrite`,
`Insert`, `Remove_`) and one that regenerates the caches (`FinishCall`); an exception of a worker
ends the call with what the others have done kept. A query holds the reader lock from `QueryStarts`
to its last `QueryCollects`. A polynomial is compared by its value at every field element.
`HashedItem` is what an insertion stores: the item's hash under the OPRF key in a labeled database, the item itself in
an unlabeled one. `remove` (`Removals`) and `has_item` (`HasItem`) look for the item itself in both, `get_label` for the hash. So
`has_item` is false of what was inserted into a labeled database, and a removal from it finds nothing, keeps the
whole batch behind `remove_if` and ends in the exception of its workers. All tasks of a `dispatch_remove` are taken to run
as they were queued, although they hold a reference into a vector that an exception frees.

## 4. The runs

| run | instance and why it is enough | checks |
|---|---|---|
| `jpeqt_j` | 4 parties, one of them big-set (the chain has two inner links and the small-set parties start at another index), 1 bin, every bit for every share, scalars 0 and 3, order 5, any subset of the input files missing | `TypeOK`, `OneInFlight`, `ResultExact`, `LengthsAgree`, `ChainOrder`, `AllOrNothing`; `EveryoneStops`, `ResultArrives` |
| `jpeqt_jp` | 3 parties and 2 bins so that the permutation can mix bins up, any subset of input files missing | `LayersPeeled`, `ResultExact`, `ImplementsIdeal` |
| `jpeqt_connect` | 6 parties: the lowest, the highest and several in between | `PortFree`, `RightEnds`; `AllConnect` |
| `intersection_seq` | 2 small-set receivers and perhaps a big set; the files `auto_prepare.py` writes for sets of two with one common item, and files with repeated, empty first, and labeled lines; 3 items that compete for 3 bins, so that insertion fails too; at most one file missing and one that does not open; one thread | `IntersectionWritten`, `PairsTogether`; `SessionEnds` |
| `intersection_par` | 5 items, 2 threads; a loss needs growth of the vector on both sides | violated: `EveryMatchKept` |
| `ssrot` | 2 receivers (a next one to strand), 2 bins, 3 caches; any subset of the four matrices missing, at most one result file that does not open | `LabelsMeet`, `PairsTogether`; `EveryoneStops` |
| `ssrot_even` | one receiver and 2 caches | violated: `LabelsMeet` |
| `thread_pool` | 2 clients with 2 and 1 tasks, one of which throws, queue limit 1 so that producers block, sizes 1 and 2, 2 tunings | `EachTaskOnce`, `DestructorSafe`; `AllReturn`, `EveryTaskRuns` |
| `compute_powers` | the targets of every bin size from 3 to 8 under low degree 3 (so that high powers are of the other form, and a last inner polynomial is full, partial or absent), up to two sources, a refused and an incomplete configuration, up to 2 configurations, 2 workers, the product of power 8 throws; field of 11 | `QueryPlanSound`, `OneWorkerPerNode`, `ComputedInOrder`, `FormsSafe`, `EvalRight`; `ApplyReturns` |
| `query_exchange` | 2 receivers, the second with one cache less (a padded cell over one of the first's), 2 bundles of 2 items, 2 workers; somebody else asks the first receiver for parameters; the sender's parameters are the same or differ in version, modulus, powers or table size; one trouble at most: a throwing receiver, a file of either side that does not open, a receiver without its file or parameters or with a labeled file | `SenderFileComplete`, `MasksMatch`, `AnswersAreAwaited`; `AllWritten` |
| `query_uneven` | 3 bundles, the first with one cache, the others with two | violated: `MasksMatch` |
| `receiver_db` | labeled or not; 2 bundle indices, bins of 3 (the code takes 2 for full), items of 2 field elements that share elements and of which one has two places, batches with repetitions, filter tags and buckets that collide and one place per bucket, labels one element longer than an item, 2 OPRF sessions, up to 3 calls | `StoreHoldsItems`, `CachesMatchBins`, `LoadsBack`, `FilterFindsAll`, `NoChangeUnderReader`, `QueryMeetsFreshCache` |

Properties behind a semicolon are temporal (in `receiver_db` the last two are properties of steps).
Each passing run's properties are broken by the mutants that `PROJECT.json` lists, plausible slips in
the modelled code. Modules whose `TypeOK` no configuration names were checked against it while they were
written.

Bounds by name: `MaxTunings`, `MaxConfigs` and `MaxCalls` bound how often a program calls the tuning
functions of the pool, `configure()` and the database's operations. The code calls the first two once
or twice; three calls of the database are an insertion, an assignment or removal of some of it, and one more on
what that left (a further insertion into the evicted or freed places, saving, stripping), with a query
under any of them. All others are sizes of the instance. The operators of `PsuParams`, `DbEncoding` and
`FieldPolynomials` are checked through `receiver_db`: its assumptions derive the sizes of the instance from
the parameters, and every item, label and polynomial of the run goes through them.
`CHECK_DEADLOCK FALSE` stands in the `query_*` configurations (the sender waits without a timeout for
a receiver that threw, and a receiver for a sender that gave up) and in `receiver_db` (its owner may make
no more calls). The other modules step in place when every process has ended.

### Findings

* `intersection_par`: the loop at `JPEQT/JPEQT.cpp:131-139` pushes onto one vector from all
  OpenMP threads without a lock; a match is lost.
* `ssrot_even`: the receiver's bit is flipped once per cache (`ssPEQT_ROT.cpp:120`) and not once
  per bin, so with an even number of caches the labels agree where the item is *absent*.
* `query_uneven`: a package takes its mask by a place that counts padded cells, which the list
  of masks does not hold (`receiver_ddh.cpp:346`); with fewer caches in a bundle that is not
  among the last ones, packages get the mask of another cell or read beyond the list.
  With one bundle (as in the parameter file `16M-1024.json`) it cannot happen; most
  parameter files give several.

Seen while modelling, without a run of their own.

Joint test and pipeline:

* From 15 parties on the two port formulas of `JPEQT` collide (100*14 + 0 plus the base on one side meets
  155*9 + 5 on the other), those of the balanced MCRG (`PORT+i*100`, `PORT+j*155`) from 31 receivers on.
* A process whose result file does not open (`ssPEQT_ROT.cpp:169`, `221`, `MCRG.cpp:96`, `214`) leaves its pair with one new
  file and one of an earlier session, and tells nobody. `PairsTogether` allows this pair alone.
* Programs that fail leave the files of an earlier session, and the repository ships some: `simple_hash` only
  logs an error; a failing sender leaves old labels, and a bin that matched then may have no item now
  (`write_intersection` reads in front of the vector). A cuckoo table that is full leaves a new `orig_item`
  beside old `mapping` and `sender_item` files.
* A csv file whose first line is empty reads as empty, whatever follows.
* `prepare_receiver_data` of `auto_prepare.py` does not end if the sender has fewer distinct items than the
  intersection is to have. The vectors of keys and values in `MCRG.cpp` are sized for 2^nn items, not for the file's.
* `numBins` is written and read as eight bytes of a four-byte variable (`MCRG/mcrg/MCRG.cpp`, `ssPEQT_ROT.cpp`,
  `readFiles.h`).

Query and its evaluation:

* `configure()` accepts targets of which some are not the sum of two others and then gives them
  the preset parents p - 1 and 1 (`powers.cpp:65`); with {1} of {1, 3, 5, 6, 7, 8, 9} even a
  computable power gets an uncomputable parent (9 = 3 + 6). No caller passes such targets:
  `QueryPlanSound` holds for those of `create_powers_set`.
* `reset()` does not clear `nodes_` (`powers.h:94`, whose comment says "Reset all internal
  members"), so `source_nodes()` is stale after a second `configure()`.
* A worker of `parallel_apply` that throws leaves its node in state Computing: the others spin
  for ever, or on a frame that main has left. The model follows them until main leaves.
* With a low degree of 1, which `PSUParams` accepts, the powers are those of Paterson and Stockmeyer's method (1, 2, 4, ...),
  but the evaluation is `eval()` (`receiver_ddh.cpp:559` asks for more than 1, `psu_params.h:88` only for "a non-zero value"): it meets
  powers that are missing or in the other form, and SEAL throws. `EvalRight` is then violated from degree 2 on; no shipped
  parameter file has the value, and the theorem `EvaluatesRight` excludes it.
* `vec_to_oc_block` (`sender_ddh.cpp:55-77`, `receiver_ddh.cpp:49-68`) reads one element beyond its vector when
  `felts_per_item` is odd, as in most of the shipped parameter files.
* A request for the parameters is answered only by a dispatcher that is running, and it returns after one query;
  a client of another version polls for ever.
* `try_load_receiver_db` and `try_save_receiver_db` are never called, though the comment at `receiver.cpp:161` says
  that a saved database is tried first.

Database:

* An assignment that mixes known and new items works on moved-from labels and may throw
  (`receiver_db.cpp:986-1035`); overwriting goes on to insert the item a second time into a later bundle with space.
* `remove` does not erase what `remove_if` left behind, so that removing an absent item throws although a
  warning says it is ignored (1216-1222); after another OPRF session it finds nothing at all. `get_label` looks for
  an encoding that labeled insertion never stored.
* In a labeled database, which stores hashes (979), `has_item` (1250) and `remove` (1197) look for the item itself: the
  one is false of every item inserted, the other always throws.
* A call whose workers throw has already changed the item set: it may name items that no bundle holds. The count still
  fits the set.
* With `max_items_per_bin` 1 a bundle's polynomial is longer than `load` accepts.
* `outputs_as_items[525]` is logged in `oprf_sender` (`receiver_db.cpp:241`), out of range for smaller tables.
* `build_psu_params` may return a null pointer that the programs use.

## 5. Fairness

Weak fairness of each process separately, never of a fault: each party of `JPEQT` and
`JPEQTConnect` is a process of its own whose blocking call returns once it can; in `SsPeqtRot` also of
the joint steps of a pair, which both sides are then waiting for; in `Intersection` only of the
whole session (some program makes progress while any can); in `ThreadPool` of each client
and worker thread, a mutex being handed on; in `ComputePowers` of each pool thread and main; in
`QueryExchange` of the sender's main thread, each of its workers and each receiver. The code
stops or prioritises none of its threads, so the operating system's scheduler gives this. Fairness of
a compare-and-swap that succeeds is not assumed: that `Claim` succeeds in the end follows because a
failed one means that another succeeded. `ThreadPool` has no spurious wake-ups, so that
a lost notification cannot be repaired by one. `ReceiverDB` has no liveness property: its owner may stop calling.

## 6. Proofs

`tlapm` proves the following for every value of the constants that meets the modules' `ASSUME`s.

`JPEQT_proof`, under `JPEQTAssumption` (at least two parties, at least one bin, `bn < tn`,
integers for shares, keys and scalars) and `OrderAssumption`:

* `TypeCorrect`: `Spec => []TypeOK`.
* `Inductive`: `Spec => []IInv`. None of the safety properties is inductive: that a receive meets a
  buffer of the right length depends on everything its peer has sent and consumed before. `IInv` is
  `TypeOK` and, for every socket, what it holds as a function of the `pc`s of the parties at
  its two ends and party 0's loop index (`ToZero`, `FromZero`, `Outward`, `Inward`, conjoined
  in `Control`). A party that failed keeps its `pc`, so the invariant says the same before and after a
  failure. The proof has one lemma per action.
* `Lengths`, `Flight`, `Chain`, `Atomic`: `LengthsAgree`, `OneInFlight`, `ChainOrder` and
  `AllOrNothing` follow from `IInv`; `Chain` by the numbers of the parties, `Atomic` because the
  first to fail missed its file (`RootCause`) before it sent its row, without which party 0
  never starts the chain.
* `DataAlways`: `Spec => []Data`, the contents behind `Control`: each buffer and each party's vectors as a
  function of the keys, the rows and the scalars. What goes outward is, bin by bin, the blinded difference of the
  shares under all keys (`Outgoing`); what comes back is that under the keys of 0..i, up to a permutation
  (`Incoming(i)`); party 0's sums are those of the keys and rows it has (`KeysIn`, `RowsIn`). `RecvCT` changes the
  blinding that all of these speak of, which is sound because `Control` says that nothing is under way on
  the links behind it.
* `Layers`, `Exact`: `LayersPeeled` and `ResultExact`. From a blinded difference of zero to equal shares takes that
  a product of scalars is zero modulo the order only if a factor is, so `Exact` uses that `Order` is prime.
* `Implements`: `Spec => ImplementsIdeal`, step by step: the one step that sets the result is the ideal's `Decide`,
  on the same rows, every other stutters. Its hypothesis is that no scalar is zero modulo the order: `GenRandomBigIntLessThan` may return
  zero, which makes a bin match whatever its shares are (`Zeroed` in `ResultExact`).

`FoldTheorems`: sums and products over finite sets of integers (`SumFunctionOnSet`, the fold with `*`), element by
element and independent of anything but the values on the set. The library's induction rules cannot be
instantiated here, so its inductions are on sets: the smallest counterexample, by `WFMin` and `NatLessThanWellFounded`,
for numbers (`InductionOnNat`) and for the sizes of finite sets. Beside them: the largest element of a finite
set of numbers (`MaxIs`), the last place of a segment (`LastPlace`), Euclid's lemma for a prime modulus, congruences and their sums (`Congruence`, `SumCongruent`), and
loops over a sequence: `UnrollingExists` and `RoundByRound` say that a fold is what its rounds make of it one after the
other. They are stated of an arbitrary round, the constant operator `OneRound`; a proof module says what the
rounds of its loops do and instantiates `FoldTheorems` with that.

The connections, in `JPEQT_proof` under `PartiesAssumption` and `tn <= 14`:

* `PortsFree` and `EndsRight`: `PortFree` and `RightEnds`. The inductive invariant `SetupInv` is `ConnectTypeOK`, `RightEnds`
  and `SetupAwaited`: a backlog holds no client but the one its listener is waiting for. `Port` is injective on
  the pairs and the two kinds only up to 14 parties, and `tn <= 14` is used nowhere else.

`Intersection_proof`, under `CsvAssumption`, `MCRGAssumption` and `IntersectionAssumption` (any receivers, bins and hash
functions, any csv files, any sets of missing and unwritable files; the number of threads divides that of the bins):

* `SessionInv`: `Spec => []IInv`, of five parts. `TypeInv`; `Preparation`, the files hold the parties' items, and the
  cuckoo table (`Table`) has every item of the sender in one bin, one of its locations, whichever placement was
  chosen; `Exchanges`, the sender's place and loop variable say of each receiver whether its exchange is untouched (or was broken off
  before either side wrote), half-way (`Waiting`), answered, or answered with labels that the sender could not write, and
  what the buffer and the two files hold in each case; `LoopInv`, what a vector of the loop holds are matching bins
  from iterations that some thread has behind it, none twice, the copies that threads have read inside `emplace_back` included;
  `NothingLost`, one thread has pushed every matching bin it has passed.
* `FilesTogether`: `PairsTogether`. It needs `Exchanges`: after the silent VOLE neither side stops before it has sent
  what the other waits for, so a receiver that is answered has either written or could not open its file, and one
  whose exchange the sender never came to has written nothing.
* `LabelsMeet` is what the pipeline turns on: what decodes at the sender's key of a bin is the receiver's label exactly
  when the bin's item is one the receiver hashed to it.
* `ResultWritten`: `IntersectionWritten` for `numThreads = 1`. Each item of the intersection has a bin (`Table`), the bin matches
  (`LabelsMeet`), and one thread loses none. `OneThreadKeepsAll`: `EveryMatchKept` under the same hypothesis, which
  `intersection_par` shows to be needed.
* `NothingWrongWritten`: for any number of threads, what is written is in the intersection and nothing is written twice, unless
  the race crashes the program: the iterations are disjoint blocks (`Blocks`), so no push repeats a bin.

`SsPeqtRot_proof`, under `SsPeqtRotAssumption`:

* `Pairs`: `Spec => []PairsTogether`, for every set of missing and unwritable files. The inductive
  invariant `IInv` adds to `TypeOK` which file is new as a function of its writer's `pc` (`Files`) and that
  the sender and the receiver it serves come through the random OT together (`Lockstep`): the receivers before
  it are past it, those after it are before it. A sender that stopped leaves them so. A pair may therefore be of two
  sessions only because its older file did not open, and if that is the sender's, all later pairs are wholly old.
* `Labelled`: `Spec => []LabelsMeet` for an odd number of caches (`OddCaches`) and at most one cache per bin
  with an equal cell (`OneCachePerBin`: insertion puts an item into one bundle). The invariant says of the bits of
  a bin, folded or still to be folded, that they are equal exactly when the receiver holds the bin's item.
  `FoldRight` is the step of the zero test: the two parities differ by the equal cell of the bin and by `colNum`
  flips, so `ssrot_even` shows that `OddCaches` cannot be dropped.

`ReceiverDB_proof`, under the assumptions of its modules: parameters that `PSUParams` accepts, a prime modulus, batches
of items of at least `item_bit_count` bits, tags other than 0 and victims in the bucket (`FilterAssumption`):

* `Alone`: a query that reads has the lock to itself. `NothingChanges`: `Spec => NoChangeUnderReader`. The
  property is not a matter of one guard: the steps inside a call have none on the query, and the
  reader's first step none on the database; `ReaderAlone` connects the two.
* `DatabaseSound`: `Spec => []DBInv`. `Sound` is the invariant of one bundle: a sequence of felts per bin, as many labels as felts,
  a valid cache that is `RegenPolyns` of the present bins, and, unless bins hold one item, every bin below the limit.
  `InsertSound`, `OverwriteSound`, `RemoveSound`, `StripSound`, `LoadSound` and `RegenSound` say what each operation keeps of it; `WriteSound` and
  `RemoveEntrySound` carry it through a worker's choice of a bundle, `TaskSound` through its entries,
  `DispatchSound` through the bundle indices. The model's folds are reasoned about round by round (`FoldTheorems!RoundByRound`).
* `FreshCaches`: `Spec => QueryMeetsFreshCache`, from `CachesFresh` of that invariant and `ReaderAlone`.
* `ComesBack`: `Spec => []LoadsBack`, if `max_items_per_bin` is at least 2. `CacheLengths` is the core: n items give a
  matching polynomial of n + 1 coefficients and an interpolation polynomial of n (`RootsLength`, `NewtonLength`), so what
  `HasSpace` admits is what `load` accepts. With `max_items_per_bin = 1`, which
  `PSUParams::initialize` accepts (psu_params.cpp:101), it is false: `HasSpace` finds space nowhere, every item gets a new bundle, whose
  polynomials have two coefficients, and `load` throws on what `save` wrote (bin_bundle.cpp:1348). No parameter file of the repository has that value.
* `CachesRight`: `Spec => [](NoFeltTwice => CachesMatchBins)`, of polynomials of any degree. What it needs of the
  past is in `Sound` (`InField`: bins and labels hold field elements) and in `PartsInField`: what `preprocess` makes of any bit
  string is below the modulus (`BitsInField`, over `PowersGrow` and the rounds of the fold). Of the cache, `ColumnRoots`: the
  column of a batched matching polynomial is zero at the felts of its bin and nowhere else, for a product
  modulo a prime is zero only if a factor is, and Horner's method on a product of `MulMonicMonomial` is the product of the values.
  `NewtonValue`: the interpolation polynomial takes the label at each felt, by induction over the table of divided differences.
  `NoFeltTwice`, no felt twice in a labeled bin, is what the filters are relied on for (`NoneTwice`).
  `PowersOfTwo` and `InversesRight` (Fermat's little theorem) are two facts of arithmetic that
  the provers cannot derive; they are hypotheses of the theorem, and TLC evaluates them for the run's modulus.
* `FiltersRight`: `Spec => [](NoneRefused => FilterFindsAll)`. `NoneRefused` says that each filter counts as many felts
  as its bin has. It can fail: `add` returns false once the overflow entry is taken, nobody looks at what it returns
  (bin_bundle.cpp `multi_insert`, `load`), and the count stays behind until the filter is built anew. `FilterRight` is the invariant of a filter
  and its bin: the count is at most the length, and when they are equal each felt of the bin has a place of its own in the
  table, or the overflow entry, in one of its two buckets (`Kept`). It is kept by an `add` with its kicks (`KickHolds`:
  the tag in hand moves to the other bucket of the tag it displaced; `AddRight`), by a `remove`, which may delete the equal tag of another felt
  (`RemoveRight`: the two felts then exchange places, `SwapHolds`), and by a rebuild (`FilledRight`). `BucketsPaired`, the other
  bucket of the other bucket is the first one, is a fact of the exclusive or, a hypothesis that TLC evaluates.
* `NoneTwice`: `Spec /\ []NoneRefused => []NoFeltTwice`, from `Keeps(TRUE)`, which is inductive while no filter refuses a
  felt: `HasSpace` asks the filter before it inserts. `CachesStayRight`: with `CachesRight`, `CachesMatchBins` for every behaviour in
  which no filter refuses a felt. The run's filters never do.
* `CountsItems`: `Spec => []CountRight`, the first part of `StoreHoldsItems` (and also within a call and after a failed one): `item_count_` is the
  number of items recorded, whatever a batch repeats. The predicates of `remove_if` record items while they
  are asked; `CountsInserted` and `CountsRemoved` go through a batch with the set seen so far. So the check of
  `Load` (receiver_db.cpp:1492) refuses nothing that `save` wrote.
`ThreadPool_proof`, under `ThreadPoolAssumption`, whose set of clients is finite (they are counted by `ref_count`):

* `Inductive`: `Spec => []IInv`, of six parts: `Types`; `Workers`, the live workers are the first `size` and a
  worker has a task exactly from `Take` to `CountOut`; `Managers`, `ref_count` counts the clients inside, the pool
  lives while there is one and stops under the one that left last; `Count`, `in_flight` is the number of tasks queued
  and taken; `Asked`; and `Placed`, every accepted task is in the queue once, at one worker, or done.
  Resizing is what makes them hang together: a worker that is not needed any more leaves only with
  empty hands, and a stopped pool loses its last worker only when the queue is empty.
* `Safe`: `DestructorSafe`. When the last client has joined, `size` is 0, so nothing is queued or taken.
* `Once`: `EachTaskOnce`, from `Placed`. `Accepting`: the `runtime_error` of `enqueue` is unreachable
  (stated in the proof module, for it needs no run).

`ComputePowers_proof`, under the assumptions of `PowersDag` and `ComputePowers` (`configure()` gets finite target sets; any
sources, threads, throwing powers and number of configurations):

* `Inductive`: `Spec => []IInv`. `Plan` says that after `configure()` the nodes are `Planned`: the sources' and, at
  every other target, the best product for the depths the smaller targets have *in the same plan*, whatever nodes an
  earlier call left. The rest begins with `StartApply`: `Claiming`, a node is Computing exactly if one worker holds it or threw at it;
  `Nodes`, a computed node holds its power, applied once, its parents computed; `Knowing`, what each stage of a
  worker knows of the node it has claimed and that nobody can change under it; `Main`, the forms. A worker's step
  touches its own node only (`WorkerStep`), so the others' knowledge is kept by one frame argument.
* `PlanRight`: `QueryPlanSound`. `LevelIs` is the core: in a plan the targets that k rounds of products reach are
  those of depth at most k, by induction on k, the best product of a power being no deeper than any of its products. That the targets of
  `create_powers_set` are all sums of two others is arithmetic modulo `low + 1`.
* `Alone`, `InOrder`, `InForm`: `OneWorkerPerNode`, `ComputedInOrder`, `FormsSafe`. `TypeCorrect`: `TypeOK`.
* `EvaluatesEveryPolynomial`, and `EvaluatesRight` from it: `EvalRight` for every prime modulus and every low degree but 1. In place of the bins'
  polynomials, items and mask of the run it has all integers. What the code computes is compared modulo `mod` with the powers of the item
  (`ArePowers`) and the partial sums of its terms (`ArePartial`): square and multiply gives the power (`ExponentiateIs`),
  Horner's method the whole sum (`ValueIs`), `eval` and each inner polynomial a difference of two partial sums (`EvalPolynIs`, `InnerIs`),
  and in `eval_patstock` these differences telescope over the high powers, whatever the remainder (`EvalPatstockIs`). That the powers
  are there and in the form of their coefficients is `PowersSupply`, from `InForm` and arithmetic modulo `low + 1`.

`QueryExchange_proof`, under `QueryAssumption`, `ParametersAssumption` and `LimitsAssumption` (a receiver's powers are a finite set that is not
empty, it has at least one bundle; any number of receivers, workers, caches, other clients and their requests):

* `Inductive`: `Spec => []IInv`, of seven parts. `Types`; `Asking` and `Phases`: the sender's stage says of each receiver
  whether it is untouched, silent, answering or finished, and what its channel holds. `Cells`: what a worker has taken or stored is a
  cell of the right receiver. `Ledger`: each package of the receiver being asked is not yet sent, in the channel, held by one
  worker, or in the matrix, and in one of these places only. `Crew`: what is held and stored, what the workers
  still wait for and `package_count` add up to the number of packages, and at least one worker is alive. `Written`: what is in a file.
* `FileComplete`: `SenderFileComplete`. When all workers are off, the count is 0, so all packages are
  stored, and with `Ledger` nothing is left in the channel for the next receiver's workers.
* `Awaited`: `AnswersAreAwaited`. `TypeCorrect`: `TypeOK`.
* `MasksAgree`: `MasksMatch` under `CachesInOrder`, no padded cache before a real one. A receiver draws
  a mask for each padded cell, the sender draws none; the proof is by induction over the cells that the
  receiver's fold draws. The run `query_uneven` shows that the hypothesis cannot be dropped.

Only model-checked: every liveness property (fairness and ENABLED are beyond the prover); of the database `StoreHoldsItems`, but for the item count (`CountsItems`). It speaks of
items found again through the filters and the polynomials, so for all constants it could only be a theorem where no filter refuses a felt (`NoneRefused`:
an item that is there is else not found and is inserted a second time) and where no elements of several items make up
another one, which is how the run's items are chosen. The run's filters do not get so full.

## 7. What is not modelled

* Cryptography: the group, SEAL (but for the forms its operations accept), VOLE, OKVS, GMW, OT and the OPRF
  are steps that do what their interface says. Secrecy is not a subject of these modules. The vendored FourQ code
  is arithmetic on fixed-width words, out of a model checker's reach.
* What nothing calls in this fork: the plain-response and OPRF requests of the dispatcher, `process_result_part` and
  `extract_result` of the sender, `StreamChannel`, `print_intersection_results`, and the `_osn` dispatcher, whose
  receiver is not in the repository. The move operations and `get_packing_rate` of the database, `pd_tool`.
* Bits: the packing of field elements into blocks, of tags into the filter's table, `copy_with_bit_offset` (modelled
  by the bits it copies), and the layout of the files.
* That a thread takes the reader lock twice (`RunQuery` through getters of the database): no program has a writer that could
  wait in between once it dispatches, so every lock is taken once.
* Parsing of arguments, logging and timing: no property is about them.
