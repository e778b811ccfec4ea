---------------------------- MODULE Intersection ----------------------------
(***************************************************************************)
(* From the csv files to intersection.txt, the programs one after another: *)
(* auto_prepare.py's simple hashing, the sender's program with its cuckoo  *)
(* table and the files mapping, orig_item and sender_item                  *)
(* (uMCRG/MCRG/cli/sender/sender.cpp, sender/apsu/sender_ddh.cpp), the     *)
(* balanced MCRG, the parallel loop of party 0 that collects the matching  *)
(* bins (JPEQT.cpp) and write_intersection (readFiles.h), which looks them *)
(* up.  Of the big-set parties only the sets are here: SsPeqtRot says that *)
(* their labels match when they hold the item, and JPEQT that the joint    *)
(* test finds the bins where all labels match.                             *)
(*                                                                         *)
(* The cuckoo table is the Kuku library's: every item ends up at one of    *)
(* the locations its hash functions give, at most one item per location,   *)
(* or the insertion fails.  The loop's push onto m_idx is two steps, the   *)
(* reading of the vector's pointers and the writing of the element and the *)
(* new pointers: the loop takes no lock.                                   *)
(***************************************************************************)
EXTENDS BalancedMCRG

CONSTANTS
  CsvFiles,   \* the csv files the parties may have, per party its lines
  BigSets,    \* the sets of big sets there may be
  numThreads  \* nt

Threads == 0..(numThreads - 1)

ASSUME IntersectionAssumption ==
  /\ numThreads \in Nat \ {0} /\ numBins % numThreads = 0
  /\ CsvFiles \subseteq [Parties -> Seq(Line)]
  /\ BigSets \subseteq SUBSET SUBSET Items

VARIABLES
  bigSets,        \* the sets of the big-set parties
  orig_items,     \* the items the sender's program has read
  index_cuckoo,   \* the file mapping: per bin an index into orig_items, or -1
  orig_item,      \* the lines of the file orig_item
  next,           \* per thread of the loop, its loop variable
  reg,            \* per thread inside emplace_back, the vector as it read it
  m_idx,          \* the vector: its buffer, which may be longer than its size
  intersection    \* the lines of intersection.txt

sender == <<orig_items, index_cuckoo, orig_item>>
loop   == <<next, reg, m_idx, intersection>>
vars   == <<files, stage, prepared, sender_item, mcrgVars, bigSets, sender, loop>>

\* A vector of ints: id names its storage, which growing replaces.
Vector(id, cap, buf) == [id |-> id, cap |-> cap, buf |-> buf]
NoVector == Vector(-1, 0, <<>>)

\* The iterations of a thread under the static schedule: one block each.
FirstBin(t) == t * (numBins \div numThreads)
EndBin(t)   == (t + 1) * (numBins \div numThreads)

Init ==
  /\ MCRGInit
  /\ csv \in CsvFiles
  /\ bigSets \in BigSets
  /\ orig_items = <<>>
  /\ index_cuckoo = [b \in Bins |-> -1]
  /\ orig_item = <<>>
  /\ next = [t \in Threads |-> FirstBin(t)]
  /\ reg = [t \in Threads |-> NoVector]
  /\ m_idx = Vector(0, 0, <<>>)
  /\ intersection = <<>>

-----------------------------------------------------------------------------
(* Preparation, and the sender's program. *)

Prepare == SimpleHash /\ UNCHANGED <<bigSets, sender, loop>>

\* load_db in remote_query: without items that bear no label it returns -1.
NoQuery ==
  /\ stage = "simple_hash" /\ hashed = tn
  /\ <<"csv", Sender>> \in unreadable \/ ReadCsv(csv[Sender]).labeled
  /\ stage' = "stopped"
  /\ UNCHANGED <<files, prepared, sender_item, mcrgVars, bigSets, sender, loop>>

\* The file orig_item: the number of items, then the items.
Write_sender_item(items) == <<ToString(Len(items))>> \o items

LoadQuery ==
  /\ stage = "simple_hash" /\ hashed = tn
  /\ <<"csv", Sender>> \notin unreadable /\ ~ReadCsv(csv[Sender]).labeled
  /\ orig_items' = ReadCsv(csv[Sender]).items
  /\ orig_item' = Write_sender_item(orig_items')
  /\ stage' = "hash"
  /\ UNCHANGED <<files, prepared, sender_item, mcrgVars, bigSets, index_cuckoo, loop>>

\* Where the table may hold the items: one location each, no two the same.
Placements(items) ==
  {p \in [items -> Bins] : /\ \A x \in items : p[x] \in Locations[x]
                           /\ \A x, y \in items : p[x] = p[y] => x = y}

\* A repeated item is inserted once; the mapping then holds its last line.
Cuckoo_Hash ==
  /\ stage = "hash"
  /\ \E p \in Placements(ToSet(orig_items)) :
       index_cuckoo' = [b \in Bins |->
         LET here == {n \in DOMAIN orig_items : p[orig_items[n]] = b}
         IN  IF here = {} THEN -1 ELSE Max(here) - 1]
  /\ sender_item' = [originitem |-> orig_items, index_co |-> index_cuckoo']
  /\ stage' = "mcrg"
  /\ UNCHANGED <<files, prepared, mcrgVars, bigSets, orig_items, orig_item, loop>>

\* "failed to insert item into cuckoo table": remote_query returns -1.
InsertFails ==
  /\ stage = "hash" /\ Placements(ToSet(orig_items)) = {}
  /\ stage' = "stopped"
  /\ UNCHANGED <<files, prepared, sender_item, mcrgVars, bigSets, sender, loop>>

-----------------------------------------------------------------------------
(* The balanced MCRG, and the joint test when its processes have stopped.  *)

MCRG == Balanced_MCRG /\ UNCHANGED <<bigSets, sender, loop>>

Collect ==
  /\ stage = "mcrg" /\ AllStopped
  /\ stage' = "collect"
  /\ UNCHANGED <<files, prepared, sender_item, mcrgVars, bigSets, sender, loop>>

-----------------------------------------------------------------------------
(* The loop over the bins that come back to party 0. *)

\* What Get_intersection says of a bin (JPEQT's ResultExact): all the labels
\* that were written for it match.
Matches(b) ==
  /\ \A s \in bigSets : index_cuckoo[b] # -1 /\ orig_items[index_cuckoo[b] + 1] \in s
  /\ \A p \in Receivers : sender_result[p][b] = receiver_result[p][b]

InLoop(t) == stage = "collect" /\ reg[t] = NoVector /\ next[t] < EndBin(t)

Skip(t) ==
  /\ InLoop(t) /\ ~Matches(next[t])
  /\ next' = [next EXCEPT ![t] = @ + 1]
  /\ UNCHANGED <<files, prepared, sender_item, mcrgVars, bigSets, sender, stage, reg, m_idx, intersection>>

\* emplace_back reads the pointers of the vector.
EmplaceRead(t) ==
  /\ InLoop(t) /\ Matches(next[t])
  /\ reg' = [reg EXCEPT ![t] = m_idx]
  /\ UNCHANGED <<files, prepared, sender_item, mcrgVars, bigSets, sender, stage, next, m_idx, intersection>>

\* Full: the elements move to storage twice as large.
Grow(v, b) == Vector(v.id + 1, IF v.cap = 0 THEN 1 ELSE 2 * v.cap, Append(v.buf, b))

\* emplace_back writes the element behind the last one it read of, and the
\* pointers.  If another thread has moved the elements in between, the write
\* goes to storage that has been freed and the pointers no longer belong
\* together: nothing is defined any more, and the program may crash.
EmplaceWrite(t) ==
  /\ stage = "collect" /\ reg[t] # NoVector
  /\ IF reg[t].id = m_idx.id
     THEN /\ m_idx' = IF Len(reg[t].buf) < reg[t].cap
                      THEN [m_idx EXCEPT !.buf = Append(reg[t].buf, next[t])]
                      ELSE Grow(reg[t], next[t])
          /\ stage' = stage
     ELSE stage' = "crashed" /\ UNCHANGED m_idx
  /\ next' = [next EXCEPT ![t] = @ + 1]
  /\ reg' = [reg EXCEPT ![t] = NoVector]
  /\ UNCHANGED <<files, prepared, sender_item, mcrgVars, bigSets, sender, intersection>>

\* The threads have joined: write_intersection skips the first line of
\* orig_item and looks the bins up.  A bin of an earlier session's match may
\* have no item now, and what is read in front of the items is not defined.
write_intersection ==
  /\ stage = "collect"
  /\ \A t \in Threads : reg[t] = NoVector /\ next[t] = EndBin(t)
  /\ IF \E b \in ToSet(m_idx.buf) : index_cuckoo[b] = -1
     THEN stage' = "crashed" /\ UNCHANGED intersection
     ELSE /\ LET orig == Tail(orig_item) IN
             intersection' = [n \in DOMAIN m_idx.buf |-> orig[index_cuckoo[m_idx.buf[n]] + 1]]
          /\ stage' = "done"
  /\ UNCHANGED <<files, prepared, sender_item, mcrgVars, bigSets, sender, next, reg, m_idx>>

Terminated == stage \in {"done", "stopped", "crashed"} /\ UNCHANGED vars

Next ==
  \/ Prepare \/ NoQuery \/ LoadQuery \/ Cuckoo_Hash \/ InsertFails
  \/ MCRG \/ Collect
  \/ \E t \in Threads : Skip(t) \/ EmplaceRead(t) \/ EmplaceWrite(t)
  \/ write_intersection \/ Terminated

Spec == Init /\ [][Next]_vars

\* Every program keeps running.
FairSpec == Spec /\ WF_vars(Next)

-----------------------------------------------------------------------------
(* Properties. *)

\* A file that begins with an item and has no labels, and the items on its
\* lines.
WellFormed(p) == <<"csv", p>> \notin unreadable /\ csv[p] # <<>> /\ HasItem(csv[p][1])
                 /\ ~HasLabel(csv[p][1])
ItemsIn(p) == {line.item : line \in ToSet(csv[p])} \ {NoItem}

\* When every program has come to its end, what the file holds is the
\* intersection: the items in the sender's csv file that every other party
\* has, each once, whatever the tables looked like, however often a line was
\* repeated and whatever files an earlier session left.
IntersectionWritten ==
  (/\ stage = "done" /\ \A p \in Parties : WellFormed(p) /\ at[p] = "done"
   /\ \A p \in Receivers : <<"hash_result", p>> \notin unwritable) =>
    /\ ToSet(intersection)
         = {x \in ItemsIn(Sender) : /\ \A p \in Receivers : x \in ItemsIn(p)
                                    /\ \A s \in bigSets : x \in s}
    /\ Len(intersection) = Cardinality(ToSet(intersection))

\* Nobody waits forever for a process that has returned early: the session
\* comes to its end.
SessionEnds == <>(stage \in {"done", "stopped", "crashed"})

\* Every bin that meets the condition of Get_intersection is in the result.
EveryMatchKept ==
  stage = "done" => \A b \in Bins : Matches(b) => b \in ToSet(m_idx.buf)
=============================================================================
