---------------------------- MODULE BalancedMCRG ----------------------------
(***************************************************************************)
(* The small-set parties: the simple hashing of a receiver's csv file      *)
(* (uMCRG/MCRG/cli/simple_hash, ReceiverDB::my_set_data) and the balanced  *)
(* MCRG (MCRG/mcrg), in which the sender gets one label per bin from every *)
(* receiver in turn.  The two labels of a bin are the same exactly when    *)
(* the sender's item of the bin is one the receiver hashed to it.          *)
(*                                                                         *)
(* After the silent VOLE the blocks satisfy mA = mB + mC * mD: a mask is   *)
(* known by its bin and by what multiplies mD.  The sender sends diffC,    *)
(* per bin its item xor mC; the receiver hides t_lable behind the hash of  *)
(* mB + (y xor diffC) * mD, which is that of mA if y is the sender's item, *)
(* and sends P, which decodes at the keys it was solved for.  What decodes *)
(* anywhere else is random.  A buffer that is sent arrives when the other  *)
(* side receives; who waits for a process that has gone throws.            *)
(***************************************************************************)
EXTENDS CsvFiles

CONSTANTS
  tn,          \* the small-set receivers: balanced_MCRG's tn
  numBins,     \* table_size
  Locations,   \* the bins the hash functions give an item
  Unreadable,  \* the sets of files that may be missing
  Unwritable   \* the sets of files that may not open

Bins      == 0..(numBins - 1)
Sender    == 0
Receivers == 1..tn
Parties   == 0..tn
Indices   == 0..(tn - 1)
FileNames == ({"csv"} \X Parties)
             \cup ({"sender_item"} \X {Sender})
             \cup ({"hash_result", "sender_result", "receiver_result"} \X Receivers)

ASSUME MCRGAssumption ==
  /\ tn \in Nat \ {0} /\ numBins \in Nat \ {0}
  /\ Locations \in [Items -> SUBSET Bins]
  /\ Unreadable \subseteq SUBSET FileNames /\ Unwritable \subseteq SUBSET FileNames

VARIABLES
  csv,          \* per party, the lines of its csv file
  unreadable, unwritable,
  stage,        \* which program runs
  hashed,       \* the simple_hash programs that have run
  hash_result,  \* per receiver, the file hash_result/receiver_1_i
  sender_item,  \* the file mcrg_result/sender_item
  at,           \* what each process of balanced_MCRG has come to
  serving,      \* the sender's loop variable
  wire,         \* per receiver, the buffer under way
  sender_result, receiver_result  \* per receiver, the result files

files    == <<csv, unreadable, unwritable>>
prepared == <<hashed, hash_result>>
mcrgVars == <<at, serving, wire, sender_result, receiver_result>>

-----------------------------------------------------------------------------
(* Simple hashing. *)

\* Mutant: an item goes to the first of its locations only.
HashFileFirst(items) ==
  [items |-> items,
   item_hash_indices |->
     [k \in Bins |-> {<<n - 1, k>> : n \in {m \in DOMAIN items :
        k \in Locations[items[m]] /\ \A l \in Locations[items[m]] : k <= l}}]]

\* my_preprocess_unlabeled_data: the items, and per bin the index of every
\* item that one of the hash functions sends there, with the location.
HashFile(items) ==
  [items |-> items,
   item_hash_indices |->
     [k \in Bins |-> {<<n - 1, k>> : n \in {m \in DOMAIN items : k \in Locations[items[m]]}}]]

\* my_insert_or_assign into a new database: an item that is there is dropped.
NewItems(items) ==
  FoldLeft(LAMBDA acc, x : IF x \in ToSet(acc) THEN acc ELSE Append(acc, x), <<>>, items)

\* One run of simple_hash.  A missing csv file, labels or a file that does not
\* open are only logged: what the file held before is still there.
SimpleHash ==
  /\ stage = "simple_hash" /\ hashed < tn
  /\ LET p == hashed + 1
         data == ReadCsv(csv[p])
     IN  hash_result' =
           IF <<"csv", p>> \in unreadable \/ data.labeled \/ <<"hash_result", p>> \in unwritable
           THEN hash_result
           ELSE [hash_result EXCEPT ![p] = HashFile(NewItems(data.items))]
  /\ hashed' = hashed + 1
  /\ UNCHANGED <<files, stage, sender_item, mcrgVars>>

-----------------------------------------------------------------------------
(* balanced_MCRG. *)

Running(p, where) == stage = "mcrg" /\ at[p] = where
Stopped(p) == at[p] \in {"done", "returned", "thrown"}
AllStopped == \A p \in Parties : Stopped(p)

\* The receiver the sender's loop has come to.
Served == serving + 1
Meet(here, there) == Running(Sender, here) /\ Running(Served, there)

\* One loop dials every receiver, a second one listens for each in turn.
ConnectReceive ==
  /\ Meet("dial", "listen")
  /\ at' = [at EXCEPT ![Served] = "dial", ![Sender] = IF Served < tn THEN @ ELSE "listen"]
  /\ serving' = Served % tn
  /\ UNCHANGED <<files, stage, prepared, sender_item, wire, sender_result, receiver_result>>

ConnectSend ==
  /\ Meet("listen", "dial")
  /\ at' = [at EXCEPT ![Served] = "read", ![Sender] = IF Served < tn THEN @ ELSE "read"]
  /\ serving' = Served % tn
  /\ UNCHANGED <<files, stage, prepared, sender_item, wire, sender_result, receiver_result>>

InputOf(p) == IF p = Sender THEN <<"sender_item", Sender>> ELSE <<"hash_result", p>>

\* Who cannot open its input returns.
Read(p) ==
  /\ Running(p, "read")
  /\ at' = [at EXCEPT ![p] = IF InputOf(p) \in unreadable THEN "returned" ELSE "vole"]
  /\ UNCHANGED <<files, stage, prepared, sender_item, serving, wire, sender_result, receiver_result>>

\* silentReceive and silentSend.
Vole ==
  /\ Meet("vole", "vole")
  /\ at' = [at EXCEPT ![Sender] = "send", ![Served] = "receive"]
  /\ UNCHANGED <<files, stage, prepared, sender_item, serving, wire, sender_result, receiver_result>>

\* The sender's item of a bin, without which its key is random.
ItemAt(k) ==
  IF sender_item.index_co[k] = -1 THEN NoItem
  ELSE sender_item.originitem[sender_item.index_co[k] + 1]

\* diffC: per bin mC, with the item of the bin added.
SendDiffC ==
  /\ Running(Sender, "send")
  /\ wire' = [wire EXCEPT ![Served] = <<"diffC", [k \in Bins |-> ItemAt(k)]>>]
  /\ at' = [at EXCEPT ![Sender] = "receive"]
  /\ UNCHANGED <<files, stage, prepared, sender_item, serving, sender_result, receiver_result>>

\* What remains of mC beside y xor diffC: nothing but mC if y is the item.
Factor(y, diffC) == IF y = diffC THEN "mC" ELSE "other"

\* The keys and values P is solved for: y || j, the mask, the label behind it.
Entries(file, diffC) ==
  UNION {{LET y == file.items[p[1] + 1]
          IN  [key |-> <<y, p[2]>>, mask |-> <<i, Factor(y, diffC[i])>>, lable |-> i] :
            p \in file.item_hash_indices[i]} : i \in Bins}

\* The receiver takes diffC, draws t_lable and answers with P.
Answer(p) ==
  /\ Running(p, "receive") /\ wire[p] # <<>>
  /\ wire' = [wire EXCEPT ![p] = <<"P", Entries(hash_result[p], wire[p][2])>>]
  /\ at' = [at EXCEPT ![p] = "write"]
  /\ UNCHANGED <<files, stage, prepared, sender_item, serving, sender_result, receiver_result>>

T_lable == [k \in Bins |-> <<"lable", k>>]

\* What decodes at the sender's keys, without the mask of mA.
S_lable(P) ==
  [k \in Bins |->
     IF \E e \in P : e.key = <<ItemAt(k), k>> /\ e.mask = <<k, "mC">> /\ e.lable = k
     THEN <<"lable", k>> ELSE <<"random", k>>]

\* The receiver writes its labels when P is on its way.
WriteReceiver(p) ==
  /\ Running(p, "write")
  /\ IF <<"receiver_result", p>> \in unwritable
     THEN at' = [at EXCEPT ![p] = "returned"] /\ UNCHANGED receiver_result
     ELSE /\ at' = [at EXCEPT ![p] = "done"]
          /\ receiver_result' = [receiver_result EXCEPT ![p] = T_lable]
  /\ UNCHANGED <<files, stage, prepared, sender_item, serving, wire, sender_result>>

\* The sender takes P, writes its labels and goes on to the next receiver.
WriteSender ==
  /\ Running(Sender, "receive") /\ wire[Served] # <<>> /\ wire[Served][1] = "P"
  /\ wire' = [wire EXCEPT ![Served] = <<>>]
  /\ IF <<"sender_result", Served>> \in unwritable
     THEN at' = [at EXCEPT ![Sender] = "returned"] /\ UNCHANGED <<serving, sender_result>>
     ELSE /\ sender_result' = [sender_result EXCEPT ![Served] = S_lable(wire[Served][2])]
          /\ IF Served < tn
             THEN serving' = Served /\ at' = [at EXCEPT ![Sender] = "vole"]
             ELSE serving' = serving /\ at' = [at EXCEPT ![Sender] = "done"]
  /\ UNCHANGED <<files, stage, prepared, sender_item, receiver_result>>

Partner(p) == IF p = Sender THEN Served ELSE Sender

\* Mutant: an error of the other side is taken for its answer.
ThrowWrites(p) ==
  /\ Running(p, "vole") /\ Stopped(Partner(p))
  /\ at' = [at EXCEPT ![p] = IF p = Sender THEN "thrown" ELSE "write"]
  /\ UNCHANGED <<files, stage, prepared, sender_item, serving, wire, sender_result, receiver_result>>

\* Mutant: the run is started again.
ThrowRetry(p) ==
  /\ Running(p, "vole") /\ Stopped(Partner(p))
  /\ at' = at
  /\ UNCHANGED <<files, stage, prepared, sender_item, serving, wire, sender_result, receiver_result>>

\* The silent VOLE ends in an exception when the other side has gone; after
\* it, neither side stops before it has sent what the other waits for.
Throw(p) ==
  /\ Running(p, "vole") /\ Stopped(Partner(p))
  /\ at' = [at EXCEPT ![p] = "thrown"]
  /\ UNCHANGED <<files, stage, prepared, sender_item, serving, wire, sender_result, receiver_result>>

Balanced_MCRG ==
  \/ ConnectReceive \/ ConnectSend \/ Vole \/ SendDiffC \/ WriteSender
  \/ \E p \in Parties : Read(p) \/ Throw(p)
  \/ \E p \in Receivers : Answer(p) \/ WriteReceiver(p)

-----------------------------------------------------------------------------
\* Whatever files an earlier session has left: here one that found a match
\* everywhere.  Nothing deletes them.
Old == [k \in Bins |-> <<"old", k>>]

MCRGInit ==
  /\ unreadable \in Unreadable /\ unwritable \in Unwritable
  /\ stage = "simple_hash"
  /\ hashed = 0
  /\ hash_result = [p \in Receivers |-> HashFile(SetToSeq(Items))]
  /\ sender_item = [originitem |-> <<>>, index_co |-> [k \in Bins |-> -1]]
  /\ at = [p \in Parties |-> IF p = Sender THEN "dial" ELSE "listen"]
  /\ serving = 0
  /\ wire = [p \in Receivers |-> <<>>]
  /\ sender_result = [p \in Receivers |-> Old]
  /\ receiver_result = [p \in Receivers |-> Old]

\* The joint test reads the two files of a pair without knowing which session
\* wrote them.  When all have stopped, wherever the processes met an error, a
\* pair is of two sessions only where the older file did not open (MCRG.cpp
\* 96-99, 214-217).  A receiver's file that did not open leaves the other pairs
\* alone; the sender's leaves all the later pairs wholly old.
PairsTogether ==
  AllStopped =>
    \A p \in Receivers :
      /\ sender_result[p] # Old /\ receiver_result[p] = Old =>
           <<"receiver_result", p>> \in unwritable
      /\ receiver_result[p] # Old /\ sender_result[p] = Old =>
           /\ <<"sender_result", p>> \in unwritable
           /\ \A q \in (p + 1)..tn : sender_result[q] = Old /\ receiver_result[q] = Old
=============================================================================
