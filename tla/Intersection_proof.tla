-------------------------- MODULE Intersection_proof --------------------------
(***************************************************************************)
(* Theorems about Intersection and BalancedMCRG, for every number of       *)
(* receivers, bins and threads, all csv files, all hash functions and all  *)
(* files that may be missing or not open.                                  *)
(*                                                                         *)
(* The argument runs along the session.  What the loops over the files     *)
(* read is found round by round; the files of the preparation are those of *)
(* the parties' items (Preparation, Table); while the sender goes from     *)
(* receiver to receiver each exchange is untouched, under way or answered  *)
(* (Exchanges); and what the loop over the bins has pushed are matching    *)
(* bins, none twice (LoopInv), with one thread all of them (NothingLost).  *)
(***************************************************************************)
EXTENDS Intersection, FoldTheorems, TLAPS

-----------------------------------------------------------------------------
\* What a sequence holds.
LEMMA AppendSet ==
  ASSUME NEW S, NEW s \in Seq(S), NEW x \in S
  PROVE  ToSet(Append(s, x)) = ToSet(s) \cup {x}
<1>1. /\ Append(s, x) \in Seq(S) /\ Len(Append(s, x)) = Len(s) + 1 /\ Len(s) \in Nat
      /\ \A k \in 1..Len(s) : Append(s, x)[k] = s[k]
      /\ Append(s, x)[Len(s) + 1] = x
  BY AppendProperties, LenProperties
<1>2. DOMAIN Append(s, x) = 1..(Len(s) + 1) /\ DOMAIN s = 1..Len(s) BY <1>1, LenProperties
<1> DEFINE t == Append(s, x)
           n == Len(s)
<1> HIDE DEF t, n
<1>3. /\ n \in Nat /\ DOMAIN t = 1..(n + 1) /\ DOMAIN s = 1..n
      /\ \A k \in 1..n : t[k] = s[k]
      /\ t[n + 1] = x
  BY <1>1, <1>2 DEF t, n
<1>4. \A y \in ToSet(t) : y \in ToSet(s) \cup {x}
  <2> SUFFICES ASSUME NEW k \in 1..(n + 1) PROVE t[k] \in ToSet(s) \cup {x}
    BY <1>3 DEF ToSet
  <2>1. k \in 1..n \/ k = n + 1 BY <1>3
  <2> QED BY <1>3, <2>1 DEF ToSet
<1>5. \A y \in ToSet(s) \cup {x} : y \in ToSet(t)
  <2>1. n + 1 \in 1..(n + 1) /\ \A k \in 1..n : k \in 1..(n + 1) BY <1>3
  <2> QED BY <1>3, <2>1 DEF ToSet
<1>6. ToSet(t) = ToSet(s) \cup {x} BY <1>4, <1>5
<1> QED BY <1>6 DEF t

-----------------------------------------------------------------------------
(* What the two loops over a file make of it: the lines that have an item, *)
(* and the items that are not there yet.                                   *)

Round(kind, ctx, x, acc) ==
  IF kind = "lines" THEN IF HasItem(x) THEN Append(acc, x.item) ELSE acc
  ELSE IF x \in ToSet(acc) THEN acc ELSE Append(acc, x)

Loop == INSTANCE FoldTheorems WITH OneRound <- Round

Filtered(lines) ==
  FoldLeft(LAMBDA acc, line : IF HasItem(line) THEN Append(acc, line.item) ELSE acc, <<>>, lines)

LEMMA FilterRounds ==
  ASSUME NEW lines \in Seq(Line)
  PROVE  \E g : /\ g[0] = <<>> /\ g[Len(lines)] = Filtered(lines)
                /\ \A k \in 0..(Len(lines) - 1) :
                     g[k + 1] = IF HasItem(lines[k + 1]) THEN Append(g[k], lines[k + 1].item) ELSE g[k]
<1> DEFINE n == Len(lines)
           h == CHOOSE h : Loop!IsUnrolling(h, "left", "lines", "none", <<>>, lines, n)
<1>0. n \in Nat /\ DOMAIN lines = 1..n BY LenProperties
<1>1. Loop!IsUnrolling(h, "left", "lines", "none", <<>>, lines, n) BY <1>0, Loop!UnrollingExists
<1>2. Filtered(lines) = h[1..n]
  BY <1>0 DEF Filtered, FoldLeft, MapThenFoldSet, Round, Max, Min, Loop!Max, Loop!Min,
     Loop!IsUnrolling, Loop!Unrolled, Loop!LastTaken
<1> HIDE DEF h
<1>3. PICK g : Loop!AreRounds(g, "left", "lines", "none", <<>>, lines, n) /\ g[n] = h[1..n]
  BY ONLY <1>0, <1>1, Loop!RoundByRound
<1>r. /\ g[0] = <<>>
      /\ \A k \in 0..(n - 1) : g[k + 1] = Round("lines", "none", lines[k + 1], g[k])
  BY <1>3 DEF Loop!AreRounds
<1>4. \A k \in 0..(n - 1) :
        g[k + 1] = IF HasItem(lines[k + 1]) THEN Append(g[k], lines[k + 1].item) ELSE g[k]
  BY <1>r DEF Round
<1> QED BY <1>2, <1>3, <1>r, <1>4

\* The items that are read are those on the lines.
LEMMA FilterItems ==
  ASSUME NEW lines \in Seq(Line)
  PROVE  /\ Filtered(lines) \in Seq(Items)
         /\ ToSet(Filtered(lines)) = {line.item : line \in ToSet(lines)} \ {NoItem}
<1> DEFINE n == Len(lines)
           Taken(k) == {lines[j].item : j \in 1..k} \ {NoItem}
<1>0. n \in Nat /\ DOMAIN lines = 1..n /\ \A k \in 1..n : lines[k] \in Line
  BY LenProperties, ElementOfSeq
<1>1. PICK g : /\ g[0] = <<>> /\ g[n] = Filtered(lines)
               /\ \A k \in 0..(n - 1) :
                    g[k + 1] = IF HasItem(lines[k + 1]) THEN Append(g[k], lines[k + 1].item) ELSE g[k]
  BY FilterRounds
<1> DEFINE T == {k \in Nat : k <= n => g[k] \in Seq(Items) /\ ToSet(g[k]) = Taken(k)}
<1>2. 0 \in T
  <2>1. <<>> \in Seq(Items) /\ ToSet(<<>>) = {} BY DEF ToSet
  <2>2. Taken(0) = {} OBVIOUS
  <2> QED BY <1>1, <2>1, <2>2
<1>3. ASSUME NEW k \in T PROVE k + 1 \in T
  <2>0. k \in Nat BY <1>3
  <2> SUFFICES ASSUME k + 1 <= n PROVE g[k + 1] \in Seq(Items) /\ ToSet(g[k + 1]) = Taken(k + 1)
    BY <2>0
  <2>1. g[k] \in Seq(Items) /\ ToSet(g[k]) = Taken(k) BY <1>3, <2>0, <1>0
  <2>2. k \in 0..(n - 1) /\ k + 1 \in 1..n BY <2>0, <1>0
  <2>3. lines[k + 1] \in Line BY <1>0, <2>2
  <2>4. Taken(k + 1) = Taken(k) \cup ({lines[k + 1].item} \ {NoItem}) BY <2>0
  <2> HIDE DEF Taken
  <2>5. CASE HasItem(lines[k + 1])
    <3>1. g[k + 1] = Append(g[k], lines[k + 1].item) BY <1>1, <2>2, <2>5
    <3>2. lines[k + 1].item \in Items BY <2>3, <2>5 DEF HasItem, Line
    <3>3. ToSet(Append(g[k], lines[k + 1].item)) = ToSet(g[k]) \cup {lines[k + 1].item}
      BY <2>1, <3>2, AppendSet
    <3> QED BY <2>1, <2>4, <2>5, <3>1, <3>2, <3>3, AppendProperties DEF HasItem
  <2>6. CASE ~HasItem(lines[k + 1])
    <3>1. g[k + 1] = g[k] BY <1>1, <2>2, <2>6
    <3> QED BY <2>1, <2>4, <2>6, <3>1 DEF HasItem
  <2> QED BY <2>5, <2>6
<1>t. T \in SUBSET Nat OBVIOUS
<1> HIDE DEF T, Taken
<1>4. T = Nat BY <1>2, <1>3, <1>t, InductionOnNat
<1>c. n \in T /\ n <= n BY <1>4, <1>0
<1>5. g[n] \in Seq(Items) /\ ToSet(g[n]) = Taken(n) BY <1>c DEF T
<1>6. Taken(n) = {line.item : line \in ToSet(lines)} \ {NoItem} BY <1>0 DEF ToSet, Taken
<1> QED BY <1>1, <1>5, <1>6

LEMMA ReadFacts ==
  ASSUME NEW lines \in Seq(Line)
  PROVE  /\ ReadCsv(lines).items \in Seq(Items)
         /\ lines # <<>> /\ HasItem(lines[1]) =>
              /\ ToSet(ReadCsv(lines).items) = {line.item : line \in ToSet(lines)} \ {NoItem}
              /\ ReadCsv(lines).labeled = HasLabel(lines[1])
<1>1. ReadCsv(lines) = IF lines = <<>> \/ ~HasItem(lines[1])
                       THEN [labeled |-> FALSE, items |-> <<>>]
                       ELSE [labeled |-> HasLabel(lines[1]), items |-> Filtered(lines)]
  BY DEF ReadCsv, Filtered
<1>2. <<>> \in Seq(Items) OBVIOUS
<1>3. CASE lines = <<>> \/ ~HasItem(lines[1])
  <2>1. ReadCsv(lines).items = <<>> BY <1>1, <1>3
  <2> QED BY <1>2, <1>3, <2>1
<1>4. CASE ~(lines = <<>> \/ ~HasItem(lines[1]))
  <2>1. ReadCsv(lines).items = Filtered(lines) /\ ReadCsv(lines).labeled = HasLabel(lines[1])
    BY <1>1, <1>4
  <2>2. /\ Filtered(lines) \in Seq(Items)
        /\ ToSet(Filtered(lines)) = {line.item : line \in ToSet(lines)} \ {NoItem}
    BY FilterItems
  <2> QED BY <2>1, <2>2
<1> QED BY <1>3, <1>4

LEMMA NewRounds ==
  ASSUME NEW items \in Seq(Items)
  PROVE  \E g : /\ g[0] = <<>> /\ g[Len(items)] = NewItems(items)
                /\ \A k \in 0..(Len(items) - 1) :
                     g[k + 1] = IF items[k + 1] \in ToSet(g[k]) THEN g[k] ELSE Append(g[k], items[k + 1])
<1> DEFINE n == Len(items)
           h == CHOOSE h : Loop!IsUnrolling(h, "left", "new", "none", <<>>, items, n)
<1>0. n \in Nat /\ DOMAIN items = 1..n BY LenProperties
<1>1. Loop!IsUnrolling(h, "left", "new", "none", <<>>, items, n) BY <1>0, Loop!UnrollingExists
<1>2. NewItems(items) = h[1..n]
  BY <1>0 DEF NewItems, FoldLeft, MapThenFoldSet, Round, Max, Min, Loop!Max, Loop!Min,
     Loop!IsUnrolling, Loop!Unrolled, Loop!LastTaken
<1> HIDE DEF h
<1>3. PICK g : Loop!AreRounds(g, "left", "new", "none", <<>>, items, n) /\ g[n] = h[1..n]
  BY ONLY <1>0, <1>1, Loop!RoundByRound
<1>r. /\ g[0] = <<>>
      /\ \A k \in 0..(n - 1) : g[k + 1] = Round("new", "none", items[k + 1], g[k])
  BY <1>3 DEF Loop!AreRounds
<1>4. \A k \in 0..(n - 1) :
        g[k + 1] = IF items[k + 1] \in ToSet(g[k]) THEN g[k] ELSE Append(g[k], items[k + 1])
  BY <1>r DEF Round
<1> QED BY <1>2, <1>3, <1>r, <1>4

\* Dropping what is there already loses nothing.
LEMMA NewFacts ==
  ASSUME NEW items \in Seq(Items)
  PROVE  NewItems(items) \in Seq(Items) /\ ToSet(NewItems(items)) = ToSet(items)
<1> DEFINE n == Len(items)
           Taken(k) == {items[j] : j \in 1..k}
<1>0. n \in Nat /\ DOMAIN items = 1..n /\ \A k \in 1..n : items[k] \in Items
  BY LenProperties, ElementOfSeq
<1>1. PICK g : /\ g[0] = <<>> /\ g[n] = NewItems(items)
               /\ \A k \in 0..(n - 1) :
                    g[k + 1] = IF items[k + 1] \in ToSet(g[k]) THEN g[k] ELSE Append(g[k], items[k + 1])
  BY NewRounds
<1> DEFINE T == {k \in Nat : k <= n => g[k] \in Seq(Items) /\ ToSet(g[k]) = Taken(k)}
<1>2. 0 \in T
  <2>1. <<>> \in Seq(Items) /\ ToSet(<<>>) = {} BY DEF ToSet
  <2>2. Taken(0) = {} OBVIOUS
  <2> QED BY <1>1, <2>1, <2>2
<1>3. ASSUME NEW k \in T PROVE k + 1 \in T
  <2>0. k \in Nat BY <1>3
  <2> SUFFICES ASSUME k + 1 <= n PROVE g[k + 1] \in Seq(Items) /\ ToSet(g[k + 1]) = Taken(k + 1)
    BY <2>0
  <2>1. g[k] \in Seq(Items) /\ ToSet(g[k]) = Taken(k) BY <1>3, <2>0, <1>0
  <2>2. k \in 0..(n - 1) /\ k + 1 \in 1..n BY <2>0, <1>0
  <2>3. items[k + 1] \in Items BY <1>0, <2>2
  <2>4. Taken(k + 1) = Taken(k) \cup {items[k + 1]} BY <2>0
  <2> HIDE DEF Taken
  <2>5. CASE items[k + 1] \in ToSet(g[k]) BY <1>1, <2>1, <2>2, <2>4, <2>5
  <2>6. CASE items[k + 1] \notin ToSet(g[k])
    <3>1. g[k + 1] = Append(g[k], items[k + 1]) BY <1>1, <2>2, <2>6
    <3>2. ToSet(Append(g[k], items[k + 1])) = ToSet(g[k]) \cup {items[k + 1]}
      BY <2>1, <2>3, AppendSet
    <3> QED BY <2>1, <2>3, <2>4, <3>1, <3>2, AppendProperties
  <2> QED BY <2>5, <2>6
<1>t. T \in SUBSET Nat OBVIOUS
<1> HIDE DEF T, Taken
<1>4. T = Nat BY <1>2, <1>3, <1>t, InductionOnNat
<1>c. n \in T /\ n <= n BY <1>4, <1>0
<1>5. g[n] \in Seq(Items) /\ ToSet(g[n]) = Taken(n) BY <1>c DEF T
<1>6. Taken(n) = ToSet(items) BY <1>0 DEF ToSet, Taken
<1> QED BY <1>1, <1>5, <1>6

-----------------------------------------------------------------------------
(***************************************************************************)
(* The inductive invariant, in four parts: the variables' types, the files *)
(* of the preparation, the exchange of the balanced MCRG, the loop.        *)
(***************************************************************************)
Stages  == {"simple_hash", "hash", "mcrg", "collect", "done", "stopped", "crashed"}
Begun   == {"mcrg", "collect", "done", "crashed"}
Places  == {"dial", "listen", "read", "vole", "send", "receive", "write", "done", "returned", "thrown"}
Vectors == [id : Int, cap : Int, buf : Seq(Bins)]

TypeInv ==
  /\ stage \in Stages /\ hashed \in 0..tn
  /\ csv \in [Parties -> Seq(Line)]
  /\ hash_result = [p \in Receivers |-> hash_result[p]]
  /\ at \in [Parties -> Places] /\ serving \in Indices
  /\ wire = [p \in Receivers |-> wire[p]]
  /\ sender_result = [p \in Receivers |-> sender_result[p]]
  /\ receiver_result = [p \in Receivers |-> receiver_result[p]]
  /\ orig_items \in Seq(Items) /\ index_cuckoo \in [Bins -> Int]
  /\ next \in [Threads -> Int] /\ reg \in [Threads -> Vectors] /\ m_idx \in Vectors

\* The files: a receiver's holds the items of its csv file when the program
\* that writes it has run without an error.
Hashes(p) == /\ <<"csv", p>> \notin unreadable /\ ~ReadCsv(csv[p]).labeled
             /\ <<"hash_result", p>> \notin unwritable

\* The table: every item of the sender in one bin, which is one of its locations.
Occupied(b) == index_cuckoo[b] # -1
Occupant(b) == orig_items[index_cuckoo[b] + 1]
Table ==
  /\ \A b \in Bins : Occupied(b) => /\ index_cuckoo[b] + 1 \in DOMAIN orig_items
                                    /\ b \in Locations[Occupant(b)]
  /\ \A x \in ToSet(orig_items) : \E b \in Bins : Occupied(b) /\ Occupant(b) = x
  /\ \A a, b \in Bins : Occupied(a) /\ Occupied(b) /\ Occupant(a) = Occupant(b) => a = b

Preparation ==
  /\ stage # "simple_hash" => hashed = tn
  /\ \A p \in Receivers :
       p <= hashed /\ Hashes(p) => hash_result[p] = HashFile(NewItems(ReadCsv(csv[p]).items))
  /\ stage \in Begun \cup {"hash"} =>
       /\ orig_items = ReadCsv(csv[Sender]).items
       /\ orig_item = Write_sender_item(orig_items)
  /\ stage \in Begun =>
       /\ sender_item = [originitem |-> orig_items, index_co |-> index_cuckoo]
       /\ Table

\* The exchange with one receiver: not begun, or broken off before either side
\* wrote anything; or answered, when the receiver's file is written last of all.
Diff     == [k \in Bins |-> ItemAt(k)]
Reply(p) == Entries(hash_result[p], Diff)

Untouched(p) ==
  /\ at[p] \in {"listen", "dial", "read", "vole", "returned", "thrown"}
  /\ sender_result[p] = Old /\ receiver_result[p] = Old /\ wire[p] = <<>>

Answered(p) ==
  /\ at[p] \in {"write", "done", "returned"}
  /\ receiver_result[p] = IF at[p] = "done" THEN T_lable ELSE Old
  /\ at[p] = "returned" => <<"receiver_result", p>> \in unwritable

\* The receivers the sender's loop has done with.
Got(p) == at[Sender] = "done" \/ (at[Sender] \notin {"dial", "listen"} /\ p <= serving)

Waiting(p) ==
  /\ sender_result[p] = Old
  /\ \/ /\ at[p] = "receive" /\ wire[p] = <<"diffC", Diff>> /\ receiver_result[p] = Old
     \/ Answered(p) /\ wire[p] = <<"P", Reply(p)>>

\* The receiver whose labels the sender could not write.
Unwritten(p) ==
  /\ sender_result[p] = Old /\ <<"sender_result", p>> \in unwritable
  /\ Answered(p) /\ wire[p] = <<>>

Exchange(p) ==
  IF Got(p) THEN Answered(p) /\ wire[p] = <<>> /\ sender_result[p] = S_lable(Reply(p))
  ELSE IF p # Served THEN Untouched(p)
  ELSE IF at[Sender] = "send"
  THEN /\ at[p] = "receive"
       /\ sender_result[p] = Old /\ receiver_result[p] = Old /\ wire[p] = <<>>
  ELSE IF at[Sender] = "receive" THEN Waiting(p)
  ELSE Untouched(p) \/ (at[Sender] = "returned" /\ Unwritten(p))

Exchanges ==
  /\ at[Sender] # "write"
  /\ at[Sender] = "read" => serving = 0
  /\ stage \notin Begun => at[Sender] = "dial"
  /\ stage \in Begun \ {"mcrg"} => AllStopped
  /\ \A p \in Receivers : Exchange(p)

\* The loop: what a vector holds are bins that match, each from the iterations
\* its thread has behind it, and none twice.
Behind(t) == FirstBin(t)..(next[t] - 1)
Found(v) ==
  /\ \A n \in 1..Len(v.buf) : Matches(v.buf[n]) /\ \E t \in Threads : v.buf[n] \in Behind(t)
  /\ \A n, m \in 1..Len(v.buf) : v.buf[n] = v.buf[m] => n = m

LoopInv ==
  /\ \A t \in Threads : next[t] \in FirstBin(t)..EndBin(t)
  /\ stage \in Begun \ {"mcrg"} => Found(m_idx)
  /\ m_idx.id \in Nat
  /\ stage \in Begun \ {"mcrg"} =>
       \A t \in Threads : reg[t] # NoVector =>
         /\ next[t] < EndBin(t) /\ Matches(next[t]) /\ Found(reg[t])
  /\ stage \notin Begun \ {"mcrg"} =>
       /\ m_idx = Vector(0, 0, <<>>)
       /\ \A t \in Threads : next[t] = FirstBin(t) /\ reg[t] = NoVector
  /\ stage = "done" =>
       /\ \A t \in Threads : next[t] = EndBin(t)
       /\ \A n \in 1..Len(m_idx.buf) : Occupied(m_idx.buf[n])
       /\ intersection = [n \in DOMAIN m_idx.buf |-> Occupant(m_idx.buf[n])]

\* One thread loses nothing.
NothingLost ==
  numThreads = 1 /\ stage \in {"collect", "done"} =>
    /\ reg[0] \in {NoVector, m_idx}
    /\ \A b \in Behind(0) : Matches(b) => b \in ToSet(m_idx.buf)

IInv == TypeInv /\ Preparation /\ Exchanges /\ LoopInv /\ NothingLost

\* Whatever the threads of the loop do to each other, what is written is in the
\* intersection, and nothing is written twice.
NothingWrong ==
  (/\ stage = "done" /\ \A p \in Parties : WellFormed(p) /\ at[p] = "done"
   /\ \A p \in Receivers : <<"hash_result", p>> \notin unwritable) =>
    /\ ToSet(intersection)
         \subseteq {x \in ItemsIn(Sender) : /\ \A p \in Receivers : x \in ItemsIn(p)
                                            /\ \A s \in bigSets : x \in s}
    /\ Len(intersection) = Cardinality(ToSet(intersection))

-----------------------------------------------------------------------------
LEMMA Numbers ==
  /\ tn \in Nat /\ tn > 0 /\ numBins \in Nat /\ numBins > 0
  /\ numThreads \in Nat /\ numThreads > 0 /\ numBins % numThreads = 0
  /\ Sender \in Parties /\ Receivers \subseteq Parties /\ Sender \notin Receivers
  /\ \A p \in Parties : p = Sender \/ p \in Receivers
  /\ NoItem \notin Items /\ Locations \in [Items -> SUBSET Bins]
BY MCRGAssumption, IntersectionAssumption, CsvAssumption DEF Sender, Parties, Receivers

LEMMA ServedType ==
  ASSUME TypeInv
  PROVE  Served \in Receivers /\ Served \in Parties /\ Served # Sender /\ Served % tn \in Indices
         /\ (Served < tn => Served % tn = Served) /\ (~(Served < tn) => Served = tn /\ Served % tn = 0)
<1>1. serving \in Indices BY DEF TypeInv
<1>2. serving \in 0..(tn - 1) BY <1>1 DEF Indices
<1> QED BY <1>2, Numbers DEF Served, Receivers, Parties, Sender, Indices

\* What a step of the balanced MCRG does to the two sides.
LEMMA MCRGFrame ==
  ASSUME Balanced_MCRG
  PROVE  /\ stage = "mcrg"
         /\ UNCHANGED <<csv, unreadable, unwritable, stage, hashed, hash_result, sender_item>>
BY DEF Balanced_MCRG, ConnectReceive, ConnectSend, Vole, SendDiffC, WriteSender, Read, Throw, Answer,
       WriteReceiver, Meet, Running, files, prepared

LEMMA MCRGTypes ==
  ASSUME TypeInv, Balanced_MCRG
  PROVE  /\ at' \in [Parties -> Places] /\ serving' \in Indices
         /\ wire' = [p \in Receivers |-> wire'[p]]
         /\ sender_result' = [p \in Receivers |-> sender_result'[p]]
         /\ receiver_result' = [p \in Receivers |-> receiver_result'[p]]
<1> USE Numbers, ServedType
<1>0. /\ at \in [Parties -> Places] /\ serving \in Indices
      /\ wire = [p \in Receivers |-> wire[p]]
      /\ sender_result = [p \in Receivers |-> sender_result[p]]
      /\ receiver_result = [p \in Receivers |-> receiver_result[p]]
  BY DEF TypeInv
<1>1. ASSUME NEW s, UNCHANGED s, s = [p \in Receivers |-> s[p]] PROVE s' = [p \in Receivers |-> s'[p]]
  BY <1>1
<1>2. ASSUME NEW s, s = [p \in Receivers |-> s[p]], NEW q, NEW x, NEW t, t = [s EXCEPT ![q] = x]
      PROVE  t = [p \in Receivers |-> t[p]]
  BY <1>2
<1>3. CASE ConnectReceive BY <1>0, <1>3 DEF ConnectReceive, Places
<1>4. CASE ConnectSend BY <1>0, <1>4 DEF ConnectSend, Places
<1>5. CASE Vole BY <1>0, <1>5 DEF Vole, Places
<1>6. CASE SendDiffC BY <1>0, <1>6 DEF SendDiffC, Places
<1>7. CASE WriteSender
  <2>1. at' \in [Parties -> Places] /\ serving' \in Indices
    <3>1. CASE <<"sender_result", Served>> \in unwritable BY <1>0, <1>7, <3>1 DEF WriteSender, Places
    <3>2. CASE <<"sender_result", Served>> \notin unwritable
      <4>1. CASE Served < tn BY <1>0, <1>7, <3>2, <4>1 DEF WriteSender, Places
      <4>2. CASE ~(Served < tn) BY <1>0, <1>7, <3>2, <4>2 DEF WriteSender, Places
      <4> QED BY <4>1, <4>2
    <3> QED BY <3>1, <3>2
  <2>2. wire' = [p \in Receivers |-> wire'[p]] BY <1>0, <1>7 DEF WriteSender
  <2>3. sender_result' = [p \in Receivers |-> sender_result'[p]]
        /\ receiver_result' = [p \in Receivers |-> receiver_result'[p]]
    BY <1>0, <1>7 DEF WriteSender
  <2> QED BY <2>1, <2>2, <2>3
<1>8. ASSUME NEW p \in Parties, Read(p) PROVE at' \in [Parties -> Places]
  <2>1. at' = [at EXCEPT ![p] = IF InputOf(p) \in unreadable THEN "returned" ELSE "vole"]
    BY <1>8 DEF Read
  <2> QED BY <1>0, <2>1 DEF Places
<1>9. ASSUME NEW p \in Parties, Throw(p) PROVE at' \in [Parties -> Places]
  BY <1>0, <1>9 DEF Throw, Places
<1>10. ASSUME NEW p \in Receivers, Answer(p)
       PROVE  at' \in [Parties -> Places] /\ wire' = [q \in Receivers |-> wire'[q]]
  BY <1>0, <1>10 DEF Answer, Places
<1>11. ASSUME NEW p \in Receivers, WriteReceiver(p)
       PROVE  at' \in [Parties -> Places] /\ receiver_result' = [q \in Receivers |-> receiver_result'[q]]
  <2>1. CASE <<"receiver_result", p>> \in unwritable BY <1>0, <1>11, <2>1 DEF WriteReceiver, Places
  <2>2. CASE <<"receiver_result", p>> \notin unwritable BY <1>0, <1>11, <2>2 DEF WriteReceiver, Places
  <2> QED BY <2>1, <2>2
<1>12. ASSUME NEW p \in Parties, Read(p) \/ Throw(p)
       PROVE  UNCHANGED <<serving, wire, sender_result, receiver_result>>
  BY <1>12 DEF Read, Throw
<1>13. ASSUME NEW p \in Receivers, Answer(p) PROVE UNCHANGED <<serving, sender_result, receiver_result>>
  BY <1>13 DEF Answer
<1>14. ASSUME NEW p \in Receivers, WriteReceiver(p) PROVE UNCHANGED <<serving, wire, sender_result>>
  BY <1>14 DEF WriteReceiver
<1>15. ASSUME NEW p \in Parties, Read(p) \/ Throw(p)
       PROVE  /\ at' \in [Parties -> Places] /\ serving' \in Indices
              /\ wire' = [q \in Receivers |-> wire'[q]]
              /\ sender_result' = [q \in Receivers |-> sender_result'[q]]
              /\ receiver_result' = [q \in Receivers |-> receiver_result'[q]]
  <2>1. UNCHANGED <<serving, wire, sender_result, receiver_result>> BY <1>12, <1>15
  <2>2. at' \in [Parties -> Places] BY <1>8, <1>9, <1>15
  <2> QED BY <1>0, <2>1, <2>2
<1>16. ASSUME NEW p \in Receivers, Answer(p) \/ WriteReceiver(p)
       PROVE  /\ at' \in [Parties -> Places] /\ serving' \in Indices
              /\ wire' = [q \in Receivers |-> wire'[q]]
              /\ sender_result' = [q \in Receivers |-> sender_result'[q]]
              /\ receiver_result' = [q \in Receivers |-> receiver_result'[q]]
  <2>1. CASE Answer(p) BY <1>0, <1>10, <1>13, <2>1
  <2>2. CASE WriteReceiver(p) BY <1>0, <1>11, <1>14, <2>2
  <2> QED BY <1>16, <2>1, <2>2
<1> QED BY <1>3, <1>4, <1>5, <1>6, <1>7, <1>15, <1>16 DEF Balanced_MCRG

\* The cuckoo table puts every item of the sender in one of its bins.
LEMMA CuckooFacts ==
  ASSUME TypeInv, Cuckoo_Hash
  PROVE  index_cuckoo' \in [Bins -> Int] /\ Table'
<1> USE Numbers
<1>0. orig_items' = orig_items /\ orig_items \in Seq(Items) BY DEF Cuckoo_Hash, TypeInv
<1> DEFINE n == Len(orig_items)
<1>1. n \in Nat /\ DOMAIN orig_items = 1..n /\ \A k \in 1..n : orig_items[k] \in Items
  BY <1>0, LenProperties, ElementOfSeq
<1>2. PICK p \in Placements(ToSet(orig_items)) :
        index_cuckoo' = [b \in Bins |->
          LET here == {k \in DOMAIN orig_items : p[orig_items[k]] = b}
          IN  IF here = {} THEN -1 ELSE Max(here) - 1]
  BY DEF Cuckoo_Hash
<1> HIDE DEF n
<1> DEFINE here(b) == {k \in 1..n : p[orig_items[k]] = b}
<1>3. /\ p \in [ToSet(orig_items) -> Bins]
      /\ \A x \in ToSet(orig_items) : p[x] \in Locations[x]
      /\ \A x, y \in ToSet(orig_items) : p[x] = p[y] => x = y
  BY DEF Placements
<1>4. \A k \in 1..n : orig_items[k] \in ToSet(orig_items) BY <1>1 DEF ToSet
<1>5. index_cuckoo' = [b \in Bins |-> IF here(b) = {} THEN -1 ELSE Max(here(b)) - 1] BY <1>1, <1>2
<1>6. ASSUME NEW b \in Bins, here(b) # {}
      PROVE  Max(here(b)) \in 1..n /\ p[orig_items[Max(here(b))]] = b
  <2>1. PICK s : s = here(b) OBVIOUS
  <2>2. s \in SUBSET (1..n) /\ s # {} /\ s \in SUBSET Nat BY <2>1, <1>6
  <2>3. IsFiniteSet(1..n) BY <1>1, FS_Interval
  <2>4. IsFiniteSet(s) BY <2>2, <2>3, FS_Subset
  <2>5. Max(s) \in s BY ONLY <2>2, <2>4, MaxIs
  <2> QED BY <2>1, <2>5
<1> HIDE DEF here
<1>7. index_cuckoo' \in [Bins -> Int] BY <1>1, <1>5, <1>6
<1>8. ASSUME NEW b \in Bins
      PROVE  /\ here(b) = {} => index_cuckoo'[b] = -1
             /\ here(b) # {} => /\ index_cuckoo'[b] + 1 \in 1..n
                                /\ p[orig_items[index_cuckoo'[b] + 1]] = b
                                /\ index_cuckoo'[b] # -1
  <2>1. CASE here(b) = {} BY <1>5, <2>1
  <2>2. CASE here(b) # {}
    <3>1. index_cuckoo'[b] = Max(here(b)) - 1 BY <1>5, <2>2
    <3>2. Max(here(b)) \in 1..n /\ p[orig_items[Max(here(b))]] = b BY <1>6, <2>2
    <3>3. index_cuckoo'[b] + 1 = Max(here(b)) /\ index_cuckoo'[b] # -1 BY <1>1, <3>1, <3>2
    <3> QED BY <2>2, <3>2, <3>3
  <2> QED BY <2>1, <2>2
<1>9. ASSUME NEW b \in Bins, index_cuckoo'[b] # -1
      PROVE  LET y == orig_items[index_cuckoo'[b] + 1]
             IN  /\ index_cuckoo'[b] + 1 \in DOMAIN orig_items
                 /\ y \in ToSet(orig_items) /\ p[y] = b /\ b \in Locations[y]
  <2>1. here(b) # {} BY <1>8, <1>9
  <2>2. index_cuckoo'[b] + 1 \in 1..n /\ p[orig_items[index_cuckoo'[b] + 1]] = b BY <1>8, <2>1
  <2> QED BY <1>1, <1>3, <1>4, <2>2
<1>10. ASSUME NEW x \in ToSet(orig_items)
       PROVE  \E b \in Bins : index_cuckoo'[b] # -1 /\ orig_items[index_cuckoo'[b] + 1] = x
  <2>1. p[x] \in Bins BY <1>3
  <2>2. PICK k \in 1..n : x = orig_items[k] BY <1>1 DEF ToSet
  <2>3. k \in here(p[x]) BY <2>2 DEF here
  <2>4. index_cuckoo'[p[x]] # -1 BY <1>8, <2>1, <2>3
  <2>5. orig_items[index_cuckoo'[p[x]] + 1] = x BY <1>3, <1>9, <2>1, <2>4
  <2> QED BY <2>1, <2>4, <2>5
<1>11. Table'
  <2>1. \A b \in Bins : Occupied(b)' => /\ (index_cuckoo[b] + 1 \in DOMAIN orig_items)'
                                        /\ (b \in Locations[Occupant(b)])'
    BY <1>0, <1>9 DEF Occupied, Occupant
  <2>2. \A x \in ToSet(orig_items)' : \E b \in Bins : Occupied(b)' /\ Occupant(b)' = x
    BY <1>0, <1>10 DEF Occupied, Occupant
  <2>3. \A a, b \in Bins : Occupied(a)' /\ Occupied(b)' /\ Occupant(a)' = Occupant(b)' => a = b
    BY <1>0, <1>9 DEF Occupied, Occupant
  <2> QED BY <2>1, <2>2, <2>3 DEF Table
<1> QED BY <1>7, <1>11

\* The threads' iterations are blocks of bins, one after another.
LEMMA Blocks ==
  /\ \A t \in Threads : /\ FirstBin(t) \in Int /\ EndBin(t) \in Int
                        /\ 0 <= FirstBin(t) /\ FirstBin(t) <= EndBin(t) /\ EndBin(t) <= numBins
  /\ \A t, u \in Threads : t < u => EndBin(t) <= FirstBin(u)
<1> DEFINE q == numBins \div numThreads
<1>1. q \in Int /\ numBins = numThreads * q + (numBins % numThreads)
  BY Numbers, Remainder
<1>2. numBins = numThreads * q BY <1>1, Numbers
<1>3. q >= 0
  <2>1. q < 0 => numThreads * q < 0 BY <1>1, Numbers, SMT
  <2> QED BY <1>1, <1>2, <2>1, Numbers
<1>4. \A t : FirstBin(t) = t * q /\ EndBin(t) = (t + 1) * q BY DEF FirstBin, EndBin
<1> HIDE DEF q
<1>5. ASSUME NEW a \in Nat, NEW b \in Nat, a <= b PROVE a * q <= b * q /\ 0 <= a * q /\ a * q \in Int
  <2>1. (b - a) * q >= 0 BY <1>1, <1>3, <1>5, SMT
  <2>2. b * q = a * q + (b - a) * q BY <1>1, <1>5, SMT
  <2>3. a * q >= 0 BY <1>1, <1>3, <1>5, SMT
  <2>4. a * q \in Int /\ b * q \in Int /\ (b - a) * q \in Int BY <1>1, <1>5, SMT
  <2> QED BY <2>1, <2>2, <2>3, <2>4
<1>6. ASSUME NEW t \in Threads
      PROVE  /\ FirstBin(t) \in Int /\ EndBin(t) \in Int
             /\ 0 <= FirstBin(t) /\ FirstBin(t) <= EndBin(t) /\ EndBin(t) <= numBins
  <2>1. t \in Nat /\ t + 1 \in Nat /\ t <= t + 1 /\ t + 1 <= numThreads BY Numbers DEF Threads
  <2>2. t * q <= (t + 1) * q /\ 0 <= t * q /\ t * q \in Int BY <2>1, <1>5
  <2>3. (t + 1) * q <= numThreads * q /\ (t + 1) * q \in Int BY <2>1, <1>5, Numbers
  <2> QED BY <1>2, <1>4, <2>2, <2>3
<1>7. ASSUME NEW t \in Threads, NEW u \in Threads, t < u PROVE EndBin(t) <= FirstBin(u)
  <2>1. t + 1 \in Nat /\ u \in Nat /\ t + 1 <= u BY <1>7, Numbers DEF Threads
  <2>2. (t + 1) * q <= u * q BY <2>1, <1>5
  <2> QED BY <1>4, <2>2
<1> QED BY <1>6, <1>7

\* A thread that is inside emplace_back is at one of its iterations.
LEMMA AtBin ==
  ASSUME TypeInv, LoopInv, NEW t \in Threads, stage = "collect", next[t] < EndBin(t)
  PROVE  next[t] \in Bins /\ next[t] + 1 \in FirstBin(t)..EndBin(t)
<1>1. next[t] \in FirstBin(t)..EndBin(t) BY DEF LoopInv
<1> QED BY <1>1, Blocks, Numbers DEF Bins

LEMMA TypeInit == Init => TypeInv
<1> SUFFICES ASSUME Init PROVE TypeInv OBVIOUS
<1> USE Numbers
<1>1. /\ stage \in Stages /\ hashed \in 0..tn /\ csv \in [Parties -> Seq(Line)]
      /\ serving \in Indices
  BY IntersectionAssumption DEF Init, MCRGInit, Stages, Indices
<1>2. at \in [Parties -> Places] BY DEF Init, MCRGInit, Places
<1>3. /\ hash_result = [p \in Receivers |-> hash_result[p]]
      /\ wire = [p \in Receivers |-> wire[p]]
      /\ sender_result = [p \in Receivers |-> sender_result[p]]
      /\ receiver_result = [p \in Receivers |-> receiver_result[p]]
  BY DEF Init, MCRGInit
<1>4. orig_items \in Seq(Items) /\ index_cuckoo \in [Bins -> Int] BY DEF Init
<1>5. \A t \in Threads : FirstBin(t) \in Int BY DEF Threads, FirstBin
<1>6. next \in [Threads -> Int] BY <1>5 DEF Init
<1>7. reg \in [Threads -> Vectors] /\ m_idx \in Vectors BY DEF Init, NoVector, Vector, Vectors
<1> QED BY <1>1, <1>2, <1>3, <1>4, <1>6, <1>7 DEF TypeInv

LEMMA TypeStep == ASSUME TypeInv, LoopInv, [Next]_vars PROVE TypeInv'
<1> USE Numbers
<1>m. ASSUME UNCHANGED mcrgVars
      PROVE  /\ at' \in [Parties -> Places] /\ serving' \in Indices
             /\ wire' = [p \in Receivers |-> wire'[p]]
             /\ sender_result' = [p \in Receivers |-> sender_result'[p]]
             /\ receiver_result' = [p \in Receivers |-> receiver_result'[p]]
  BY <1>m DEF mcrgVars, TypeInv
<1>h. UNCHANGED hash_result => hash_result' = [p \in Receivers |-> hash_result'[p]] BY DEF TypeInv
<1>s. UNCHANGED sender => orig_items' \in Seq(Items) /\ index_cuckoo' \in [Bins -> Int]
  BY DEF TypeInv, sender
<1>l. UNCHANGED loop => next' \in [Threads -> Int] /\ reg' \in [Threads -> Vectors] /\ m_idx' \in Vectors
  BY DEF TypeInv, loop
<1>1. CASE Prepare
  <2>1. hash_result' = [p \in Receivers |-> hash_result'[p]]
    <3>1. \/ hash_result' = hash_result
          \/ \E q, x : hash_result' = [hash_result EXCEPT ![q] = x]
      BY <1>1 DEF Prepare, SimpleHash
    <3> QED BY <3>1 DEF TypeInv
  <2>2. stage' = stage /\ hashed' \in 0..tn /\ csv' = csv BY <1>1 DEF Prepare, SimpleHash, files, TypeInv
  <2>3. UNCHANGED mcrgVars /\ UNCHANGED sender /\ UNCHANGED loop BY <1>1 DEF Prepare, SimpleHash
  <2> QED BY <1>m, <1>s, <1>l, <2>1, <2>2, <2>3 DEF TypeInv
<1>2. CASE NoQuery \/ InsertFails \/ Collect
  <2>1. UNCHANGED mcrgVars /\ UNCHANGED sender /\ UNCHANGED loop /\ UNCHANGED prepared /\ UNCHANGED files
    BY <1>2 DEF NoQuery, InsertFails, Collect
  <2>2. stage' \in Stages BY <1>2 DEF NoQuery, InsertFails, Collect, Stages
  <2> QED BY <1>m, <1>h, <1>s, <1>l, <2>1, <2>2 DEF TypeInv, prepared, files
<1>3. CASE LoadQuery
  <2>1. UNCHANGED mcrgVars /\ UNCHANGED loop /\ UNCHANGED prepared /\ UNCHANGED files /\ UNCHANGED index_cuckoo
    BY <1>3 DEF LoadQuery
  <2>2. stage' \in Stages BY <1>3 DEF LoadQuery, Stages
  <2>3. csv[Sender] \in Seq(Line) BY DEF TypeInv
  <2>4. orig_items' \in Seq(Items) BY <1>3, <2>3, ReadFacts DEF LoadQuery
  <2> QED BY <1>m, <1>h, <1>l, <2>1, <2>2, <2>4 DEF TypeInv, prepared, files
<1>4. CASE Cuckoo_Hash
  <2>1. UNCHANGED mcrgVars /\ UNCHANGED loop /\ UNCHANGED prepared /\ UNCHANGED files /\ UNCHANGED orig_items
    BY <1>4 DEF Cuckoo_Hash
  <2>2. stage' \in Stages BY <1>4 DEF Cuckoo_Hash, Stages
  <2>3. index_cuckoo' \in [Bins -> Int] BY <1>4, CuckooFacts
  <2> QED BY <1>m, <1>h, <1>l, <2>1, <2>2, <2>3 DEF TypeInv, prepared, files
<1>5. CASE MCRG
  <2>1. Balanced_MCRG /\ UNCHANGED sender /\ UNCHANGED loop BY <1>5 DEF MCRG
  <2> QED BY <1>h, <1>s, <1>l, <2>1, MCRGFrame, MCRGTypes DEF TypeInv
<1>6. ASSUME NEW t \in Threads, Skip(t) \/ EmplaceRead(t) \/ EmplaceWrite(t) PROVE TypeInv'
  <2>1. UNCHANGED mcrgVars /\ UNCHANGED sender /\ UNCHANGED prepared /\ UNCHANGED files
    BY <1>6 DEF Skip, EmplaceRead, EmplaceWrite
  <2>2. stage' \in Stages BY <1>6 DEF Skip, EmplaceRead, EmplaceWrite, Stages, TypeInv
  <2>3. next' \in [Threads -> Int] BY <1>6 DEF Skip, EmplaceRead, EmplaceWrite, TypeInv
  <2>4. NoVector \in Vectors BY DEF NoVector, Vector, Vectors
  <2>5. reg' \in [Threads -> Vectors] BY <1>6, <2>4 DEF Skip, EmplaceRead, EmplaceWrite, TypeInv
  <2>6. m_idx' \in Vectors
    <3>1. CASE m_idx' = m_idx BY <3>1 DEF TypeInv
    <3>2. CASE EmplaceWrite(t) /\ m_idx' # m_idx
      <4>1. reg[t] # NoVector /\ stage = "collect" BY <3>2 DEF EmplaceWrite
      <4>2. next[t] < EndBin(t) BY <4>1 DEF LoopInv, Begun
      <4>3. next[t] \in Bins BY <4>1, <4>2, AtBin
      <4>4. reg[t] \in Vectors /\ m_idx \in Vectors BY DEF TypeInv
      <4>5. Append(reg[t].buf, next[t]) \in Seq(Bins) BY <4>3, <4>4 DEF Vectors
      <4>6. [m_idx EXCEPT !.buf = Append(reg[t].buf, next[t])] \in Vectors BY <4>4, <4>5 DEF Vectors
      <4>7. Grow(reg[t], next[t]) \in Vectors BY <4>4, <4>5 DEF Vectors, Grow, Vector
      <4> QED BY <3>2, <4>6, <4>7 DEF EmplaceWrite
    <3> QED BY <1>6, <3>1, <3>2 DEF Skip, EmplaceRead
  <2> QED BY <1>m, <1>h, <1>s, <2>1, <2>2, <2>3, <2>5, <2>6 DEF TypeInv, prepared, files
<1>7. CASE write_intersection
  <2>1. UNCHANGED mcrgVars /\ UNCHANGED sender /\ UNCHANGED prepared /\ UNCHANGED files
        /\ UNCHANGED <<next, reg, m_idx>>
    BY <1>7 DEF write_intersection
  <2>2. stage' \in Stages BY <1>7 DEF write_intersection, Stages
  <2> QED BY <1>m, <1>h, <1>s, <2>1, <2>2 DEF TypeInv, prepared, files
<1>8. CASE UNCHANGED vars
  <2>1. UNCHANGED mcrgVars /\ UNCHANGED sender /\ UNCHANGED prepared /\ UNCHANGED files /\ UNCHANGED loop
        /\ UNCHANGED stage
    BY <1>8 DEF vars
  <2> QED BY <1>m, <1>h, <1>s, <1>l, <2>1 DEF TypeInv, prepared, files
<1> QED BY <1>1, <1>2, <1>3, <1>4, <1>5, <1>6, <1>7, <1>8 DEF Next, Terminated

-----------------------------------------------------------------------------
(* The exchange. *)

\* What a receiver answers is fixed once the two files are.
LEMMA ReplyFixed ==
  ASSUME UNCHANGED <<sender_item, hash_result>>, NEW p
  PROVE  /\ Diff' = Diff /\ Reply(p)' = Reply(p)
         /\ S_lable(Reply(p))' = S_lable(Reply(p))
BY DEF Diff, Reply, Entries, S_lable, ItemAt

\* A step that leaves a receiver alone.
LEMMA ExchangeKept ==
  ASSUME NEW p \in Receivers, Exchange(p), UNCHANGED <<sender_item, hash_result, unwritable, serving>>,
         at'[Sender] = at[Sender], at'[p] = at[p], wire'[p] = wire[p],
         sender_result'[p] = sender_result[p], receiver_result'[p] = receiver_result[p]
  PROVE  Exchange(p)'
<1>1. /\ Diff' = Diff /\ Reply(p)' = Reply(p) /\ S_lable(Reply(p))' = S_lable(Reply(p))
  BY ReplyFixed
<1>2. /\ Got(p)' = Got(p) /\ Served' = Served /\ Answered(p)' = Answered(p) /\ Untouched(p)' = Untouched(p)
  BY DEF Got, Served, Answered, Untouched
<1>3. Waiting(p)' = Waiting(p) /\ Unwritten(p)' = Unwritten(p)
  BY <1>1, <1>2 DEF Waiting, Unwritten
<1> QED BY <1>1, <1>2, <1>3 DEF Exchange

\* Before the sender has served anybody.
LEMMA Early ==
  ASSUME TypeInv, Exchanges, NEW p \in Receivers, at[Sender] \in {"dial", "listen", "read"}
  PROVE  Untouched(p)
<1>1. Exchange(p) BY DEF Exchanges
<1>2. ~Got(p) BY Numbers DEF Got, Exchanges, Receivers
<1> QED BY <1>1, <1>2 DEF Exchange

\* A step of the two connection loops, or of those who have not met yet.
LEMMA StillUntouched ==
  ASSUME NEW p \in Receivers, Untouched(p),
         at'[p] \in {"listen", "dial", "read", "vole", "returned", "thrown"},
         UNCHANGED <<wire, sender_result, receiver_result>>
  PROVE  Untouched(p)'
BY DEF Untouched

LEMMA ConnectStep ==
  ASSUME TypeInv, Exchanges, ConnectReceive \/ ConnectSend
  PROVE  /\ at'[Sender] # "write" /\ (at'[Sender] = "read" => serving' = 0)
         /\ \A p \in Receivers : Exchange(p)'
<1> USE Numbers, ServedType
<1>0. at \in [Parties -> Places] BY DEF TypeInv
<1>1. /\ at[Sender] \in {"dial", "listen"} /\ UNCHANGED <<wire, sender_result, receiver_result>>
      /\ serving' = Served % tn
  BY DEF ConnectReceive, ConnectSend, Meet, Running
<1>2. /\ at'[Served] \in {"dial", "read"} /\ \A p \in Receivers \ {Served} : at'[p] = at[p]
  BY <1>0 DEF ConnectReceive, ConnectSend
<1>3. \A p \in Receivers : Untouched(p)' BY <1>1, <1>2, Early, StillUntouched DEF Untouched
<1>4. at'[Sender] \in {"dial", "listen", "read"} /\ (at'[Sender] = "read" => serving' = 0)
  BY <1>0, <1>1 DEF ConnectReceive, ConnectSend, Meet, Running
<1>5. \A p \in Receivers : ~Got(p)' BY <1>4 DEF Got, Receivers
<1> QED BY <1>3, <1>4, <1>5 DEF Exchange

LEMMA ReadThrowStep ==
  ASSUME TypeInv, Exchanges, NEW q \in Parties, Read(q) \/ Throw(q)
  PROVE  /\ at'[Sender] # "write" /\ (at'[Sender] = "read" => serving' = 0)
         /\ \A p \in Receivers : Exchange(p)'
<1> USE Numbers, ServedType
<1>0. at \in [Parties -> Places] BY DEF TypeInv
<1>1. /\ UNCHANGED <<sender_item, hash_result, unwritable, serving, wire, sender_result, receiver_result>>
      /\ at[q] \in {"read", "vole"} /\ at'[q] \in {"vole", "returned", "thrown"}
      /\ \A p \in Parties \ {q} : at'[p] = at[p]
  BY <1>0 DEF Read, Throw, Running, files, prepared
<1>2. at'[Sender] # "write" /\ (at'[Sender] = "read" => serving' = 0)
  BY <1>1 DEF Exchanges
<1>3. ASSUME NEW p \in Receivers PROVE Exchange(p)'
  <2>1. Exchange(p) BY DEF Exchanges
  <2>2. CASE q = p
    <3>1. ~Answered(p) /\ at[p] # "receive" BY <1>1, <2>2 DEF Answered
    <3>2. ~Got(p) /\ Untouched(p) /\ (p = Served => at[Sender] \notin {"send", "receive"})
      BY <2>1, <3>1 DEF Exchange, Waiting, Unwritten
    <3>3. Untouched(p)' BY <1>1, <2>2, <3>2, StillUntouched
    <3>4. at'[Sender] = at[Sender] /\ serving' = serving BY <1>1, <2>2
    <3>5. ~Got(p)' /\ Served' = Served BY <3>2, <3>4 DEF Got, Served
    <3> QED BY <3>2, <3>3, <3>4, <3>5 DEF Exchange
  <2>3. CASE q = Sender
    <3>1. at'[p] = at[p] BY <1>1, <2>3
    <3>2. at[Sender] \in {"read", "vole"} /\ at'[Sender] \in {"vole", "returned", "thrown"} BY <1>1, <2>3
    <3>3. Got(p)' = Got(p) /\ Served' = Served BY <1>1, <3>2 DEF Got, Served
    <3>4. CASE Got(p)
      <4>1. Answered(p) /\ wire[p] = <<>> /\ sender_result[p] = S_lable(Reply(p)) BY <2>1, <3>4 DEF Exchange
      <4>2. Answered(p)' BY <1>1, <3>1, <4>1 DEF Answered
      <4>3. S_lable(Reply(p))' = S_lable(Reply(p)) BY <1>1, ReplyFixed
      <4> QED BY <1>1, <3>3, <3>4, <4>1, <4>2, <4>3 DEF Exchange
    <3>5. CASE ~Got(p)
      <4>1. Untouched(p) BY <2>1, <3>2, <3>5 DEF Exchange
      <4>2. Untouched(p)' BY <1>1, <3>1, <4>1 DEF Untouched
      <4> QED BY <3>2, <3>3, <3>5, <4>2 DEF Exchange
    <3> QED BY <3>4, <3>5
  <2>4. CASE q # p /\ q # Sender
    <3>1. at'[p] = at[p] /\ at'[Sender] = at[Sender] BY <1>1, <2>4
    <3> QED BY <1>1, <2>1, <3>1, ExchangeKept
  <2> QED BY <2>2, <2>3, <2>4
<1> QED BY <1>2, <1>3

LEMMA VoleStep ==
  ASSUME TypeInv, Exchanges, Vole
  PROVE  /\ at'[Sender] # "write" /\ (at'[Sender] = "read" => serving' = 0)
         /\ \A p \in Receivers : Exchange(p)'
<1> USE Numbers, ServedType
<1>0. at \in [Parties -> Places] BY DEF TypeInv
<1>1. /\ UNCHANGED <<sender_item, hash_result, unwritable, serving, wire, sender_result, receiver_result>>
      /\ at[Sender] = "vole" /\ at[Served] = "vole" /\ at'[Sender] = "send" /\ at'[Served] = "receive"
      /\ \A p \in Receivers \ {Served} : at'[p] = at[p]
  BY <1>0 DEF Vole, Meet, Running, files, prepared
<1>3. ASSUME NEW p \in Receivers PROVE Exchange(p)'
  <2>1. Exchange(p) BY DEF Exchanges
  <2>2. Got(p)' = Got(p) /\ Served' = Served BY <1>1 DEF Got, Served
  <2>3. CASE Got(p)
    <3>1. Answered(p) /\ wire[p] = <<>> /\ sender_result[p] = S_lable(Reply(p)) BY <2>1, <2>3 DEF Exchange
    <3>2. p # Served BY <1>1, <3>1 DEF Answered
    <3>3. Answered(p)' BY <1>1, <3>1, <3>2 DEF Answered
    <3>4. S_lable(Reply(p))' = S_lable(Reply(p)) BY <1>1, ReplyFixed
    <3> QED BY <1>1, <2>2, <2>3, <3>1, <3>3, <3>4 DEF Exchange
  <2>4. CASE ~Got(p)
    <3>1. Untouched(p) BY <1>1, <2>1, <2>4 DEF Exchange
    <3>2. CASE p = Served BY <1>1, <2>2, <2>4, <3>1, <3>2 DEF Exchange, Untouched
    <3>3. CASE p # Served
      <4>1. Untouched(p)' BY <1>1, <3>1, <3>3 DEF Untouched
      <4> QED BY <2>2, <2>4, <3>3, <4>1 DEF Exchange
    <3> QED BY <3>2, <3>3
  <2> QED BY <2>3, <2>4
<1> QED BY <1>1, <1>3

\* Those the sender has not to do with while it writes to the one it serves.
LEMMA OthersKept ==
  ASSUME NEW p \in Receivers, p # Served, Exchange(p),
         UNCHANGED <<sender_item, hash_result, unwritable, serving>>,
         at[Sender] \notin {"dial", "listen", "done"}, at'[Sender] \notin {"dial", "listen", "done"},
         at'[p] = at[p], wire'[p] = wire[p],
         sender_result'[p] = sender_result[p], receiver_result'[p] = receiver_result[p]
  PROVE  Exchange(p)'
<1>1. S_lable(Reply(p))' = S_lable(Reply(p)) BY ReplyFixed
<1>2. Got(p)' = Got(p) /\ Served' = Served /\ Answered(p)' = Answered(p) /\ Untouched(p)' = Untouched(p)
  BY DEF Got, Served, Answered, Untouched
<1> QED BY <1>1, <1>2 DEF Exchange

LEMMA SendDiffCStep ==
  ASSUME TypeInv, Exchanges, SendDiffC
  PROVE  /\ at'[Sender] # "write" /\ (at'[Sender] = "read" => serving' = 0)
         /\ \A p \in Receivers : Exchange(p)'
<1> USE Numbers, ServedType
<1>0. at \in [Parties -> Places] /\ wire = [p \in Receivers |-> wire[p]] BY DEF TypeInv
<1>1. /\ UNCHANGED <<sender_item, hash_result, unwritable, serving, sender_result, receiver_result>>
      /\ at[Sender] = "send" /\ at'[Sender] = "receive" /\ \A p \in Receivers : at'[p] = at[p]
      /\ wire' = [wire EXCEPT ![Served] = <<"diffC", Diff>>]
  BY <1>0 DEF SendDiffC, Running, files, prepared, Diff
<1>2. wire'[Served] = <<"diffC", Diff>> /\ \A p \in Receivers \ {Served} : wire'[p] = wire[p]
  BY <1>0, <1>1
<1>3. ASSUME NEW p \in Receivers, p = Served PROVE Exchange(p)'
  <2>1. Exchange(p) BY DEF Exchanges
  <2>2. ~Got(p) BY <1>1, <1>3 DEF Got, Served, TypeInv, Indices
  <2>3. /\ at[p] = "receive" /\ sender_result[p] = Old /\ receiver_result[p] = Old
    BY <1>1, <1>3, <2>1, <2>2 DEF Exchange
  <2>4. ~Got(p)' /\ Served' = Served /\ Diff' = Diff
    BY <1>1, <2>2, ReplyFixed DEF Got, Served
  <2>5. Waiting(p)' BY <1>1, <1>2, <1>3, <2>3, <2>4 DEF Waiting
  <2> QED BY <1>1, <1>3, <2>4, <2>5 DEF Exchange
<1>4. ASSUME NEW p \in Receivers, p # Served PROVE Exchange(p)'
  <2>1. Exchange(p) /\ wire'[p] = wire[p] /\ at'[p] = at[p] BY <1>1, <1>2, <1>4 DEF Exchanges
  <2> QED BY <1>1, <1>4, <2>1, OthersKept
<1> QED BY <1>1, <1>3, <1>4

LEMMA AnswerStep ==
  ASSUME TypeInv, Exchanges, NEW q \in Receivers, Answer(q)
  PROVE  /\ at'[Sender] # "write" /\ (at'[Sender] = "read" => serving' = 0)
         /\ \A p \in Receivers : Exchange(p)'
<1> USE Numbers, ServedType
<1>0. at \in [Parties -> Places] /\ wire = [p \in Receivers |-> wire[p]] BY DEF TypeInv
<1>1. /\ UNCHANGED <<sender_item, hash_result, unwritable, serving, sender_result, receiver_result>>
      /\ at[q] = "receive" /\ wire[q] # <<>> /\ at'[q] = "write" /\ \A p \in Parties \ {q} : at'[p] = at[p]
      /\ wire'[q] = <<"P", Entries(hash_result[q], wire[q][2])>>
      /\ \A p \in Receivers \ {q} : wire'[p] = wire[p]
  BY <1>0 DEF Answer, Running, files, prepared
<1>2. at'[Sender] = at[Sender] BY <1>1
<1>3. Exchange(q)'
  <2>1. Exchange(q) BY DEF Exchanges
  <2>2. ~Got(q) /\ ~Untouched(q) /\ ~Answered(q) BY <1>1, <2>1 DEF Exchange, Untouched, Answered
  <2>3. q = Served /\ at[Sender] = "receive" /\ Waiting(q) BY <1>1, <2>1, <2>2 DEF Exchange, Unwritten
  <2>4. wire[q] = <<"diffC", Diff>> /\ receiver_result[q] = Old /\ sender_result[q] = Old
    BY <2>2, <2>3 DEF Waiting
  <2>5. wire'[q] = <<"P", Reply(q)>> BY <1>1, <2>4 DEF Reply
  <2>6. ~Got(q)' /\ Served' = Served /\ Reply(q)' = Reply(q) BY <1>1, <1>2, <2>2, ReplyFixed DEF Got, Served
  <2>7. Answered(q)' BY <1>1, <2>4 DEF Answered
  <2>8. Waiting(q)' BY <1>1, <2>4, <2>5, <2>6, <2>7 DEF Waiting
  <2> QED BY <1>2, <2>3, <2>6, <2>8 DEF Exchange
<1>4. ASSUME NEW p \in Receivers, p # q PROVE Exchange(p)'
  <2>1. Exchange(p) /\ at'[p] = at[p] /\ wire'[p] = wire[p] BY <1>1, <1>4 DEF Exchanges
  <2> QED BY <1>1, <1>2, <2>1, ExchangeKept
<1> QED BY <1>1, <1>2, <1>3, <1>4 DEF Exchanges

LEMMA WriteReceiverStep ==
  ASSUME TypeInv, Exchanges, NEW q \in Receivers, WriteReceiver(q)
  PROVE  /\ at'[Sender] # "write" /\ (at'[Sender] = "read" => serving' = 0)
         /\ \A p \in Receivers : Exchange(p)'
<1> USE Numbers, ServedType
<1>0. at \in [Parties -> Places] /\ receiver_result = [p \in Receivers |-> receiver_result[p]] BY DEF TypeInv
<1>1. /\ UNCHANGED <<sender_item, hash_result, unwritable, serving, sender_result, wire>>
      /\ at[q] = "write" /\ \A p \in Parties \ {q} : at'[p] = at[p]
      /\ \A p \in Receivers \ {q} : receiver_result'[p] = receiver_result[p]
      /\ \/ /\ <<"receiver_result", q>> \in unwritable /\ at'[q] = "returned"
            /\ receiver_result'[q] = receiver_result[q]
         \/ at'[q] = "done" /\ receiver_result'[q] = T_lable
  <2>1. CASE <<"receiver_result", q>> \in unwritable
    BY <1>0, <2>1 DEF WriteReceiver, Running, files, prepared
  <2>2. CASE <<"receiver_result", q>> \notin unwritable
    BY <1>0, <2>2 DEF WriteReceiver, Running, files, prepared
  <2> QED BY <2>1, <2>2
<1>2. at'[Sender] = at[Sender] BY <1>1
<1>3. Exchange(q)'
  <2>1. Exchange(q) BY DEF Exchanges
  <2>2. /\ ~Untouched(q) /\ at[q] # "receive" BY <1>1 DEF Untouched
  <2>3. Answered(q) => Answered(q)' BY <1>1 DEF Answered
  <2>4. /\ Got(q)' = Got(q) /\ Served' = Served /\ Reply(q)' = Reply(q)
        /\ S_lable(Reply(q))' = S_lable(Reply(q))
    BY <1>1, <1>2, ReplyFixed DEF Got, Served
  <2>5. Waiting(q) => Waiting(q)' BY <1>1, <2>2, <2>3, <2>4 DEF Waiting
  <2>6. Unwritten(q) => Unwritten(q)' BY <1>1, <2>3 DEF Unwritten
  <2> QED BY <1>1, <1>2, <2>1, <2>2, <2>3, <2>4, <2>5, <2>6 DEF Exchange
<1>4. ASSUME NEW p \in Receivers, p # q PROVE Exchange(p)'
  <2>1. Exchange(p) /\ at'[p] = at[p] /\ receiver_result'[p] = receiver_result[p]
    BY <1>1, <1>4 DEF Exchanges
  <2> QED BY <1>1, <1>2, <2>1, ExchangeKept
<1> QED BY <1>1, <1>2, <1>3, <1>4 DEF Exchanges

LEMMA WriteSenderStep ==
  ASSUME TypeInv, Exchanges, WriteSender
  PROVE  /\ at'[Sender] # "write" /\ (at'[Sender] = "read" => serving' = 0)
         /\ \A p \in Receivers : Exchange(p)'
<1> USE Numbers, ServedType
<1>0. /\ at \in [Parties -> Places] /\ sender_result = [p \in Receivers |-> sender_result[p]]
      /\ wire = [p \in Receivers |-> wire[p]] /\ serving \in Nat /\ serving < tn
  BY DEF TypeInv, Indices
<1>1. /\ UNCHANGED <<sender_item, hash_result, unwritable, receiver_result>>
      /\ at[Sender] = "receive" /\ wire[Served] # <<>> /\ wire[Served][1] = "P"
      /\ wire'[Served] = <<>> /\ \A p \in Receivers \ {Served} : wire'[p] = wire[p]
  BY <1>0 DEF WriteSender, Running, files, prepared
<1>2. \A p \in Receivers : at'[p] = at[p]
  <2>1. \E x : at' = [at EXCEPT ![Sender] = x] BY DEF WriteSender
  <2> QED BY <1>0, <2>1
<1>3. Exchange(Served) /\ ~Got(Served) BY <1>0, <1>1 DEF Exchanges, Got, Served
<1>4. Waiting(Served) BY <1>1, <1>3 DEF Exchange
<1>5. /\ Answered(Served) /\ wire[Served] = <<"P", Reply(Served)>> /\ sender_result[Served] = Old
  BY <1>1, <1>4 DEF Waiting
<1>6. \A p \in Receivers : Answered(p)' = Answered(p) BY <1>1, <1>2 DEF Answered
<1>7. \A p \in Receivers : S_lable(Reply(p))' = S_lable(Reply(p)) BY <1>1, ReplyFixed
<1>8. \A p \in Receivers : Exchange(p) BY DEF Exchanges
<1>9. CASE <<"sender_result", Served>> \in unwritable
  <2>1. at'[Sender] = "returned" /\ serving' = serving /\ sender_result' = sender_result
    BY <1>0, <1>9 DEF WriteSender
  <2>2. ASSUME NEW p \in Receivers, p = Served PROVE Exchange(p)'
    <3>1. ~Got(p)' /\ Served' = Served BY <1>3, <1>1, <2>1, <2>2 DEF Got, Served
    <3>2. Unwritten(p)' BY <1>1, <1>5, <1>6, <1>9, <2>1, <2>2 DEF Unwritten
    <3> QED BY <2>1, <2>2, <3>1, <3>2 DEF Exchange
  <2>3. ASSUME NEW p \in Receivers, p # Served PROVE Exchange(p)'
    <3>1. at'[p] = at[p] /\ wire'[p] = wire[p] /\ Exchange(p) BY <1>1, <1>2, <1>8, <2>3
    <3> QED BY <1>1, <2>1, <2>3, <3>1, OthersKept
  <2> QED BY <2>1, <2>2, <2>3
<1>10. CASE <<"sender_result", Served>> \notin unwritable
  <2>1. /\ sender_result'[Served] = S_lable(Reply(Served))
        /\ \A p \in Receivers \ {Served} : sender_result'[p] = sender_result[p]
    BY <1>0, <1>5, <1>10 DEF WriteSender
  <2>2. \/ Served < tn /\ serving' = Served /\ at'[Sender] = "vole"
        \/ Served = tn /\ serving' = serving /\ at'[Sender] = "done"
    <3>1. CASE Served < tn BY <1>0, <1>10, <3>1 DEF WriteSender
    <3>2. CASE ~(Served < tn) BY <1>0, <1>10, <3>2 DEF WriteSender
    <3> QED BY <3>1, <3>2
  <2>3. \A p \in Receivers : Got(p)' <=> Got(p) \/ p = Served
    <3>1. \A p \in Receivers : p \in Nat /\ p <= tn BY DEF Receivers
    <3>2. Served = serving + 1 BY DEF Served
    <3> QED BY <1>0, <1>1, <2>2, <3>1, <3>2 DEF Got
  <2>4. ASSUME NEW p \in Receivers, p = Served PROVE Exchange(p)'
    <3>1. /\ sender_result'[p] = S_lable(Reply(p)) /\ wire'[p] = <<>>
          /\ Answered(p)
      BY <1>1, <1>5, <2>1, <2>4
    <3>2. Got(p)' /\ Answered(p)' /\ S_lable(Reply(p))' = S_lable(Reply(p))
      BY <1>6, <1>7, <2>3, <2>4, <3>1
    <3> QED BY <3>1, <3>2 DEF Exchange
  <2>5. ASSUME NEW p \in Receivers, p # Served PROVE Exchange(p)'
    <3>1. /\ at'[p] = at[p] /\ wire'[p] = wire[p] /\ Exchange(p) /\ sender_result'[p] = sender_result[p]
          /\ receiver_result'[p] = receiver_result[p]
      BY <1>1, <1>2, <1>8, <2>1, <2>5
    <3>2. (Got(p)' <=> Got(p)) /\ Answered(p)' = Answered(p) /\ S_lable(Reply(p))' = S_lable(Reply(p))
      BY <1>6, <1>7, <2>3, <2>5
    <3>3. CASE Got(p) BY <3>1, <3>2, <3>3 DEF Exchange
    <3>4. CASE ~Got(p)
      <4>1. Untouched(p) BY <2>5, <3>1, <3>4 DEF Exchange
      <4>2. Untouched(p)' BY <3>1, <4>1 DEF Untouched
      <4>3. at'[Sender] \notin {"send", "receive"} BY <2>2
      <4> QED BY <3>2, <3>4, <4>2, <4>3 DEF Exchange
    <3> QED BY <3>3, <3>4
  <2>6. at'[Sender] \in {"vole", "done"} BY <2>2
  <2> QED BY <2>4, <2>5, <2>6
<1> QED BY <1>9, <1>10

LEMMA ExchangesInit == Init => Exchanges
<1> SUFFICES ASSUME Init PROVE Exchanges OBVIOUS
<1> USE Numbers
<1>1. stage = "simple_hash" /\ at[Sender] = "dial" BY DEF Init, MCRGInit
<1>2. ASSUME NEW p \in Receivers PROVE Exchange(p)
  <2>1. Untouched(p) BY DEF Init, MCRGInit, Untouched
  <2>2. ~Got(p) BY <1>1 DEF Got
  <2> QED BY <1>1, <2>1, <2>2 DEF Exchange
<1> QED BY <1>1, <1>2 DEF Exchanges, Begun

\* What the steps of the other programs leave alone.
LEMMA OtherSteps ==
  ASSUME TypeInv, [Next]_vars
  PROVE  \/ MCRG
         \/ /\ UNCHANGED <<mcrgVars, csv, unreadable, unwritable, bigSets>>
            /\ stage \notin Begun => stage' \notin Begun \ {"mcrg"}
            /\ stage \in Begun => /\ stage' \in Begun
                                  /\ UNCHANGED <<hashed, hash_result, sender_item, sender>>
                                  /\ \/ stage' = stage \/ stage \in Begun \ {"mcrg"} \/ AllStopped
<1>1. CASE Prepare BY <1>1 DEF Prepare, SimpleHash, files, Begun
<1>2. CASE NoQuery \/ LoadQuery \/ Cuckoo_Hash \/ InsertFails
  BY <1>2 DEF NoQuery, LoadQuery, Cuckoo_Hash, InsertFails, files, prepared, Begun
<1>3. CASE Collect BY <1>3 DEF Collect, files, prepared, Begun
<1>4. ASSUME NEW t \in Threads, Skip(t) \/ EmplaceRead(t) \/ EmplaceWrite(t)
      PROVE  /\ UNCHANGED <<mcrgVars, files, prepared, bigSets, sender_item, sender>>
             /\ stage = "collect" /\ stage' \in {"collect", "crashed"}
  BY <1>4 DEF Skip, EmplaceRead, EmplaceWrite, InLoop
<1>5. CASE write_intersection BY <1>5 DEF write_intersection, files, prepared, Begun
<1>6. CASE UNCHANGED vars BY <1>6 DEF vars, files, prepared
<1>7. CASE MCRG BY <1>7
<1>8. CASE \E t \in Threads : Skip(t) \/ EmplaceRead(t) \/ EmplaceWrite(t)
  BY <1>4, <1>8 DEF files, prepared, Begun
<1> QED BY <1>1, <1>2, <1>3, <1>5, <1>6, <1>7, <1>8 DEF Next, Terminated

LEMMA ExchangesStep == ASSUME TypeInv, Exchanges, [Next]_vars PROVE Exchanges'
<1> USE Numbers
<1>1. CASE MCRG
  <2>1. Balanced_MCRG BY <1>1 DEF MCRG
  <2>2. stage = "mcrg" /\ stage' = "mcrg" BY <2>1, MCRGFrame
  <2>3. /\ at'[Sender] # "write" /\ (at'[Sender] = "read" => serving' = 0)
        /\ \A p \in Receivers : Exchange(p)'
    BY <2>1, ConnectStep, ReadThrowStep, VoleStep, SendDiffCStep, WriteSenderStep, AnswerStep,
       WriteReceiverStep DEF Balanced_MCRG
  <2> QED BY <2>2, <2>3 DEF Exchanges, Begun
<1>2. CASE ~MCRG
  <2>1. UNCHANGED <<at, serving, wire, sender_result, receiver_result, unwritable>>
    BY <1>2, OtherSteps DEF mcrgVars
  <2>2. CASE stage \notin Begun
    <3>1. stage' \notin Begun \ {"mcrg"} /\ at[Sender] = "dial" BY <1>2, <2>2, OtherSteps DEF Exchanges
    <3>2. ASSUME NEW p \in Receivers PROVE Exchange(p)'
      <4>1. Untouched(p) BY <3>1, Early
      <4>2. Untouched(p)' BY <2>1, <4>1 DEF Untouched
      <4>3. ~Got(p)' BY <2>1, <3>1 DEF Got
      <4> QED BY <2>1, <3>1, <4>2, <4>3 DEF Exchange
    <3> QED BY <2>1, <3>1, <3>2 DEF Exchanges
  <2>3. CASE stage \in Begun
    <3>1. stage' \in Begun /\ UNCHANGED <<hash_result, sender_item>>
          /\ (stage' = stage \/ stage \in Begun \ {"mcrg"} \/ AllStopped)
      BY <1>2, <2>3, OtherSteps
    <3>2. ASSUME NEW p \in Receivers PROVE Exchange(p)'
      <4>1. Exchange(p) BY DEF Exchanges
      <4> QED BY <2>1, <3>1, <4>1, ExchangeKept
    <3>3. AllStopped => AllStopped' BY <2>1 DEF AllStopped, Stopped
    <3>4. stage \in Begun \ {"mcrg"} => AllStopped BY DEF Exchanges
    <3> QED BY <2>1, <3>1, <3>2, <3>3, <3>4 DEF Exchanges
  <2> QED BY <2>2, <2>3
<1> QED BY <1>1, <1>2

-----------------------------------------------------------------------------
(* The preparation. *)

LEMMA PreparationInit == Init => Preparation
<1> SUFFICES ASSUME Init PROVE Preparation OBVIOUS
<1>1. stage = "simple_hash" /\ hashed = 0 BY DEF Init, MCRGInit
<1>2. \A p \in Receivers : ~(p <= hashed) BY <1>1, Numbers DEF Receivers
<1> QED BY <1>1, <1>2 DEF Preparation, Begun

LEMMA PreparationStep == ASSUME TypeInv, Preparation, [Next]_vars PROVE Preparation'
<1> USE Numbers
<1> DEFINE Ready(p) == p <= hashed /\ Hashes(p) => hash_result[p] = HashFile(NewItems(ReadCsv(csv[p]).items))
<1>0. \A p \in Receivers : Ready(p) BY DEF Preparation
<1>k. ASSUME UNCHANGED <<prepared, files>> PROVE \A p \in Receivers : Ready(p)'
  BY <1>0, <1>k DEF prepared, files, Hashes
<1>1. CASE Prepare
  <2>1. SimpleHash BY <1>1 DEF Prepare
  <2>2. /\ stage = "simple_hash" /\ stage' = stage /\ hashed' = hashed + 1 /\ hashed \in 0..tn
        /\ hashed < tn /\ UNCHANGED <<csv, unreadable, unwritable>>
    BY <2>1 DEF SimpleHash, files, TypeInv
  <2>3. ASSUME NEW p \in Receivers PROVE Ready(p)'
    <3>1. Hashes(p)' = Hashes(p) BY <2>2 DEF Hashes
    <3>2. CASE p = hashed + 1
      <4>1. Hashes(p) => hash_result' = [hash_result EXCEPT ![p] = HashFile(NewItems(ReadCsv(csv[p]).items))]
        BY <2>1, <3>2 DEF SimpleHash, Hashes
      <4>2. hash_result = [q \in Receivers |-> hash_result[q]] BY DEF TypeInv
      <4>3. Hashes(p) => hash_result'[p] = HashFile(NewItems(ReadCsv(csv[p]).items))
        BY <4>1, <4>2
      <4> QED BY <2>2, <3>1, <4>3
    <3>3. CASE p # hashed + 1
      <4>1. hash_result'[p] = hash_result[p]
        <5>1. \/ hash_result' = hash_result
              \/ \E x : hash_result' = [hash_result EXCEPT ![hashed + 1] = x]
          BY <2>1 DEF SimpleHash
        <5>2. hash_result = [q \in Receivers |-> hash_result[q]] BY DEF TypeInv
        <5> QED BY <3>3, <5>1, <5>2
      <4>2. p <= hashed' => p <= hashed BY <2>2, <3>3 DEF Receivers
      <4> QED BY <1>0, <2>2, <3>1, <4>1, <4>2
    <3> QED BY <3>2, <3>3
  <2> QED BY <2>2, <2>3 DEF Preparation, Begun
<1>2. CASE NoQuery \/ InsertFails
  <2>1. stage' = "stopped" /\ hashed' = tn /\ UNCHANGED <<prepared, files>>
    BY <1>2 DEF NoQuery, InsertFails, prepared, Preparation
  <2> QED BY <1>k, <2>1 DEF Preparation, Begun
<1>3. CASE LoadQuery
  <2>1. /\ stage' = "hash" /\ hashed' = tn /\ UNCHANGED <<prepared, files>>
        /\ orig_items' = ReadCsv(csv[Sender]).items /\ orig_item' = Write_sender_item(orig_items')
    BY <1>3 DEF LoadQuery, prepared
  <2>2. csv' = csv BY <2>1 DEF files
  <2>3. (orig_item = Write_sender_item(orig_items))' BY <2>1 DEF Write_sender_item
  <2> QED BY <1>k, <2>1, <2>2, <2>3 DEF Preparation, Begun
<1>4. CASE Cuckoo_Hash
  <2>1. /\ stage = "hash" /\ stage' = "mcrg" /\ UNCHANGED <<prepared, files, orig_items, orig_item>>
        /\ sender_item' = [originitem |-> orig_items, index_co |-> index_cuckoo']
    BY <1>4 DEF Cuckoo_Hash
  <2>2. hashed' = tn /\ orig_items' = ReadCsv(csv[Sender]).items /\ csv' = csv
        /\ orig_item = Write_sender_item(orig_items)
    BY <2>1 DEF Preparation, prepared, files
  <2>3. (orig_item = Write_sender_item(orig_items))' BY <2>1, <2>2 DEF Write_sender_item
  <2>4. Table' BY <1>4, CuckooFacts
  <2> QED BY <1>k, <2>1, <2>2, <2>3, <2>4 DEF Preparation, Begun
<1>5. CASE stage \in Begun
  <2>1. /\ UNCHANGED <<prepared, files, sender_item, orig_items, index_cuckoo, orig_item>> /\ stage' \in Begun
    <3>1. CASE MCRG
      BY <1>5, <3>1, MCRGFrame DEF MCRG, prepared, files, sender, Begun
    <3>2. CASE ~MCRG BY <1>5, <3>2, OtherSteps DEF prepared, files, sender
    <3> QED BY <3>1, <3>2
  <2>2. /\ stage # "simple_hash" /\ hashed' = tn BY <1>5, <2>1 DEF Preparation, prepared, Begun
  <2>3. Table => Table' BY <2>1 DEF Table, Occupied, Occupant
  <2>4. (orig_item = Write_sender_item(orig_items)) => (orig_item = Write_sender_item(orig_items))'
    BY <2>1 DEF Write_sender_item
  <2>5. csv' = csv BY <2>1 DEF files
  <2> QED BY <1>5, <1>k, <2>1, <2>2, <2>3, <2>4, <2>5 DEF Preparation
<1>6. CASE UNCHANGED vars
  <2>1. /\ UNCHANGED <<prepared, files, sender_item, orig_items, index_cuckoo, orig_item, stage, hashed, csv>>
    BY <1>6 DEF vars, sender, files, prepared
  <2>3. Table => Table' BY <2>1 DEF Table, Occupied, Occupant
  <2>4. (orig_item = Write_sender_item(orig_items)) => (orig_item = Write_sender_item(orig_items))'
    BY <2>1 DEF Write_sender_item
  <2> QED BY <1>k, <2>1, <2>3, <2>4 DEF Preparation
<1>7. CASE MCRG \/ Collect \/ write_intersection \/ (\E t \in Threads : Skip(t) \/ EmplaceRead(t) \/ EmplaceWrite(t))
  <2>1. MCRG => stage \in Begun BY MCRGFrame DEF MCRG, Begun
  <2>2. Collect \/ write_intersection \/ (\E t \in Threads : Skip(t) \/ EmplaceRead(t) \/ EmplaceWrite(t))
          => stage \in Begun
    BY DEF Collect, write_intersection, Skip, EmplaceRead, EmplaceWrite, InLoop, Begun
  <2> QED BY <1>5, <1>7, <2>1, <2>2
<1> QED BY <1>1, <1>2, <1>3, <1>4, <1>6, <1>7 DEF Next, Terminated

-----------------------------------------------------------------------------
(* The loop. *)

LEMMA MatchesKept ==
  ASSUME UNCHANGED <<bigSets, index_cuckoo, orig_items, sender_result, receiver_result>>
  PROVE  \A b : Matches(b)' <=> Matches(b)
BY DEF Matches

\* What a thread has behind it only grows.
LEMMA FoundKept ==
  ASSUME TypeInv, NEW v, Found(v),
         UNCHANGED <<bigSets, index_cuckoo, orig_items, sender_result, receiver_result>>,
         NEW t \in Threads, next' \in {next, [next EXCEPT ![t] = @ + 1]}
  PROVE  Found(v)'
<1>1. ASSUME NEW u \in Threads PROVE next[u] \in Int /\ next'[u] \in Int /\ next[u] <= next'[u]
  <2>1. next \in [Threads -> Int] BY DEF TypeInv
  <2>2. CASE next' = next BY <2>1, <2>2
  <2>3. CASE next' = [next EXCEPT ![t] = @ + 1] BY <2>1, <2>3
  <2> QED BY <2>2, <2>3
<1>2. \A u \in Threads : FirstBin(u) \in Int BY Blocks
<1>3. \A u \in Threads : Behind(u) \subseteq Behind(u)' BY <1>1, <1>2 DEF Behind, FirstBin
<1>4. \A b : Matches(b)' <=> Matches(b) BY MatchesKept
<1> QED BY <1>3, <1>4 DEF Found

\* No thread has been at a bin that another thread is at: a push keeps apart
\* what was apart.
LEMMA FoundMore ==
  ASSUME TypeInv, LoopInv, NEW t \in Threads, stage = "collect", next[t] < EndBin(t),
         NEW v \in Vectors, Found(v), Matches(next[t]), NEW w, w.buf = Append(v.buf, next[t]),
         UNCHANGED <<bigSets, index_cuckoo, orig_items, sender_result, receiver_result>>,
         next' = [next EXCEPT ![t] = @ + 1]
  PROVE  Found(w)'
<1> DEFINE b == next[t]
           l == Len(v.buf)
<1>0. b \in Bins /\ b \in Int /\ FirstBin(t) <= b /\ b < EndBin(t) BY AtBin, Blocks, Numbers DEF Bins, LoopInv
<1>1. v.buf \in Seq(Bins) /\ l \in Nat BY LenProperties DEF Vectors
<1>2. /\ Len(w.buf) = l + 1 /\ w.buf[l + 1] = b /\ \A n \in 1..l : w.buf[n] = v.buf[n]
  BY <1>0, <1>1, AppendProperties
<1>3. Found(v)' BY FoundKept
<1>4. \A x : Matches(x)' <=> Matches(x) BY MatchesKept
<1>5. b \in Behind(t)'
  <2>1. next'[t] = b + 1 /\ FirstBin(t)' = FirstBin(t) BY DEF TypeInv, FirstBin
  <2>2. FirstBin(t) \in Int BY Blocks
  <2> QED BY <1>0, <2>1, <2>2 DEF Behind
<1>6. ASSUME NEW u \in Threads PROVE b \notin Behind(u)
  <2>1. next[u] \in FirstBin(u)..EndBin(u) /\ FirstBin(u) \in Int /\ EndBin(u) \in Int
        /\ FirstBin(t) \in Int /\ EndBin(t) \in Int
    BY Blocks DEF LoopInv
  <2>2. u = t \/ u < t \/ t < u BY Numbers DEF Threads
  <2>3. u < t => EndBin(u) <= FirstBin(t) BY Blocks
  <2>4. t < u => EndBin(t) <= FirstBin(u) BY Blocks
  <2>5. CASE u = t BY <1>0, <2>1, <2>5 DEF Behind
  <2>6. CASE u < t BY <1>0, <2>1, <2>3, <2>6 DEF Behind
  <2>7. CASE t < u BY <1>0, <2>1, <2>4, <2>7 DEF Behind
  <2> QED BY <2>2, <2>5, <2>6, <2>7
<1>7. \A n \in 1..l : v.buf[n] # b BY <1>6 DEF Found
<1> HIDE DEF b, l
<1>8. ASSUME NEW n \in 1..Len(w.buf)
      PROVE  Matches(w.buf[n])' /\ \E u \in Threads : w.buf[n] \in Behind(u)'
  <2>1. n \in 1..l \/ n = l + 1 BY <1>1, <1>2
  <2>2. CASE n \in 1..l
    <3>1. w.buf[n] = v.buf[n] BY <1>2, <2>2
    <3>2. Matches(v.buf[n])' /\ \E u \in Threads : v.buf[n] \in Behind(u)' BY <1>3, <2>2 DEF Found, l
    <3> QED BY <3>1, <3>2
  <2>3. CASE n = l + 1
    <3>1. w.buf[n] = b BY <1>2, <2>3
    <3>2. Matches(b) BY DEF b
    <3>3. Matches(w.buf[n]) BY <3>1, <3>2
    <3> QED BY <1>4, <1>5, <3>1, <3>3
  <2> QED BY <2>1, <2>2, <2>3
<1>9. ASSUME NEW n \in 1..Len(w.buf), NEW m \in 1..Len(w.buf), w.buf[n] = w.buf[m] PROVE n = m
  <2>1. /\ n \in 1..l \/ n = l + 1 
        /\ m \in 1..l \/ m = l + 1
    BY <1>1, <1>2
  <2>2. \A i, j \in 1..l : v.buf[i] = v.buf[j] => i = j BY DEF Found, l
  <2> QED BY <1>2, <1>7, <1>9, <2>1, <2>2
<1> QED BY <1>8, <1>9 DEF Found

LEMMA LoopInit == Init => LoopInv /\ NothingLost
<1> SUFFICES ASSUME Init PROVE LoopInv /\ NothingLost OBVIOUS
<1>1. /\ stage = "simple_hash" /\ m_idx = Vector(0, 0, <<>>)
      /\ \A t \in Threads : next[t] = FirstBin(t) /\ reg[t] = NoVector
  BY DEF Init, MCRGInit
<1>2. \A t \in Threads : next[t] \in FirstBin(t)..EndBin(t) BY <1>1, Blocks
<1>3. m_idx.id \in Nat BY <1>1 DEF Vector
<1> QED BY <1>1, <1>2, <1>3 DEF LoopInv, Begun, NothingLost

\* A step of another program, before the loop or at its beginning.
LEMMA LoopBefore ==
  ASSUME TypeInv, LoopInv, UNCHANGED loop, stage \notin Begun \ {"mcrg"},
         stage' \notin Begun \ {"mcrg"} \/ stage' = "collect"
  PROVE  LoopInv' /\ NothingLost'
<1>1. UNCHANGED <<next, reg, m_idx, intersection>> BY DEF loop
<1>2. /\ m_idx = Vector(0, 0, <<>>)
      /\ \A t \in Threads : next[t] = FirstBin(t) /\ reg[t] = NoVector
      /\ \A t \in Threads : next[t] \in FirstBin(t)..EndBin(t)
      /\ m_idx.id \in Nat
  BY DEF LoopInv
<1>3. Len(m_idx.buf) = 0 BY <1>2 DEF Vector
<1>4. Found(m_idx)' BY <1>1, <1>3 DEF Found
<1>5. (\A t \in Threads : next[t] \in FirstBin(t)..EndBin(t))' BY <1>1, <1>2 DEF FirstBin, EndBin
<1>6. (\A t \in Threads : next[t] = FirstBin(t) /\ reg[t] = NoVector)' BY <1>1, <1>2 DEF FirstBin, NoVector
<1>7. LoopInv' BY <1>1, <1>2, <1>4, <1>5, <1>6 DEF LoopInv, Begun, Vector
<1>8. NothingLost'
  <2> SUFFICES ASSUME numThreads = 1
               PROVE  reg'[0] = NoVector /\ \A b \in Behind(0)' : FALSE
    BY DEF NothingLost, NoVector, Vector
  <2>1. 0 \in Threads BY DEF Threads
  <2>2. next'[0] = FirstBin(0) /\ FirstBin(0) \in Int BY <1>1, <1>2, <2>1, Blocks
  <2> QED BY <1>1, <1>2, <2>1, <2>2 DEF Behind, FirstBin
<1> QED BY <1>7, <1>8

\* A step of a thread.
LEMMA ThreadStep ==
  ASSUME TypeInv, LoopInv, NothingLost, NEW t \in Threads, Skip(t) \/ EmplaceRead(t) \/ EmplaceWrite(t)
  PROVE  LoopInv' /\ NothingLost'
<1>0. /\ stage = "collect" /\ stage' \in {"collect", "crashed"}
      /\ UNCHANGED <<bigSets, index_cuckoo, orig_items, sender_result, receiver_result, intersection>>
      /\ next \in [Threads -> Int] /\ reg \in [Threads -> Vectors] /\ m_idx \in Vectors
  BY DEF Skip, EmplaceRead, EmplaceWrite, InLoop, sender, mcrgVars, TypeInv
<1>1. \A b : Matches(b)' <=> Matches(b) BY <1>0, MatchesKept
<1>2. /\ Found(m_idx) /\ m_idx.id \in Nat
      /\ \A u \in Threads : next[u] \in FirstBin(u)..EndBin(u)
      /\ \A u \in Threads : reg[u] # NoVector => next[u] < EndBin(u) /\ Matches(next[u]) /\ Found(reg[u])
  BY <1>0 DEF LoopInv, Begun
<1>3. next[t] < EndBin(t)
  BY <1>2 DEF Skip, EmplaceRead, EmplaceWrite, InLoop
<1>4. next' \in {next, [next EXCEPT ![t] = @ + 1]} BY DEF Skip, EmplaceRead, EmplaceWrite
<1>5. next[t] \in Bins /\ next[t] + 1 \in FirstBin(t)..EndBin(t) BY <1>0, <1>3, AtBin
<1>6. \A u \in Threads : next'[u] \in FirstBin(u)..EndBin(u) BY <1>0, <1>2, <1>4, <1>5
<1>7. \A v : Found(v) => Found(v)' BY <1>0, <1>4, FoundKept
<1>8. ASSUME NEW u \in Threads, reg'[u] # NoVector
      PROVE  next'[u] < EndBin(u) /\ Matches(next'[u]) /\ Found(reg'[u])
  <2>1. CASE u # t
    <3>1. reg'[u] = reg[u] /\ next'[u] = next[u]
      BY <1>0, <1>4, <2>1 DEF Skip, EmplaceRead, EmplaceWrite
    <3> QED BY <1>2, <1>8, <3>1
  <2>2. CASE u = t
    <3>1. EmplaceRead(t) BY <1>0, <1>8, <2>2 DEF Skip, EmplaceWrite, InLoop
    <3>2. reg'[u] = m_idx /\ next'[u] = next[u] /\ Matches(next[u]) BY <1>0, <2>2, <3>1 DEF EmplaceRead
    <3> QED BY <1>2, <1>3, <2>2, <3>2
  <2> QED BY <2>1, <2>2
<1>9. Found(m_idx)' /\ m_idx'.id \in Nat
  <2>1. CASE m_idx' = m_idx BY <1>2, <1>7, <2>1
  <2>2. CASE m_idx' # m_idx
    <3>1. EmplaceWrite(t) BY <2>2 DEF Skip, EmplaceRead
    <3>2. /\ reg[t] # NoVector /\ next' = [next EXCEPT ![t] = @ + 1] /\ reg[t].id = m_idx.id
          /\ \/ m_idx' = [m_idx EXCEPT !.buf = Append(reg[t].buf, next[t])]
             \/ m_idx' = Grow(reg[t], next[t])
      BY <2>2, <3>1 DEF EmplaceWrite
    <3>3. Matches(next[t]) /\ Found(reg[t]) /\ reg[t] \in Vectors BY <1>0, <1>2, <3>2
    <3>4. m_idx'.buf = Append(reg[t].buf, next[t]) /\ m_idx'.id \in Nat
      BY <1>0, <1>2, <3>2 DEF Grow, Vector, Vectors
    <3>5. PICK w : w = m_idx' OBVIOUS
    <3>6. Found(w)' BY <1>0, <1>3, <3>2, <3>3, <3>4, <3>5, FoundMore
    <3> QED BY <3>4, <3>5, <3>6
  <2> QED BY <2>1, <2>2
<1>10. LoopInv'
  <2>1. ASSUME NEW u \in Threads, reg'[u] # NoVector
        PROVE  Matches(next[u])' /\ Found(reg[u])'
    <3>1. Matches(next'[u]) /\ Found(reg'[u]) BY <1>8, <2>1
    <3>2. PICK b, v : b = next'[u] /\ v = reg'[u] OBVIOUS
    <3>3. Matches(b)' /\ Found(v)' BY <1>1, <1>7, <3>1, <3>2
    <3> QED BY <3>2, <3>3
  <2>2. (\A u \in Threads : next[u] \in FirstBin(u)..EndBin(u))' BY <1>6 DEF FirstBin, EndBin
  <2>3. (\A u \in Threads : reg[u] # NoVector => next[u] < EndBin(u) /\ Matches(next[u]) /\ Found(reg[u]))'
    BY <1>8, <2>1 DEF EndBin, NoVector, Vector
  <2> QED BY <1>0, <1>9, <2>2, <2>3 DEF LoopInv, Begun
<1>11. NothingLost'
  <2> SUFFICES ASSUME numThreads = 1, stage' = "collect"
               PROVE  /\ reg'[0] \in {NoVector, m_idx'}
                      /\ \A b \in Behind(0)' : Matches(b)' => b \in ToSet(m_idx'.buf)
    BY <1>0 DEF NothingLost, NoVector, Vector
  <2>1. 0 \in Threads /\ t = 0 BY DEF Threads
  <2>2. /\ reg[0] \in {NoVector, m_idx} /\ \A b \in Behind(0) : Matches(b) => b \in ToSet(m_idx.buf)
    BY <1>0 DEF NothingLost
  <2>3. m_idx.buf \in Seq(Bins) BY <1>0 DEF Vectors
  <2>4. FirstBin(0) \in Int /\ next[0] \in Int BY <1>0, <2>1, Blocks
  <2>5. CASE Skip(t)
    <3>1. /\ ~Matches(next[0]) /\ next'[0] = next[0] + 1 /\ reg' = reg /\ m_idx' = m_idx
      BY <1>0, <2>1, <2>5 DEF Skip
    <3>2. \A b \in Behind(0)' : b \in Behind(0) \/ b = next[0] BY <2>4, <3>1 DEF Behind, FirstBin
    <3> QED BY <1>1, <2>2, <3>1, <3>2
  <2>6. CASE EmplaceRead(t)
    <3>1. next' = next /\ reg'[0] = m_idx /\ m_idx' = m_idx BY <1>0, <2>1, <2>6 DEF EmplaceRead
    <3>2. Behind(0)' = Behind(0) BY <3>1 DEF Behind, FirstBin
    <3> QED BY <1>1, <2>2, <3>1, <3>2
  <2>7. CASE EmplaceWrite(t)
    <3>1. /\ next'[0] = next[0] + 1 /\ reg'[0] = NoVector /\ reg[0] # NoVector
          /\ \/ m_idx' = [m_idx EXCEPT !.buf = Append(reg[0].buf, next[0])]
             \/ m_idx' = Grow(reg[0], next[0])
      BY <1>0, <2>1, <2>7 DEF EmplaceWrite
    <3>2. reg[0] = m_idx BY <2>2, <3>1
    <3>3. m_idx'.buf = Append(m_idx.buf, next[0]) BY <1>0, <3>1, <3>2 DEF Grow, Vector, Vectors
    <3>4. ToSet(m_idx'.buf) = ToSet(m_idx.buf) \cup {next[0]} BY <1>5, <2>1, <2>3, <3>3, AppendSet
    <3>5. \A b \in Behind(0)' : b \in Behind(0) \/ b = next[0] BY <2>4, <3>1 DEF Behind, FirstBin
    <3> QED BY <1>1, <2>2, <3>1, <3>4, <3>5
  <2> QED BY <2>5, <2>6, <2>7
<1> QED BY <1>10, <1>11

\* The first line is skipped.
LEMMA SkipFirst ==
  ASSUME NEW S, NEW s \in Seq(S), NEW x
  PROVE  Tail(<<x>> \o s) = s
<1> DEFINE R == S \cup {x}
<1>1. s \in Seq(R) /\ <<x>> \in Seq(R) /\ Len(s) \in Nat /\ Len(<<x>>) = 1 BY LenProperties
<1> QED BY <1>1

LEMMA WriteStep ==
  ASSUME TypeInv, Preparation, LoopInv, NothingLost, write_intersection
  PROVE  LoopInv' /\ NothingLost'
<1>0. /\ stage = "collect" /\ stage' \in {"done", "crashed"}
      /\ UNCHANGED <<bigSets, index_cuckoo, orig_items, orig_item, sender_result, receiver_result, next, reg, m_idx>>
      /\ next \in [Threads -> Int] /\ reg \in [Threads -> Vectors] /\ m_idx \in Vectors
      /\ \A t \in Threads : reg[t] = NoVector /\ next[t] = EndBin(t)
  BY DEF write_intersection, sender, mcrgVars, TypeInv
<1>1. \A b : Matches(b)' <=> Matches(b) BY <1>0, MatchesKept
<1>2. /\ Found(m_idx) /\ m_idx.id \in Nat
      /\ \A u \in Threads : next[u] \in FirstBin(u)..EndBin(u)
  BY <1>0 DEF LoopInv, Begun
<1>3. 0 \in Threads BY Numbers DEF Threads
<1>4. Found(m_idx)' BY <1>0, <1>2, <1>3, FoundKept
<1>5. stage' = "done" =>
        /\ \A b \in ToSet(m_idx.buf) : index_cuckoo[b] # -1
        /\ intersection' = [n \in DOMAIN m_idx.buf |-> Tail(orig_item)[index_cuckoo[m_idx.buf[n]] + 1]]
  BY DEF write_intersection
<1>6. Tail(orig_item) = orig_items
  <2>1. orig_item = <<ToString(Len(orig_items))>> \o orig_items /\ orig_items \in Seq(Items)
    BY <1>0 DEF Preparation, Begun, Write_sender_item, TypeInv
  <2> QED BY <2>1, SkipFirst
<1>7. m_idx.buf \in Seq(Bins) /\ DOMAIN m_idx.buf = 1..Len(m_idx.buf) BY <1>0, LenProperties DEF Vectors
<1>8. stage' = "done" =>
        /\ \A n \in 1..Len(m_idx.buf) : Occupied(m_idx.buf[n])
        /\ intersection' = [n \in DOMAIN m_idx.buf |-> Occupant(m_idx.buf[n])]
  <2>1. \A n \in 1..Len(m_idx.buf) : m_idx.buf[n] \in ToSet(m_idx.buf) BY <1>7 DEF ToSet
  <2> QED BY <1>5, <1>6, <2>1 DEF Occupied, Occupant
<1>9. (stage = "done" =>
        /\ \A t \in Threads : next[t] = EndBin(t)
        /\ \A n \in 1..Len(m_idx.buf) : Occupied(m_idx.buf[n])
        /\ intersection = [n \in DOMAIN m_idx.buf |-> Occupant(m_idx.buf[n])])'
  BY <1>0, <1>8 DEF Occupied, Occupant, EndBin
<1>10. (\A t \in Threads : next[t] \in FirstBin(t)..EndBin(t))' BY <1>0, <1>2 DEF FirstBin, EndBin
<1>11. (\A t \in Threads : reg[t] = NoVector)' BY <1>0 DEF NoVector
<1>12. LoopInv'
  BY <1>0, <1>2, <1>4, <1>9, <1>10, <1>11 DEF LoopInv, Begun
<1>13. NothingLost'
  <2>1. Behind(0)' = Behind(0) BY <1>0 DEF Behind, FirstBin
  <2> QED BY <1>0, <1>1, <2>1 DEF NothingLost, NoVector, Vector
<1> QED BY <1>12, <1>13

LEMMA LoopStep ==
  ASSUME TypeInv, Preparation, LoopInv, NothingLost, [Next]_vars
  PROVE  LoopInv' /\ NothingLost'
<1>1. CASE Prepare \/ NoQuery \/ LoadQuery \/ Cuckoo_Hash \/ InsertFails \/ Collect
  <2>1. /\ UNCHANGED loop /\ stage \notin Begun \ {"mcrg"}
        /\ stage' \notin Begun \ {"mcrg"} \/ stage' = "collect"
    BY <1>1 DEF Prepare, SimpleHash, NoQuery, LoadQuery, Cuckoo_Hash, InsertFails, Collect, Begun
  <2> QED BY <2>1, LoopBefore
<1>2. CASE MCRG
  <2>1. UNCHANGED loop /\ stage \notin Begun \ {"mcrg"} /\ stage' \notin Begun \ {"mcrg"}
    BY <1>2, MCRGFrame DEF MCRG, Begun
  <2> QED BY <2>1, LoopBefore
<1>3. CASE \E t \in Threads : Skip(t) \/ EmplaceRead(t) \/ EmplaceWrite(t) BY <1>3, ThreadStep
<1>4. CASE write_intersection BY <1>4, WriteStep
<1>5. CASE UNCHANGED vars
  <2>0. UNCHANGED <<stage, next, reg, m_idx, intersection, bigSets, index_cuckoo, orig_items, sender_result, receiver_result>>
    BY <1>5 DEF vars, loop, sender, mcrgVars
  <2>1. \A b : Matches(b)' <=> Matches(b) BY <2>0, MatchesKept
  <2>2. \A t : Behind(t)' = Behind(t) /\ FirstBin(t)' = FirstBin(t) /\ EndBin(t)' = EndBin(t)
    BY <2>0 DEF Behind, FirstBin, EndBin
  <2>3. \A v : Found(v) => Found(v)' BY <2>1, <2>2 DEF Found
  <2>4. \A b : Occupied(b)' = Occupied(b) /\ Occupant(b)' = Occupant(b) BY <2>0 DEF Occupied, Occupant
  <2>5. LoopInv' BY <2>0, <2>1, <2>2, <2>3, <2>4 DEF LoopInv, NoVector, Vector
  <2>6. NothingLost' BY <2>0, <2>1, <2>2 DEF NothingLost, NoVector, Vector
  <2> QED BY <2>5, <2>6
<1> QED BY <1>1, <1>2, <1>3, <1>4, <1>5 DEF Next, Terminated

-----------------------------------------------------------------------------
(* The theorems. *)

\* The invariant holds at the beginning, every step of every program keeps it,
\* and so it always holds.
THEOREM Initially == Init => IInv
BY TypeInit, PreparationInit, ExchangesInit, LoopInit DEF IInv

\* The steps, one lemma per program and part of the invariant.
THEOREM Inductive == IInv /\ [Next]_vars => IInv'
<1> SUFFICES ASSUME IInv, [Next]_vars PROVE IInv' OBVIOUS
<1>1. TypeInv /\ Preparation /\ Exchanges /\ LoopInv /\ NothingLost BY DEF IInv
<1>2. TypeInv' BY <1>1, TypeStep
<1>3. Preparation' BY <1>1, PreparationStep
<1>4. Exchanges' BY <1>1, ExchangesStep
<1>5. LoopInv' /\ NothingLost' BY <1>1, LoopStep
<1> QED BY <1>2, <1>3, <1>4, <1>5 DEF IInv

\* In every state of a session.
THEOREM SessionInv == Spec => []IInv
BY Initially, Inductive, PTL DEF Spec

\* When all processes of the balanced MCRG have stopped, whichever files did
\* not open: the two result files of a receiver are both of this session or
\* both of an earlier one, save where the one that is old did not open, and all
\* that follow one the sender could not open are old (MCRG.cpp 94-103, 212-221).
THEOREM FilesTogether == Spec => []PairsTogether
<1>1. ASSUME IInv, AllStopped, NEW p \in Receivers
      PROVE  /\ sender_result[p] # Old /\ receiver_result[p] = Old =>
                  <<"receiver_result", p>> \in unwritable
             /\ receiver_result[p] # Old /\ sender_result[p] = Old =>
                  p = Served /\ at[Sender] # "done" /\ <<"sender_result", p>> \in unwritable
  <2> USE Numbers
  <2>1. Exchange(p) /\ Stopped(Sender) /\ Stopped(p) BY <1>1 DEF IInv, Exchanges, AllStopped
  <2>2. 0 \in Bins BY DEF Bins
  <2>3. <<"lable", 0>> # <<"old", 0>> /\ <<"random", 0>> # <<"old", 0>> OBVIOUS
  <2>5. S_lable(Reply(p)) # Old
    <3>1. S_lable(Reply(p))[0] \in {<<"lable", 0>>, <<"random", 0>>} /\ Old[0] = <<"old", 0>>
      BY <2>2 DEF S_lable, Old
    <3> QED BY <2>3, <3>1
  <2>6. at[Sender] \notin {"send", "receive"} /\ at[p] # "write" BY <2>1 DEF Stopped
  <2>7. Answered(p) /\ receiver_result[p] = Old => <<"receiver_result", p>> \in unwritable
    <3>1. T_lable # Old
      <4>1. T_lable[0] = <<"lable", 0>> /\ Old[0] = <<"old", 0>> BY <2>2 DEF T_lable, Old
      <4> QED BY <2>3, <4>1
    <3> QED BY <2>6, <3>1 DEF Answered
  <2>8. CASE Got(p) BY <2>1, <2>5, <2>7, <2>8 DEF Exchange
  <2>9. CASE ~Got(p)
    <3>1. Untouched(p) \/ (p = Served /\ Unwritten(p)) BY <2>1, <2>6, <2>9 DEF Exchange
    <3>2. at[Sender] # "done" BY <2>9 DEF Got
    <3> QED BY <3>1, <3>2 DEF Untouched, Unwritten
  <2> QED BY <2>8, <2>9
<1>2. ASSUME IInv, AllStopped, at[Sender] # "done", NEW q \in Receivers, q > Served
      PROVE  sender_result[q] = Old /\ receiver_result[q] = Old
  <2>1. Exchange(q) BY <1>2 DEF IInv, Exchanges
  <2>2. serving \in Int /\ q \in Int BY <1>2, Numbers DEF IInv, TypeInv, Indices, Receivers
  <2>3. ~Got(q) /\ q # Served BY <1>2, <2>2 DEF Got, Served
  <2> QED BY <2>1, <2>3 DEF Exchange, Untouched
<1>3. ASSUME IInv PROVE PairsTogether
  <2> SUFFICES ASSUME AllStopped, NEW p \in Receivers
               PROVE  /\ sender_result[p] # Old /\ receiver_result[p] = Old =>
                           <<"receiver_result", p>> \in unwritable
                      /\ receiver_result[p] # Old /\ sender_result[p] = Old =>
                           /\ <<"sender_result", p>> \in unwritable
                           /\ \A q \in (p + 1)..tn : sender_result[q] = Old /\ receiver_result[q] = Old
    BY DEF PairsTogether
  <2>1. \A q \in (p + 1)..tn : q \in Receivers /\ q > p BY Numbers DEF Receivers
  <2> QED BY <1>1, <1>2, <1>3, <2>1
<1> QED BY <1>3, SessionInv, PTL

\* The labels of a bin: what decodes at the sender's key is the receiver's
\* label when the item of the bin is one the receiver has, and only then.
LEMMA LabelsMeet ==
  ASSUME IInv, NEW p \in Receivers, NEW b \in Bins, stage \in Begun, Occupied(b), WellFormed(p),
         at[Sender] = "done", at[p] = "done", <<"hash_result", p>> \notin unwritable
  PROVE  sender_result[p][b] = receiver_result[p][b] <=> Occupant(b) \in ItemsIn(p)
<1> USE Numbers
<1> DEFINE x == Occupant(b)
           items == NewItems(ReadCsv(csv[p]).items)
           file == HashFile(items)
<1>1. TypeInv /\ Preparation /\ Exchanges BY DEF IInv
<1>2. csv[p] \in Seq(Line) BY <1>1 DEF TypeInv
<1>3. /\ csv[p] # <<>> /\ HasItem(csv[p][1]) /\ ~HasLabel(csv[p][1]) /\ <<"csv", p>> \notin unreadable
  BY DEF WellFormed
<1>4. /\ ReadCsv(csv[p]).items \in Seq(Items) /\ ToSet(ReadCsv(csv[p]).items) = ItemsIn(p)
      /\ ~ReadCsv(csv[p]).labeled
  BY <1>2, <1>3, ReadFacts DEF ItemsIn
<1>5. items \in Seq(Items) /\ ToSet(items) = ItemsIn(p) BY <1>4, NewFacts
<1>6. hash_result[p] = file
  <2>1. Hashes(p) BY <1>3, <1>4 DEF Hashes
  <2>2. p <= hashed BY <1>1 DEF Preparation, Begun, Receivers
  <2> QED BY <1>1, <2>1, <2>2 DEF Preparation
<1>7. Diff[b] = x /\ ItemAt(b) = x
  <2>1. sender_item = [originitem |-> orig_items, index_co |-> index_cuckoo] BY <1>1 DEF Preparation
  <2> QED BY <2>1 DEF Diff, ItemAt, Occupied, Occupant
<1>8. x \in Items /\ b \in Locations[x]
  <2>1. Table BY <1>1 DEF Preparation
  <2>2. orig_items \in Seq(Items) BY <1>1 DEF TypeInv
  <2> QED BY <2>1, <2>2, ElementOfSeq DEF Table, Occupant
<1>9. receiver_result[p][b] = <<"lable", b>>
      /\ sender_result[p][b] = IF \E e \in Reply(p) : e.key = <<x, b>> /\ e.mask = <<b, "mC">> /\ e.lable = b
                               THEN <<"lable", b>> ELSE <<"random", b>>
  <2>1. Got(p) /\ Exchange(p) BY <1>1 DEF Got, Exchanges
  <2>2. receiver_result[p] = T_lable /\ sender_result[p] = S_lable(Reply(p))
    BY <2>1 DEF Exchange, Answered
  <2> QED BY <1>7, <2>2 DEF T_lable, S_lable
<1> HIDE DEF x, items
<1>10. DOMAIN items = 1..Len(items) BY <1>5, LenProperties
<1>11. ASSUME NEW e \in Reply(p), e.key = <<x, b>>, e.lable = b PROVE x \in ItemsIn(p)
  <2>1. PICK i \in Bins : e \in {LET y == file.items[q[1] + 1]
          IN  [key |-> <<y, q[2]>>, mask |-> <<i, Factor(y, Diff[i])>>, lable |-> i] :
            q \in file.item_hash_indices[i]}
    BY <1>6, <1>11 DEF Reply, Entries
  <2>2. PICK q \in file.item_hash_indices[i] :
          e = [key |-> <<file.items[q[1] + 1], q[2]>>,
               mask |-> <<i, Factor(file.items[q[1] + 1], Diff[i])>>, lable |-> i]
    BY <2>1
  <2>3. PICK n \in DOMAIN items : q = <<n - 1, i>> BY <2>2 DEF HashFile
  <2>4. file.items[q[1] + 1] = items[n] BY <1>10, <2>3 DEF HashFile
  <2>5. x = items[n] BY <1>11, <2>2, <2>4
  <2> QED BY <1>5, <2>3, <2>5 DEF ToSet
<1>12. ASSUME x \in ItemsIn(p)
       PROVE  \E e \in Reply(p) : e.key = <<x, b>> /\ e.mask = <<b, "mC">> /\ e.lable = b
  <2>1. PICK n \in DOMAIN items : items[n] = x BY <1>5, <1>12 DEF ToSet
  <2> DEFINE q == <<n - 1, b>>
             e == [key |-> <<file.items[q[1] + 1], q[2]>>,
                   mask |-> <<b, Factor(file.items[q[1] + 1], Diff[b])>>, lable |-> b]
  <2>2. q \in file.item_hash_indices[b] BY <1>8, <2>1 DEF HashFile
  <2>3. file.items[q[1] + 1] = x BY <1>10, <2>1 DEF HashFile
  <2>4. e = [key |-> <<x, b>>, mask |-> <<b, "mC">>, lable |-> b] BY <1>7, <2>3 DEF Factor
  <2> DEFINE At(i) == {LET y == file.items[r[1] + 1]
                       IN  [key |-> <<y, r[2]>>, mask |-> <<i, Factor(y, Diff[i])>>, lable |-> i] :
                         r \in file.item_hash_indices[i]}
  <2>5. e \in At(b) BY <2>2
  <2>6. Reply(p) = UNION {At(i) : i \in Bins} BY <1>6 DEF Reply, Entries
  <2> HIDE DEF At
  <2>7. e \in Reply(p) BY <2>5, <2>6
  <2> HIDE DEF e
  <2> QED BY <2>4, <2>7
<1>13. <<"lable", b>> # <<"random", b>> OBVIOUS
<1>14. sender_result[p][b] = receiver_result[p][b] <=> x \in ItemsIn(p) BY <1>9, <1>11, <1>12, <1>13
<1> QED BY <1>14 DEF x

\* As many as there are places, when no two are the same.
LEMMA AllDifferent ==
  ASSUME NEW n \in Nat, NEW f, DOMAIN f = 1..n, \A i, j \in 1..n : f[i] = f[j] => i = j
  PROVE  Cardinality(ToSet(f)) = n
<1> DEFINE g == [i \in 1..n |-> f[i]]
<1>1. ToSet(f) = {f[i] : i \in 1..n} BY DEF ToSet
<1>2. g \in Bijection(1..n, ToSet(f)) BY <1>1 DEF Bijection, Injection, Surjection, IsInjective
<1>3. ExistsBijection(1..n, ToSet(f)) BY <1>2 DEF ExistsBijection
<1> QED BY <1>3, FS_CountingElements

Ended ==
  /\ stage = "done" /\ \A p \in Parties : WellFormed(p) /\ at[p] = "done"
  /\ \A p \in Receivers : <<"hash_result", p>> \notin unwritable
Wanted == {x \in ItemsIn(Sender) : /\ \A p \in Receivers : x \in ItemsIn(p)
                                   /\ \A s \in bigSets : x \in s}

\* A bin is found when its item is wanted.
LEMMA MatchMeans ==
  ASSUME IInv, Ended, NEW b \in Bins, Occupied(b)
  PROVE  Matches(b) <=> Occupant(b) \in Wanted
<1> USE Numbers
<1>1. ASSUME NEW p \in Receivers
      PROVE  sender_result[p][b] = receiver_result[p][b] <=> Occupant(b) \in ItemsIn(p)
  BY <1>1, LabelsMeet DEF Ended, Begun
<1>2. Occupant(b) \in ItemsIn(Sender)
  <2>1. /\ orig_items = ReadCsv(csv[Sender]).items /\ Table /\ csv[Sender] \in Seq(Line)
        /\ orig_items \in Seq(Items)
    BY DEF IInv, Preparation, Ended, Begun, TypeInv
  <2>2. ToSet(orig_items) = ItemsIn(Sender) BY <2>1, ReadFacts DEF Ended, WellFormed, ItemsIn
  <2>3. index_cuckoo[b] + 1 \in DOMAIN orig_items BY <2>1 DEF Table
  <2> QED BY <2>2, <2>3 DEF ToSet, Occupant
<1> QED BY <1>1, <1>2 DEF Matches, Wanted, Occupied, Occupant

LEMMA ResultFacts ==
  ASSUME IInv, Ended
  PROVE  /\ ToSet(intersection) \subseteq Wanted
         /\ Len(intersection) = Cardinality(ToSet(intersection))
         /\ \A b \in ToSet(m_idx.buf) : b \in Bins /\ Occupant(b) \in ToSet(intersection)
<1> DEFINE buf == m_idx.buf
           l == Len(m_idx.buf)
<1>1. /\ Found(m_idx) /\ m_idx \in Vectors
      /\ \A n \in 1..l : Occupied(buf[n])
      /\ intersection = [n \in DOMAIN buf |-> Occupant(buf[n])]
      /\ Table
  BY DEF IInv, LoopInv, TypeInv, Preparation, Ended, Begun
<1>2. buf \in Seq(Bins) /\ l \in Nat /\ DOMAIN buf = 1..l /\ \A n \in 1..l : buf[n] \in Bins
  BY <1>1, LenProperties, ElementOfSeq DEF Vectors
<1>3. \A n \in 1..l : Matches(buf[n]) /\ \A m \in 1..l : buf[n] = buf[m] => n = m
  BY <1>1 DEF Found
<1> HIDE DEF buf, l
<1>4. \A n \in 1..l : Occupant(buf[n]) \in Wanted BY <1>1, <1>2, <1>3, MatchMeans
<1>5. DOMAIN intersection = 1..l /\ \A n \in 1..l : intersection[n] = Occupant(buf[n]) BY <1>1, <1>2
<1>6. ToSet(intersection) \subseteq Wanted BY <1>4, <1>5 DEF ToSet
<1>7. \A n, m \in 1..l : intersection[n] = intersection[m] => n = m
  BY <1>1, <1>2, <1>3, <1>5 DEF Table
<1>8. Cardinality(ToSet(intersection)) = l BY <1>2, <1>5, <1>7, AllDifferent
<1>9. Len(intersection) = l
  <2>1. intersection \in Seq(Wanted)
    <3>1. intersection = [n \in 1..l |-> Occupant(buf[n])] BY <1>1, <1>2
    <3> QED BY <1>2, <1>4, <3>1, IsASeq
  <2> QED BY <1>2, <1>5, <2>1, LenProperties
<1>10. \A b \in ToSet(buf) : b \in Bins /\ Occupant(b) \in ToSet(intersection)
  BY <1>2, <1>5 DEF ToSet
<1> QED BY <1>6, <1>8, <1>9, <1>10 DEF buf

\* With any number of threads, and whatever they do to each other's pushes:
\* what is written is in the intersection, and nothing is written twice.
THEOREM NothingWrongWritten == Spec => []NothingWrong
<1>1. IInv => NothingWrong
  <2> SUFFICES ASSUME IInv, Ended
               PROVE  /\ ToSet(intersection) \subseteq Wanted
                      /\ Len(intersection) = Cardinality(ToSet(intersection))
    BY DEF NothingWrong, Ended, Wanted
  <2> QED BY ResultFacts
<1> QED BY <1>1, SessionInv, PTL

\* With one thread, what intersection.txt holds is the intersection, each of
\* its items once: for every number of receivers and bins, all csv files, hash
\* functions and placements of the cuckoo table.
THEOREM ResultWritten == ASSUME numThreads = 1 PROVE Spec => []IntersectionWritten
<1>1. IInv => IntersectionWritten
  <2> SUFFICES ASSUME IInv, Ended
               PROVE  /\ ToSet(intersection) = Wanted
                      /\ Len(intersection) = Cardinality(ToSet(intersection))
    BY DEF IntersectionWritten, Ended, Wanted
  <2> USE Numbers
  <2>1. /\ ToSet(intersection) \subseteq Wanted
        /\ Len(intersection) = Cardinality(ToSet(intersection))
        /\ \A b \in ToSet(m_idx.buf) : b \in Bins /\ Occupant(b) \in ToSet(intersection)
    BY ResultFacts
  <2>2. ASSUME NEW x \in Wanted PROVE x \in ToSet(intersection)
    <3>1. /\ orig_items = ReadCsv(csv[Sender]).items /\ Table /\ csv[Sender] \in Seq(Line)
      BY DEF IInv, Preparation, Ended, Begun, TypeInv
    <3>2. ToSet(orig_items) = ItemsIn(Sender) BY <3>1, ReadFacts DEF Ended, WellFormed, ItemsIn
    <3>3. x \in ToSet(orig_items) BY <2>2, <3>2 DEF Wanted
    <3>4. PICK b \in Bins : Occupied(b) /\ Occupant(b) = x BY <3>1, <3>3 DEF Table
    <3>5. Matches(b) BY <2>2, <3>4, MatchMeans
    <3>6. b \in Behind(0)
      <4>1. next[0] = EndBin(0) BY DEF IInv, LoopInv, Ended, Threads
      <4>2. FirstBin(0) = 0 /\ EndBin(0) = numBins
        <5>1. numBins \div 1 = numBins OBVIOUS
        <5> QED BY <5>1 DEF FirstBin, EndBin
      <4> QED BY <4>1, <4>2 DEF Behind, Bins
    <3>7. b \in ToSet(m_idx.buf) BY <3>5, <3>6 DEF IInv, NothingLost, Ended
    <3> QED BY <2>1, <3>4, <3>7
  <2> QED BY <2>1, <2>2
<1> QED BY <1>1, SessionInv, PTL

\* With one thread every bin that meets the condition is in the result.
THEOREM OneThreadKeepsAll == ASSUME numThreads = 1 PROVE Spec => []EveryMatchKept
<1>1. IInv => EveryMatchKept
  <2> SUFFICES ASSUME IInv, stage = "done", NEW b \in Bins, Matches(b)
               PROVE  b \in ToSet(m_idx.buf)
    BY DEF EveryMatchKept
  <2>1. next[0] = EndBin(0) BY DEF IInv, LoopInv, Threads
  <2>2. FirstBin(0) = 0 /\ EndBin(0) = numBins
    <3>1. numBins \div 1 = numBins BY Numbers
    <3> QED BY <3>1, Numbers DEF FirstBin, EndBin
  <2>3. b \in Behind(0) BY <2>1, <2>2 DEF Behind, Bins
  <2> QED BY <2>3 DEF IInv, NothingLost
<1> QED BY <1>1, SessionInv, PTL
=============================================================================
