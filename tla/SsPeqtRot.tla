----------------------------- MODULE SsPeqtRot -----------------------------
(***************************************************************************)
(* The second stage of uMCRG: secret-shared equality tests and random OTs  *)
(* (uMCRG/MCRG_diff_large/mcrg_diff_large/ssPEQT_ROT.cpp).                 *)
(*                                                                         *)
(* The first stage has left, per big-set receiver, a matrix of blocks on   *)
(* either side: one cell per bin and cache, cache by cache.  A cell is     *)
(* equal on the two sides when the sender's item of that bin is in that    *)
(* cache of the receiver.  A GMW circuit (isZeroCircuit) turns every cell  *)
(* into two shares of the bit "equal"; each side folds the shares of a bin *)
(* into one choice bit; a random OT gives the sender two fresh labels per  *)
(* bin and the receiver the one it chooses.  The joint test needs the two  *)
(* labels of a bin to be the same exactly when the bin holds an item of    *)
(* the receiver.                                                           *)
(*                                                                         *)
(* The sender is one process that serves the receivers one after another;  *)
(* each receiver is a process.  A protocol the two ends run together is    *)
(* one step; a process whose partner has gone throws.                      *)
(***************************************************************************)
EXTENDS Integers, FiniteSets

CONSTANTS
  tn,         \* number of receivers
  rowNum,     \* item_cnt: the bins
  colNum,     \* alpha_max_cache_count: the caches
  EqualCells, \* the sets of cells that may be equal on the two sides
  Absent,     \* the sets of files that may be missing
  Unwritable  \* the sets of result files that may not open

Sender    == 0
Receivers == 1..tn
Parties   == 0..tn
Rows      == 0..(rowNum - 1)
Caches    == 0..(colNum - 1)
Cells     == 0..(rowNum * colNum - 1)
Sides     == {"sender", "receiver"}
FileNames == Sides \X (0..(tn - 1))

ASSUME SsPeqtRotAssumption ==
  /\ tn \in Nat \ {0} /\ rowNum \in Nat \ {0} /\ colNum \in Nat \ {0}
  /\ EqualCells \subseteq SUBSET (0..(rowNum * colNum - 1))
  /\ Absent \subseteq SUBSET FileNames /\ Unwritable \subseteq SUBSET FileNames

VARIABLES
  equal,      \* per receiver, the cells that are equal in the two matrices
  absent,     \* the matrices that are missing on disk
  unwritable, \* the result files that cannot be opened
  pc,         \* what each process has come to
  serving,    \* the sender's loop index i
  mOut,       \* per side and receiver, the cells whose output share is 1
  bitV,       \* per side and receiver, a choice bit per bin
  result      \* the files mcrg_result/{sender,receiver}_mcrg_i

vars == <<equal, absent, unwritable, pc, serving, mOut, bitV, result>>

\* The two labels of a bin, two random blocks, are named by the choice bit.
Labels == [Rows -> {0, 1}]

\* A result file of an earlier session: nothing deletes them.
Old == [r \in Rows |-> 2]

NoBits  == [s \in Sides |-> [i \in 0..(tn - 1) |-> [r \in Rows |-> 0]]]
NoCells == [s \in Sides |-> [i \in 0..(tn - 1) |-> {}]]

Init ==
  /\ equal \in [0..(tn - 1) -> EqualCells]
  /\ absent \in Absent /\ unwritable \in Unwritable
  /\ pc = [p \in Parties |-> "connect"]
  /\ serving = 0
  /\ mOut = NoCells
  /\ bitV = NoBits
  /\ result = [f \in FileNames |-> Old]

Stopped(p) == pc[p] \in {"done", "returned", "thrown"}

\* Receiver idx works on the files and the channel of index idx - 1.
Idx(p) == IF p = Sender THEN serving ELSE p - 1
Side(p) == IF p = Sender THEN "sender" ELSE "receiver"
Partner(p) == IF p = Sender THEN serving + 1 ELSE Sender

\* The two processes of the channel in use are at the same protocol.
Meet(at) == pc[Sender] = at /\ pc[serving + 1] = at

-----------------------------------------------------------------------------
\* The sender opens a port for each receiver in turn, and starts when all
\* have come.
Connect ==
  /\ Meet("connect")
  /\ IF serving + 1 < tn
     THEN serving' = serving + 1 /\ pc' = [pc EXCEPT ![serving + 1] = "read"]
     ELSE serving' = 0 /\ pc' = [pc EXCEPT ![Sender] = "read", ![serving + 1] = "read"]
  /\ UNCHANGED <<equal, absent, unwritable, mOut, bitV, result>>

\* A process whose matrix is missing returns from its function.
Read(p) ==
  /\ pc[p] = "read"
  /\ pc' = [pc EXCEPT ![p] = IF <<Side(p), Idx(p)>> \in absent
                             THEN "returned" ELSE "zero_test"]
  /\ UNCHANGED <<equal, absent, unwritable, serving, mOut, bitV, result>>

\* What isZeroCircuit computes of the difference of two cells, in two shares:
\* the sender's are random, the receiver's differ from them where the cells
\* are equal.
ZeroTest ==
  /\ Meet("zero_test")
  /\ \E shares \in SUBSET Cells :
       mOut' = [mOut EXCEPT
         !["sender"][serving] = shares,
         !["receiver"][serving] = (shares \ equal[serving]) \cup (equal[serving] \ shares)]
  /\ pc' = [pc EXCEPT ![Sender] = "fold", ![serving + 1] = "fold"]
  /\ UNCHANGED <<equal, absent, unwritable, serving, bitV, result>>

\* Mutant: the matrix is read bin by bin, as the comment above the loop says.
ShareBitRowMajor(m, r) == Cardinality({j \in Caches : r * colNum + j \in m}) % 2

\* The exclusive or of the shares of a bin over all caches.
ShareBit(m, r) == Cardinality({j \in Caches : j * rowNum + r \in m}) % 2

SS_sender ==
  /\ pc[Sender] = "fold"
  /\ bitV' = [bitV EXCEPT !["sender"][serving] =
                [r \in Rows |-> ShareBit(mOut["sender"][serving], r)]]
  /\ mOut' = [mOut EXCEPT !["sender"][serving] = {}]
  /\ pc' = [pc EXCEPT ![Sender] = "rot"]
  /\ UNCHANGED <<equal, absent, unwritable, serving, result>>

\* The receiver's bit is flipped once per cache.
SS_receiver(p) ==
  /\ p # Sender /\ pc[p] = "fold"
  /\ bitV' = [bitV EXCEPT !["receiver"][p - 1] =
                [r \in Rows |-> (ShareBit(mOut["receiver"][p - 1], r) + colNum) % 2]]
  /\ mOut' = [mOut EXCEPT !["receiver"][p - 1] = {}]
  /\ pc' = [pc EXCEPT ![p] = "rot"]
  /\ UNCHANGED <<equal, absent, unwritable, serving, result>>

\* softSend and softRecv: every bin has two new labels, of which the receiver
\* has got one.
RandomOT ==
  /\ Meet("rot")
  /\ pc' = [pc EXCEPT ![Sender] = "write", ![serving + 1] = "write"]
  /\ UNCHANGED <<equal, absent, unwritable, serving, mOut, bitV, result>>

WriteLabels(p) == result' = [result EXCEPT ![<<Side(p), Idx(p)>>] = bitV[Side(p)][Idx(p)]]

\* The sender goes on to the next receiver, or is done.
NextReceiver ==
  IF serving + 1 < tn
  THEN serving' = serving + 1 /\ pc' = [pc EXCEPT ![Sender] = "read"]
  ELSE serving' = serving /\ pc' = [pc EXCEPT ![Sender] = "done"]

\* The labels go to the result file: the sender's are those its own bits
\* choose of the pairs, the receiver's those it was sent.
Write(p) ==
  /\ pc[p] = "write"
  /\ IF <<Side(p), Idx(p)>> \in unwritable
     THEN pc' = [pc EXCEPT ![p] = "returned"] /\ UNCHANGED <<serving, result>>
     ELSE /\ WriteLabels(p)
          /\ IF p = Sender THEN NextReceiver
             ELSE pc' = [pc EXCEPT ![p] = "done"] /\ serving' = serving
  /\ UNCHANGED <<equal, absent, unwritable, mOut, bitV>>

\* Mutant: the error of a run is swallowed.
ThrowSwallowed(p) ==
  /\ pc[p] \in {"zero_test", "rot"}
  /\ pc[Partner(p)] \in {"returned", "thrown"}
  /\ pc' = [pc EXCEPT ![p] = "write"]
  /\ UNCHANGED <<equal, absent, unwritable, serving, mOut, bitV, result>>

\* Mutant: the run is started again.
ThrowRetry(p) ==
  /\ pc[p] \in {"zero_test", "rot"}
  /\ pc[Partner(p)] \in {"returned", "thrown"}
  /\ UNCHANGED vars

\* The partner has closed the channel, by returning or throwing.
Throw(p) ==
  /\ pc[p] \in {"zero_test", "rot"}
  /\ pc[Partner(p)] \in {"returned", "thrown"}
  /\ pc' = [pc EXCEPT ![p] = "thrown"]
  /\ UNCHANGED <<equal, absent, unwritable, serving, mOut, bitV, result>>

-----------------------------------------------------------------------------
AllStopped == \A p \in Parties : Stopped(p)

Terminated == AllStopped /\ UNCHANGED vars

Step(p) == Read(p) \/ SS_receiver(p) \/ Write(p) \/ Throw(p)

Together == Connect \/ ZeroTest \/ SS_sender \/ RandomOT

Next == Together \/ (\E p \in Parties : Step(p)) \/ Terminated

Spec == Init /\ [][Next]_vars

\* Every process keeps running; two that run a protocol together finish it.
FairSpec == Spec /\ WF_vars(Together) /\ \A p \in Parties : WF_vars(Step(p))

-----------------------------------------------------------------------------
(* Properties. *)

TypeOK ==
  /\ equal \in [0..(tn - 1) -> EqualCells]
  /\ pc \in [Parties -> {"connect", "read", "zero_test", "fold", "rot", "write",
                         "done", "returned", "thrown"}]
  /\ serving \in 0..(tn - 1)
  /\ mOut \in [Sides -> [0..(tn - 1) -> SUBSET Cells]]
  /\ bitV \in [Sides -> [0..(tn - 1) -> Labels]]
  /\ result \in [FileNames -> Labels \cup {Old}]

Fresh(s, i) == result[<<s, i>>] # Old

\* The bins that hold an item of receiver i: some cell of the bin is equal.
Held(i) == {r \in Rows : \E j \in Caches : j * rowNum + r \in equal[i]}

\* The labels that the two sides write for a bin are the same exactly when
\* the bin holds an item of the receiver.
LabelsMeet ==
  \A i \in 0..(tn - 1) : Fresh("sender", i) /\ Fresh("receiver", i) =>
    \A r \in Rows :
      (result[<<"sender", i>>][r] = result[<<"receiver", i>>][r]) <=> r \in Held(i)

\* The joint test reads the two files of a pair without knowing which session
\* wrote them.  When all have stopped, wherever the processes met an error, a
\* pair is of two sessions only where the older file did not open: the write
\* is the last thing a process does for a pair, and its partner's is already
\* done or cannot be held back (ssPEQT_ROT.cpp 169-172, 221-224).  A receiver's
\* file that did not open leaves the other pairs alone; the sender's leaves all
\* the later pairs wholly old.
PairsTogether ==
  AllStopped =>
    \A i \in 0..(tn - 1) :
      /\ Fresh("sender", i) /\ ~Fresh("receiver", i) => <<"receiver", i>> \in unwritable
      /\ Fresh("receiver", i) /\ ~Fresh("sender", i) =>
           /\ <<"sender", i>> \in unwritable
           /\ \A j \in (i + 1)..(tn - 1) : ~Fresh("sender", j) /\ ~Fresh("receiver", j)

\* Nobody waits forever for a process that has returned early.
EveryoneStops == <>AllStopped
=============================================================================
