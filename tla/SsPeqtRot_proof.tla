-------------------------- MODULE SsPeqtRot_proof --------------------------
(* Theorems about SsPeqtRot, for every number of receivers, bins and caches,  *)
(* every matrix, and every set of missing and unwritable files.               *)
EXTENDS SsPeqtRot, FiniteSetTheorems, TLAPS

Idxs == 0..(tn - 1)

\* Receiver i has not come through its random OT, or has.
Before(i) == pc[i + 1] \notin {"write", "done"}
Past(i) == \/ pc[i + 1] \in {"write", "done"}
           \/ pc[i + 1] = "returned" /\ <<"receiver", i>> \in unwritable

\* A file is new once its writer has gone on from it.
Files ==
  /\ pc[Sender] = "done" => serving = tn - 1
  /\ \A i \in Idxs :
       /\ Fresh("sender", i) <=> pc[Sender] # "connect" /\ (i < serving \/ pc[Sender] = "done")
       /\ Fresh("receiver", i) <=> pc[i + 1] = "done"

\* The sender and the receiver it serves come through the random OT together; the receivers
\* before it are through, those after it are not.
Lockstep ==
  \A i \in Idxs :
    /\ pc[Sender] # "connect" /\ i < serving => Past(i)
    /\ pc[Sender] = "connect" \/ i > serving => Before(i)
    /\ i = serving =>
         /\ pc[Sender] \in {"read", "zero_test", "fold", "rot"} => Before(i)
         /\ pc[Sender] \in {"write", "done"} => Past(i)
         /\ pc[Sender] \in {"returned", "thrown"} => Before(i) \/ <<"sender", i>> \in unwritable

IInv == TypeOK /\ Files /\ Lockstep

LEMMA Const == /\ tn \in Nat \ {0} /\ rowNum \in Nat \ {0} /\ colNum \in Nat \ {0}
               /\ EqualCells \subseteq SUBSET Cells /\ Sender = 0
BY SsPeqtRotAssumption DEF Cells, Sender

LEMMA Places == \A i \in Idxs : /\ i + 1 \in Parties /\ i + 1 \in Receivers /\ i + 1 # Sender
                                /\ i + 1 - 1 = i
BY Const DEF Idxs, Parties, Receivers

LEMMA PartyCases == \A p \in Parties : p # Sender => p - 1 \in Idxs /\ p = (p - 1) + 1
BY Const DEF Parties, Idxs

\* A written file differs from what was there.
LEMMA NotOld == \A l \in Labels : l # Old
<1> SUFFICES ASSUME NEW l \in Labels PROVE l # Old
  OBVIOUS
<1>1. 0 \in Rows
  BY Const DEF Rows
<1>2. l[0] \in {0, 1} /\ Old[0] = 2
  BY <1>1 DEF Labels, Old
<1> QED
  BY <1>2

LEMMA SidesAre == "sender" \in Sides /\ "receiver" \in Sides
BY DEF Sides
-----------------------------------------------------------------------------
(* Types *)

LEMMA TypeInit == Init => TypeOK
<1> SUFFICES ASSUME Init PROVE TypeOK
  OBVIOUS
<1>1. NoBits \in [Sides -> [0..(tn - 1) -> Labels]] /\ NoCells \in [Sides -> [0..(tn - 1) -> SUBSET Cells]]
  BY DEF NoBits, NoCells, Labels
<1> QED
  BY <1>1, Const DEF Init, TypeOK

LEMMA ShareBitType == \A m, r : ShareBit(m, r) \in {0, 1}
<1> SUFFICES ASSUME NEW m, NEW r PROVE ShareBit(m, r) \in {0, 1}
  OBVIOUS
<1> DEFINE C == {j \in Caches : j * rowNum + r \in m}
<1>1. IsFiniteSet(Caches)
  BY Const, FS_Interval DEF Caches
<1>2. Cardinality(C) \in Nat
  <2>1. C \in SUBSET Caches
    OBVIOUS
  <2>2. IsFiniteSet(C)
    BY <1>1, <2>1, FS_Subset
  <2> QED
    BY <2>2, FS_CardinalityType
<1>3. ShareBit(m, r) = Cardinality(C) % 2
  BY DEF ShareBit
<1> HIDE DEF C
<1> QED
  BY <1>2, <1>3

LEMMA TypeStep == TypeOK /\ [Next]_vars => TypeOK'
<1> SUFFICES ASSUME TypeOK, [Next]_vars PROVE TypeOK'
  OBVIOUS
<1> USE Const
<1>0. serving \in Idxs /\ serving + 1 \in Parties /\ Sender \in Parties
  BY DEF TypeOK, Parties, Idxs
<1>1. CASE Connect
  BY <1>0, <1>1 DEF Connect, TypeOK, Idxs
<1>2. CASE ZeroTest
  <2>1. PICK shares \in SUBSET Cells :
          mOut' = [mOut EXCEPT
             !["sender"][serving] = shares,
             !["receiver"][serving] = (shares \ equal[serving]) \cup (equal[serving] \ shares)]
    BY <1>2 DEF ZeroTest
  <2>2. equal[serving] \in SUBSET Cells
    BY <1>0 DEF TypeOK, Idxs
  <2>3. mOut' \in [Sides -> [0..(tn - 1) -> SUBSET Cells]]
    BY <2>1, <2>2, <1>0, SidesAre DEF TypeOK, Idxs
  <2> QED
    BY <1>0, <1>2, <2>3 DEF ZeroTest, TypeOK, Idxs
<1>3. CASE SS_sender
  <2>1. [r \in Rows |-> ShareBit(mOut["sender"][serving], r)] \in Labels
    BY ShareBitType DEF Labels
  <2> QED
    BY <1>0, <1>3, <2>1, SidesAre DEF SS_sender, TypeOK, Idxs
<1>4. CASE RandomOT
  BY <1>0, <1>4 DEF RandomOT, TypeOK
<1>5. ASSUME NEW p \in Parties, Step(p) PROVE TypeOK'
  <2>1. CASE Read(p)
    BY <2>1 DEF Read, TypeOK
  <2>2. CASE SS_receiver(p)
    <3>1. p - 1 \in 0..(tn - 1)
      BY <2>2, PartyCases DEF SS_receiver, Idxs
    <3>2. [r \in Rows |-> (ShareBit(mOut["receiver"][p - 1], r) + colNum) % 2] \in Labels
      <4>1. \A r \in Rows : ShareBit(mOut["receiver"][p - 1], r) \in Nat
        BY ShareBitType
      <4>2. \A n \in Nat : (n + colNum) % 2 \in {0, 1}
        OBVIOUS
      <4> QED
        BY <4>1, <4>2 DEF Labels
    <3> QED
      BY <2>2, <3>1, <3>2, SidesAre DEF SS_receiver, TypeOK
  <2>3. CASE Write(p)
    <3>1. Side(p) \in Sides /\ Idx(p) \in 0..(tn - 1)
      BY <1>0, PartyCases DEF Side, Idx, Sides, Idxs
    <3>2. bitV[Side(p)][Idx(p)] \in Labels
      BY <3>1 DEF TypeOK
    <3>3. result' \in [FileNames -> Labels \cup {Old}]
      BY <2>3, <3>2 DEF Write, WriteLabels, TypeOK
    <3>4. CASE <<Side(p), Idx(p)>> \in unwritable
      BY <2>3, <3>3, <3>4 DEF Write, TypeOK
    <3>5. CASE <<Side(p), Idx(p)>> \notin unwritable /\ p = Sender
      <4>1. NextReceiver
        BY <2>3, <3>5 DEF Write
      <4>2. serving' \in 0..(tn - 1)
        BY <1>0, <4>1 DEF NextReceiver, Idxs
      <4> QED
        BY <2>3, <3>3, <4>1, <4>2 DEF Write, NextReceiver, TypeOK
    <3>6. CASE <<Side(p), Idx(p)>> \notin unwritable /\ p # Sender
      BY <2>3, <3>3, <3>6 DEF Write, TypeOK
    <3> QED
      BY <3>4, <3>5, <3>6
  <2>4. CASE Throw(p)
    BY <2>4 DEF Throw, TypeOK
  <2> QED
    BY <1>5, <2>1, <2>2, <2>3, <2>4 DEF Step
<1>6. CASE UNCHANGED vars
  BY <1>6 DEF vars, TypeOK
<1> QED
  BY <1>1, <1>2, <1>3, <1>4, <1>5, <1>6 DEF Next, Together, Terminated
-----------------------------------------------------------------------------
(* Files and lockstep *)

LEMMA FilesInit == Init => Files /\ Lockstep
<1> SUFFICES ASSUME Init PROVE Files /\ Lockstep
  OBVIOUS
<1>1. \A i \in Idxs : ~Fresh("sender", i) /\ ~Fresh("receiver", i) /\ pc[i + 1] = "connect"
  BY Places, SidesAre DEF Init, Fresh, FileNames, Idxs
<1>2. pc[Sender] = "connect"
  BY Const DEF Init, Parties
<1> QED
  BY <1>1, <1>2 DEF Files, Lockstep, Before

\* A step that writes no file and leaves the sender where it is takes no receiver through.
LEMMA IInvStep == IInv /\ [Next]_vars => IInv'
<1> SUFFICES ASSUME IInv, [Next]_vars PROVE IInv'
  OBVIOUS
<1> USE Const
<1>t. TypeOK /\ TypeOK'
  BY TypeStep DEF IInv
<1>f. Files /\ Lockstep
  BY DEF IInv
<1>0. /\ serving \in Idxs /\ serving + 1 \in Parties /\ Sender \in Parties
      /\ serving + 1 # Sender /\ Idxs \subseteq Int /\ serving \in Int
  BY <1>t DEF TypeOK, Parties, Idxs
<1> SUFFICES Files' /\ Lockstep'
  BY <1>t DEF IInv
<1>1. CASE Connect
  <2>1. /\ pc[Sender] = "connect" /\ pc[serving + 1] = "connect" /\ result' = result
        /\ unwritable' = unwritable
    BY <1>1 DEF Connect, Meet
  <2>2. \A i \in Idxs : /\ pc'[i + 1] \in {pc[i + 1], "read"}
                        /\ pc[i + 1] = "connect" \/ pc'[i + 1] = pc[i + 1]
    BY <1>0, <1>1, <1>t, <2>1, Places DEF Connect, TypeOK
  <2>3. \/ pc'[Sender] = "connect"
        \/ pc'[Sender] = "read" /\ serving' = 0
    BY <1>0, <1>1, <1>t DEF Connect, Meet, TypeOK
  <2>4. Files'
    BY <1>0, <1>f, <2>1, <2>2, <2>3 DEF Files, Fresh, Idxs
  <2>5. \A i \in Idxs : Before(i)'
    BY <1>f, <2>1, <2>2 DEF Lockstep, Before
  <2> QED
    BY <2>3, <2>4, <2>5, <1>0 DEF Lockstep, Idxs
<1>2. CASE ZeroTest
  <2>1. /\ pc[Sender] = "zero_test" /\ pc'[Sender] = "fold"
        /\ \A i \in Idxs : \/ pc'[i + 1] = pc[i + 1]
                           \/ pc[i + 1] = "zero_test" /\ pc'[i + 1] = "fold"
        /\ UNCHANGED <<result, serving, unwritable>>
    BY <1>0, <1>2, <1>t, Places DEF ZeroTest, Meet, TypeOK
  <2> QED
    BY <1>f, <2>1 DEF Files, Lockstep, Before, Past, Fresh
<1>3. CASE SS_sender
  <2>1. /\ pc[Sender] = "fold" /\ pc'[Sender] = "rot"
        /\ \A i \in Idxs : pc'[i + 1] = pc[i + 1]
        /\ UNCHANGED <<result, serving, unwritable>>
    BY <1>0, <1>3, <1>t, Places DEF SS_sender, TypeOK
  <2> QED
    BY <1>f, <2>1 DEF Files, Lockstep, Before, Past, Fresh
<1>4. CASE RandomOT
  <2>1. /\ pc[Sender] = "rot" /\ pc'[Sender] = "write"
        /\ pc[serving + 1] = "rot" /\ pc'[serving + 1] = "write"
        /\ \A i \in Idxs : i # serving => pc'[i + 1] = pc[i + 1]
        /\ UNCHANGED <<result, serving, unwritable>>
    BY <1>0, <1>4, <1>t, Places DEF RandomOT, Meet, TypeOK
  <2> QED
    BY <1>0, <1>f, <2>1 DEF Files, Lockstep, Before, Past, Fresh
<1>5. ASSUME NEW p \in Parties, p # Sender, Read(p) \/ SS_receiver(p) \/ Throw(p)
      PROVE Files' /\ Lockstep'
  <2>1. /\ pc[p] \in {"read", "zero_test", "fold", "rot"}
        /\ pc'[p] \in {"zero_test", "rot", "returned", "thrown"}
        /\ pc'[Sender] = pc[Sender]
        /\ \A i \in Idxs : i + 1 # p => pc'[i + 1] = pc[i + 1]
        /\ UNCHANGED <<result, serving, unwritable>>
    BY <1>0, <1>5, <1>t, Places DEF Read, SS_receiver, Throw, TypeOK
  <2>2. \A i \in Idxs : i + 1 = p => Before(i) /\ ~Past(i) /\ Before(i)'
    BY <2>1 DEF Before, Past
  <2>3. \A i \in Idxs : i + 1 # p => (Before(i)' <=> Before(i)) /\ (Past(i)' <=> Past(i))
    BY <2>1 DEF Before, Past
  <2>4. Files'
    BY <1>f, <2>1 DEF Files, Fresh
  <2> QED
    BY <1>f, <2>1, <2>2, <2>3, <2>4 DEF Lockstep
<1>6. CASE Read(Sender) \/ Throw(Sender)
  <2>1. /\ pc[Sender] \in {"read", "zero_test", "rot"}
        /\ pc'[Sender] \in {"zero_test", "returned", "thrown"}
        /\ \A i \in Idxs : pc'[i + 1] = pc[i + 1]
        /\ UNCHANGED <<result, serving, unwritable>>
    BY <1>0, <1>6, <1>t, Places DEF Read, Throw, TypeOK
  <2> QED
    BY <1>f, <2>1 DEF Files, Lockstep, Before, Past, Fresh
<1>7. CASE Write(Sender)
  <2>1. /\ pc[Sender] = "write" /\ \A i \in Idxs : pc'[i + 1] = pc[i + 1]
        /\ unwritable' = unwritable
    BY <1>0, <1>7, <1>t, Places DEF Write, NextReceiver, TypeOK
  <2>2. CASE <<"sender", serving>> \in unwritable
    <3>1. pc'[Sender] = "returned" /\ serving' = serving /\ result' = result
      BY <1>0, <1>7, <1>t, <2>2 DEF Write, Side, Idx, TypeOK
    <3> QED
      BY <1>f, <2>1, <2>2, <3>1 DEF Files, Lockstep, Before, Past, Fresh
  <2>3. CASE <<"sender", serving>> \notin unwritable
    <3>1. result' = [result EXCEPT ![<<"sender", serving>>] = bitV["sender"][serving]] /\ NextReceiver
      BY <1>7, <2>3 DEF Write, WriteLabels, Side, Idx
    <3>2. bitV["sender"][serving] \in Labels
      BY <1>0, <1>t, SidesAre DEF TypeOK, Idxs
    <3>3. /\ \A i \in Idxs : i = serving => Fresh("sender", i)'
          /\ \A i \in Idxs : i # serving => (Fresh("sender", i)' <=> Fresh("sender", i))
          /\ \A i \in Idxs : Fresh("receiver", i)' <=> Fresh("receiver", i)
      <4>1. \A i \in Idxs : <<"sender", i>> \in FileNames /\ <<"receiver", i>> \in FileNames
        BY SidesAre DEF FileNames, Idxs
      <4>2. \A f \in FileNames : f # <<"sender", serving>> => result'[f] = result[f]
        BY <1>t, <3>1 DEF TypeOK
      <4>3. result'[<<"sender", serving>>] = bitV["sender"][serving]
        BY <1>0, <1>t, <3>1, <4>1 DEF TypeOK
      <4>4. \A i \in Idxs : <<"receiver", i>> # <<"sender", serving>>
        OBVIOUS
      <4> QED
        BY <3>2, <4>1, <4>2, <4>3, <4>4, NotOld DEF Fresh
    <3>4. \/ serving + 1 < tn /\ serving' = serving + 1 /\ pc'[Sender] = "read"
          \/ serving = tn - 1 /\ serving' = serving /\ pc'[Sender] = "done"
      BY <1>0, <1>t, <3>1 DEF NextReceiver, TypeOK, Idxs
    <3>5. Files'
      BY <1>0, <1>f, <2>1, <3>3, <3>4 DEF Files, Idxs
    <3> QED
      BY <1>0, <1>f, <2>1, <3>4, <3>5 DEF Lockstep, Before, Past, Idxs
  <2> QED
    BY <2>2, <2>3
<1>8. ASSUME NEW p \in Parties, p # Sender, Write(p) PROVE Files' /\ Lockstep'
  <2>0. p - 1 \in Idxs /\ p = (p - 1) + 1
    BY <1>8, PartyCases
  <2>1. /\ pc[p] = "write" /\ pc'[Sender] = pc[Sender] /\ UNCHANGED <<serving, unwritable>>
        /\ \A i \in Idxs : i # p - 1 => pc'[i + 1] = pc[i + 1]
    BY <1>0, <1>8, <1>t, Places, <2>0 DEF Write, TypeOK, Idxs
  <2>2. Past(p - 1) /\ ~Before(p - 1)
    BY <2>0, <2>1 DEF Past, Before
  <2>3. \A i \in Idxs : i # p - 1 => (Before(i)' <=> Before(i)) /\ (Past(i)' <=> Past(i))
    BY <2>1 DEF Before, Past
  <2>4. CASE <<"receiver", p - 1>> \in unwritable
    <3>1. pc'[p] = "returned" /\ result' = result
      BY <1>8, <1>t, <2>4 DEF Write, Side, Idx, TypeOK
    <3>2. Past(p - 1)'
      BY <2>0, <2>1, <2>4, <3>1 DEF Past
    <3>3. Files'
      BY <1>f, <2>0, <2>1, <3>1 DEF Files, Fresh
    <3> QED
      BY <1>f, <2>1, <2>2, <2>3, <3>2, <3>3 DEF Lockstep
  <2>5. CASE <<"receiver", p - 1>> \notin unwritable
    <3>1. /\ pc'[p] = "done"
          /\ result' = [result EXCEPT ![<<"receiver", p - 1>>] = bitV["receiver"][p - 1]]
      BY <1>8, <1>t, <2>5 DEF Write, WriteLabels, Side, Idx, TypeOK
    <3>2. bitV["receiver"][p - 1] \in Labels
      BY <1>t, <2>0, SidesAre DEF TypeOK, Idxs
    <3>3. /\ Fresh("receiver", p - 1)'
          /\ \A i \in Idxs : i # p - 1 => (Fresh("receiver", i)' <=> Fresh("receiver", i))
          /\ \A i \in Idxs : Fresh("sender", i)' <=> Fresh("sender", i)
      BY <1>t, <2>0, <3>1, <3>2, NotOld, SidesAre DEF Fresh, TypeOK, FileNames, Idxs
    <3>4. Past(p - 1)'
      BY <2>0, <3>1 DEF Past
    <3>5. Files'
      BY <1>f, <2>0, <2>1, <3>1, <3>3 DEF Files
    <3> QED
      BY <1>f, <2>1, <2>2, <2>3, <3>4, <3>5 DEF Lockstep
  <2> QED
    BY <2>4, <2>5
<1>9. CASE UNCHANGED vars
  BY <1>9, <1>f DEF vars, Files, Lockstep, Before, Past, Fresh
<1>10. ~SS_receiver(Sender)
  BY DEF SS_receiver
<1> QED
  BY <1>1, <1>2, <1>3, <1>4, <1>5, <1>6, <1>7, <1>8, <1>9, <1>10 DEF Next, Together, Step, Terminated
-----------------------------------------------------------------------------
THEOREM Inductive == Spec => []IInv
<1>1. Init => IInv
  BY TypeInit, FilesInit DEF IInv
<1> QED
  BY <1>1, IInvStep, PTL DEF Spec

\* When all have stopped, the two label files of a pair (ssPEQT_ROT.cpp 166-177, 218-229) are both
\* of this session or both of an earlier one, save where the file that is old did not open, and
\* every pair after one whose sender's file did not open is old on both sides.
THEOREM Pairs == Spec => []PairsTogether
<1>1. ASSUME IInv, AllStopped
      PROVE  \A i \in Idxs :
               /\ Fresh("sender", i) /\ ~Fresh("receiver", i) => <<"receiver", i>> \in unwritable
               /\ Fresh("receiver", i) /\ ~Fresh("sender", i) =>
                    i = serving /\ pc[Sender] # "done" /\ <<"sender", i>> \in unwritable
  <2> SUFFICES ASSUME NEW i \in Idxs
               PROVE  /\ Fresh("sender", i) /\ ~Fresh("receiver", i) => <<"receiver", i>> \in unwritable
                      /\ Fresh("receiver", i) /\ ~Fresh("sender", i) =>
                           i = serving /\ pc[Sender] # "done" /\ <<"sender", i>> \in unwritable
    OBVIOUS
  <2>1. pc[Sender] \in {"done", "returned", "thrown"} /\ pc[i + 1] \in {"done", "returned", "thrown"}
    BY <1>1, Places, Const DEF AllStopped, Stopped, Parties
  <2>2. Past(i) => pc[i + 1] = "done" \/ <<"receiver", i>> \in unwritable
    BY <2>1 DEF Past
  <2>3. Before(i) => pc[i + 1] # "done"
    BY DEF Before
  <2>4. serving \in Int /\ i \in Int /\ i <= tn - 1 /\ serving <= tn - 1 /\ tn \in Int
    BY <1>1, Const DEF IInv, TypeOK, Idxs
  <2>5. Fresh("receiver", i) <=> pc[i + 1] = "done"
    BY <1>1 DEF IInv, Files
  <2>6. Fresh("sender", i) <=> i < serving \/ pc[Sender] = "done"
    BY <1>1, <2>1 DEF IInv, Files
  <2>7. CASE i < serving
    BY <1>1, <2>1, <2>2, <2>5, <2>6, <2>7 DEF IInv, Lockstep
  <2>8. CASE i > serving
    <3>1. Before(i)
      BY <1>1, <2>8 DEF IInv, Lockstep
    <3>2. pc[Sender] = "done" => serving = tn - 1
      BY <1>1 DEF IInv, Files
    <3> QED
      BY <2>3, <2>4, <2>5, <2>6, <2>8, <3>1, <3>2
  <2>9. CASE i = serving
    <3>1. pc[Sender] = "done" => Past(i)
      BY <1>1, <2>9 DEF IInv, Lockstep
    <3>2. pc[Sender] # "done" => Before(i) \/ <<"sender", i>> \in unwritable
      BY <1>1, <2>1, <2>9 DEF IInv, Lockstep
    <3> QED
      BY <2>2, <2>3, <2>4, <2>5, <2>6, <2>9, <3>1, <3>2
  <2> QED
    BY <2>4, <2>7, <2>8, <2>9
<1>2. ASSUME IInv, AllStopped, pc[Sender] # "done", NEW j \in Idxs, j > serving
      PROVE  ~Fresh("sender", j) /\ ~Fresh("receiver", j)
  <2>1. Before(j)
    BY <1>2 DEF IInv, Lockstep
  <2>2. Fresh("receiver", j) <=> pc[j + 1] = "done"
    BY <1>2 DEF IInv, Files
  <2>3. Fresh("sender", j) => j < serving
    BY <1>2 DEF IInv, Files
  <2>4. serving \in Int /\ j \in Int
    BY <1>2, Const DEF IInv, TypeOK, Idxs
  <2> QED
    BY <1>2, <2>1, <2>2, <2>3, <2>4 DEF Before
<1>3. ASSUME IInv PROVE PairsTogether
  <2> SUFFICES ASSUME AllStopped, NEW i \in Idxs
               PROVE  /\ Fresh("sender", i) /\ ~Fresh("receiver", i) => <<"receiver", i>> \in unwritable
                      /\ Fresh("receiver", i) /\ ~Fresh("sender", i) =>
                           /\ <<"sender", i>> \in unwritable
                           /\ \A j \in (i + 1)..(tn - 1) : ~Fresh("sender", j) /\ ~Fresh("receiver", j)
    BY DEF PairsTogether, Idxs
  <2>1. \A j \in (i + 1)..(tn - 1) : j \in Idxs /\ j > i
    BY Const DEF Idxs
  <2> QED
    BY <1>1, <1>2, <1>3, <2>1
<1> QED
  BY <1>3, Inductive, PTL
-----------------------------------------------------------------------------
(* The labels.  The polarity of the receiver's bit is right when the number of caches is odd, and  *)
(* one flip per item is one flip per bin when a bin's item is in one cache at most.                *)

OddCaches == colNum % 2 = 1
OneCachePerBin == \A e \in EqualCells : \A r \in Rows : \A j, k \in Caches :
                    j * rowNum + r \in e /\ k * rowNum + r \in e => j = k

\* What the bits of a bin are, or will be when the shares are folded.
SenderBit(i, r) == IF i = serving /\ pc[Sender] = "fold" THEN ShareBit(mOut["sender"][i], r)
                   ELSE bitV["sender"][i][r]
ReceiverBit(i, r) == IF pc[i + 1] = "fold" THEN (ShareBit(mOut["receiver"][i], r) + colNum) % 2
                     ELSE bitV["receiver"][i][r]
Tested(i) == pc[i + 1] \in {"fold", "rot", "write", "done"}

BitsMeet == \A i \in Idxs : Tested(i) =>
              \A r \in Rows : SenderBit(i, r) = ReceiverBit(i, r) <=> r \in Held(i)

Written == \A s \in Sides, i \in Idxs : Fresh(s, i) => result[<<s, i>>] = bitV[s][i]

LabelInv == BitsMeet /\ Written

LEMMA Parity ==
  /\ \A n \in Nat : n % 2 # (n + colNum) % 2 <=> colNum % 2 = 1
  /\ \A n \in Nat : n % 2 = (n + 1 + colNum) % 2 <=> colNum % 2 = 1
  /\ \A n \in Nat : (n + 1) % 2 = (n + colNum) % 2 <=> colNum % 2 = 1
BY Const

\* The shares of a cell differ where the cells are equal: so do the folded bits of a bin, but for
\* the flip by colNum.
LEMMA FoldRight ==
  ASSUME OddCaches, OneCachePerBin, NEW S, NEW E \in EqualCells, NEW r \in Rows
  PROVE  ShareBit(S, r) = (ShareBit((S \ E) \cup (E \ S), r) + colNum) % 2
           <=> \E j \in Caches : j * rowNum + r \in E
<1> DEFINE A == {j \in Caches : j * rowNum + r \in S}
           B == {j \in Caches : j * rowNum + r \in (S \ E) \cup (E \ S)}
<1>1. /\ ShareBit(S, r) = Cardinality(A) % 2
      /\ ShareBit((S \ E) \cup (E \ S), r) = Cardinality(B) % 2
  BY DEF ShareBit
<1>2. IsFiniteSet(A) /\ Cardinality(A) \in Nat /\ Cardinality(B) \in Nat
  <2>1. IsFiniteSet(Caches) /\ A \in SUBSET Caches /\ B \in SUBSET Caches
    BY Const, FS_Interval DEF Caches
  <2>2. IsFiniteSet(A) /\ IsFiniteSet(B)
    BY <2>1, FS_Subset
  <2> HIDE DEF A, B
  <2> QED
    BY <2>2, FS_CardinalityType
<1>3. \A n \in Nat : ((n % 2) + colNum) % 2 = (n + colNum) % 2
  BY Const
<1>4. CASE \A j \in Caches : j * rowNum + r \notin E
  <2>1. A = B
    BY <1>4
  <2> HIDE DEF A, B
  <2> QED
    BY <1>1, <1>2, <1>3, <1>4, <2>1, Parity DEF OddCaches
<1>5. ASSUME NEW c \in Caches, c * rowNum + r \in E
      PROVE ShareBit(S, r) = (ShareBit((S \ E) \cup (E \ S), r) + colNum) % 2
  <2>1. \A j \in Caches : j * rowNum + r \in E => j = c
    BY <1>5 DEF OneCachePerBin
  <2>2. CASE c \in A
    <3>1. B = A \ {c}
      BY <1>5, <2>1, <2>2
    <3> HIDE DEF A, B
    <3>2. Cardinality(B) = Cardinality(A) - 1
      BY <1>2, <2>2, <3>1, FS_RemoveElement
    <3>3. Cardinality(A) = Cardinality(B) + 1
      BY <1>2, <3>2
    <3> QED
      BY <1>1, <1>2, <1>3, <3>3, Parity DEF OddCaches
  <2>3. CASE c \notin A
    <3>1. B = A \cup {c}
      BY <1>5, <2>1, <2>3
    <3> HIDE DEF A, B
    <3>2. Cardinality(B) = Cardinality(A) + 1
      BY <1>2, <2>3, <3>1, FS_AddElement
    <3> QED
      BY <1>1, <1>2, <1>3, <3>2, Parity DEF OddCaches
  <2> QED
    BY <2>2, <2>3
<1> HIDE DEF A, B
<1> QED
  BY <1>4, <1>5

LEMMA LabelInit == Init => LabelInv
<1> SUFFICES ASSUME Init PROVE LabelInv
  OBVIOUS
<1>1. \A i \in Idxs : ~Tested(i)
  BY Places DEF Init, Tested
<1>2. \A s \in Sides, i \in Idxs : ~Fresh(s, i)
  BY DEF Init, Fresh, FileNames, Idxs
<1> QED
  BY <1>1, <1>2 DEF LabelInv, BitsMeet, Written

\* A step that leaves shares, bits and files alone and takes nobody to or from folding.
LEMMA LabelFrame ==
  ASSUME LabelInv, UNCHANGED <<equal, mOut, bitV, result>>,
         \A i \in Idxs : Tested(i)' => Tested(i) /\ (pc'[i + 1] = "fold" <=> pc[i + 1] = "fold"),
         \A i \in Idxs : (i = serving' /\ pc'[Sender] = "fold") <=> (i = serving /\ pc[Sender] = "fold")
  PROVE  LabelInv'
<1>1. Written'
  BY DEF LabelInv, Written, Fresh
<1>2. ASSUME NEW i \in Idxs, Tested(i)', NEW r \in Rows
      PROVE  (SenderBit(i, r) = ReceiverBit(i, r) <=> r \in Held(i))'
  <2>1. SenderBit(i, r)' = SenderBit(i, r)
    BY DEF SenderBit
  <2>2. ReceiverBit(i, r)' = ReceiverBit(i, r)
    BY <1>2 DEF ReceiverBit
  <2>3. Held(i)' = Held(i)
    BY DEF Held
  <2> QED
    BY <1>2, <2>1, <2>2, <2>3 DEF LabelInv, BitsMeet
<1> QED
  BY <1>1, <1>2 DEF LabelInv, BitsMeet

LEMMA LabelStep == ASSUME OddCaches, OneCachePerBin
                   PROVE  IInv /\ LabelInv /\ [Next]_vars => LabelInv'
<1> SUFFICES ASSUME IInv, LabelInv, [Next]_vars PROVE LabelInv'
  OBVIOUS
<1> USE Const
<1>t. TypeOK /\ TypeOK' /\ Files
  BY TypeStep DEF IInv
<1>0. /\ serving \in Idxs /\ serving + 1 \in Parties /\ Sender \in Parties
      /\ serving + 1 # Sender /\ Idxs \subseteq Int /\ serving \in Int
  BY <1>t DEF TypeOK, Parties, Idxs
<1>1. CASE Connect
  <2>1. UNCHANGED <<equal, mOut, bitV, result>>
    BY <1>1 DEF Connect
  <2>2. pc[Sender] # "fold" /\ pc'[Sender] # "fold"
    BY <1>0, <1>1, <1>t DEF Connect, Meet, TypeOK
  <2>3. \A i \in Idxs : pc'[i + 1] = pc[i + 1] \/ pc'[i + 1] = "read"
    BY <1>0, <1>1, <1>t, Places DEF Connect, TypeOK
  <2> QED
    BY <2>1, <2>2, <2>3, LabelFrame DEF Tested
<1>2. CASE ZeroTest
  <2>1. PICK shares \in SUBSET Cells :
          mOut' = [mOut EXCEPT
             !["sender"][serving] = shares,
             !["receiver"][serving] = (shares \ equal[serving]) \cup (equal[serving] \ shares)]
    BY <1>2 DEF ZeroTest
  <2>2. /\ mOut'["sender"][serving] = shares
        /\ mOut'["receiver"][serving] = (shares \ equal[serving]) \cup (equal[serving] \ shares)
        /\ \A i \in Idxs : i # serving => /\ mOut'["sender"][i] = mOut["sender"][i]
                                          /\ mOut'["receiver"][i] = mOut["receiver"][i]
    BY <1>0, <1>t, <2>1, SidesAre DEF TypeOK, Idxs
  <2>3. /\ pc[Sender] = "zero_test" /\ pc'[Sender] = "fold" /\ pc'[serving + 1] = "fold"
        /\ \A i \in Idxs : i # serving => pc'[i + 1] = pc[i + 1]
        /\ UNCHANGED <<equal, serving, bitV, result>>
    BY <1>0, <1>2, <1>t, Places DEF ZeroTest, Meet, TypeOK
  <2>4. Written'
    BY <2>3 DEF LabelInv, Written, Fresh
  <2>5. ASSUME NEW i \in Idxs, Tested(i)', NEW r \in Rows
        PROVE  (SenderBit(i, r) = ReceiverBit(i, r) <=> r \in Held(i))'
    <3>1. Held(i)' = Held(i)
      BY <2>3 DEF Held
    <3>2. CASE i = serving
      <4>1. equal[i] \in EqualCells
        BY <1>0, <1>t DEF TypeOK, Idxs
      <4>2. ShareBit(shares, r) = (ShareBit((shares \ equal[i]) \cup (equal[i] \ shares), r) + colNum) % 2
              <=> r \in Held(i)
        BY <4>1, FoldRight DEF Held
      <4>3. SenderBit(i, r)' = ShareBit(shares, r)
        BY <2>2, <2>3, <3>2 DEF SenderBit, ShareBit
      <4>4. ReceiverBit(i, r)' = (ShareBit((shares \ equal[i]) \cup (equal[i] \ shares), r) + colNum) % 2
        BY <2>2, <2>3, <3>2 DEF ReceiverBit, ShareBit
      <4> QED
        BY <3>1, <4>2, <4>3, <4>4
    <3>3. CASE i # serving
      <4>1. SenderBit(i, r)' = SenderBit(i, r)
        BY <2>3, <3>3 DEF SenderBit
      <4>2. ReceiverBit(i, r)' = ReceiverBit(i, r)
        BY <2>2, <2>3, <3>3 DEF ReceiverBit, ShareBit
      <4>3. Tested(i)
        BY <2>3, <2>5, <3>3 DEF Tested
      <4> QED
        BY <3>1, <4>1, <4>2, <4>3 DEF LabelInv, BitsMeet
    <3> QED
      BY <3>2, <3>3
  <2> QED
    BY <2>4, <2>5 DEF LabelInv, BitsMeet
<1>3. CASE SS_sender
  <2>1. /\ bitV' = [bitV EXCEPT !["sender"][serving] =
                      [r \in Rows |-> ShareBit(mOut["sender"][serving], r)]]
        /\ mOut' = [mOut EXCEPT !["sender"][serving] = {}]
        /\ pc[Sender] = "fold" /\ pc'[Sender] = "rot"
        /\ \A i \in Idxs : pc'[i + 1] = pc[i + 1]
        /\ UNCHANGED <<equal, serving, result>>
    BY <1>0, <1>3, <1>t, Places DEF SS_sender, TypeOK
  <2>2. /\ \A r \in Rows : bitV'["sender"][serving][r] = ShareBit(mOut["sender"][serving], r)
        /\ \A i \in Idxs : /\ bitV'["receiver"][i] = bitV["receiver"][i]
                           /\ mOut'["receiver"][i] = mOut["receiver"][i]
                           /\ i # serving => bitV'["sender"][i] = bitV["sender"][i]
    BY <1>0, <1>t, <2>1, SidesAre DEF TypeOK, Idxs
  <2>3. ~Fresh("sender", serving)
    BY <1>0, <1>t, <2>1 DEF Files
  <2>4. Written'
    <3> SUFFICES ASSUME NEW s \in Sides, NEW i \in Idxs, result[<<s, i>>] # Old
                 PROVE  result[<<s, i>>] = bitV'[s][i]
      BY <2>1 DEF Written, Fresh
    <3>1. result[<<s, i>>] = bitV[s][i]
      BY DEF LabelInv, Written, Fresh
    <3>2. CASE s = "sender"
      <4>1. i # serving
        BY <2>3, <3>2 DEF Fresh
      <4> QED
        BY <2>2, <3>1, <3>2, <4>1
    <3>3. CASE s = "receiver"
      BY <2>2, <3>1, <3>3
    <3> QED
      BY <3>2, <3>3 DEF Sides
  <2>5. ASSUME NEW i \in Idxs, Tested(i)', NEW r \in Rows
        PROVE  (SenderBit(i, r) = ReceiverBit(i, r) <=> r \in Held(i))'
    <3>1. Held(i)' = Held(i) /\ Tested(i)
      BY <2>1, <2>5 DEF Held, Tested
    <3>2. SenderBit(i, r)' = SenderBit(i, r)
      BY <2>1, <2>2 DEF SenderBit
    <3>3. ReceiverBit(i, r)' = ReceiverBit(i, r)
      BY <2>1, <2>2 DEF ReceiverBit, ShareBit
    <3> QED
      BY <3>1, <3>2, <3>3 DEF LabelInv, BitsMeet
  <2> QED
    BY <2>4, <2>5 DEF LabelInv, BitsMeet
<1>4. CASE RandomOT
  <2>1. /\ pc[Sender] = "rot" /\ pc'[Sender] = "write"
        /\ pc[serving + 1] = "rot" /\ pc'[serving + 1] = "write"
        /\ \A i \in Idxs : i # serving => pc'[i + 1] = pc[i + 1]
        /\ UNCHANGED <<equal, mOut, bitV, result, serving>>
    BY <1>0, <1>4, <1>t, Places DEF RandomOT, Meet, TypeOK
  <2>2. \A i \in Idxs : Tested(i)' => Tested(i) /\ (pc'[i + 1] = "fold" <=> pc[i + 1] = "fold")
    BY <2>1 DEF Tested
  <2> QED
    BY <2>1, <2>2, LabelFrame
<1>5. ASSUME NEW p \in Parties, Read(p) \/ Throw(p) PROVE LabelInv'
  <2>1. /\ pc[p] \in {"read", "zero_test", "rot"} /\ pc'[p] \in {"zero_test", "returned", "thrown"}
        /\ \A q \in Parties : q # p => pc'[q] = pc[q]
        /\ UNCHANGED <<equal, mOut, bitV, result, serving>>
    BY <1>5, <1>t DEF Read, Throw, TypeOK
  <2>2. \A i \in Idxs : Tested(i)' => Tested(i) /\ (pc'[i + 1] = "fold" <=> pc[i + 1] = "fold")
    BY <2>1, Places DEF Tested
  <2>3. pc'[Sender] = "fold" <=> pc[Sender] = "fold"
    BY <1>0, <2>1
  <2> QED
    BY <2>1, <2>2, <2>3, LabelFrame
<1>6. ASSUME NEW p \in Parties, SS_receiver(p) PROVE LabelInv'
  <2>0. p - 1 \in Idxs /\ p = (p - 1) + 1 /\ p # Sender
    BY <1>6, PartyCases DEF SS_receiver
  <2>1. /\ bitV' = [bitV EXCEPT !["receiver"][p - 1] =
                      [r \in Rows |-> (ShareBit(mOut["receiver"][p - 1], r) + colNum) % 2]]
        /\ mOut' = [mOut EXCEPT !["receiver"][p - 1] = {}]
        /\ pc[p] = "fold" /\ pc'[p] = "rot" /\ pc'[Sender] = pc[Sender]
        /\ \A i \in Idxs : i # p - 1 => pc'[i + 1] = pc[i + 1]
        /\ UNCHANGED <<equal, serving, result>>
    BY <1>0, <1>6, <1>t, <2>0, Places DEF SS_receiver, TypeOK, Idxs
  <2>2. /\ \A r \in Rows : bitV'["receiver"][p - 1][r] = (ShareBit(mOut["receiver"][p - 1], r) + colNum) % 2
        /\ \A i \in Idxs : /\ bitV'["sender"][i] = bitV["sender"][i]
                           /\ mOut'["sender"][i] = mOut["sender"][i]
                           /\ i # p - 1 => /\ bitV'["receiver"][i] = bitV["receiver"][i]
                                           /\ mOut'["receiver"][i] = mOut["receiver"][i]
    BY <1>t, <2>0, <2>1, SidesAre DEF TypeOK, Idxs
  <2>3. ~Fresh("receiver", p - 1)
    BY <1>t, <2>0, <2>1 DEF Files
  <2>4. Written'
    <3> SUFFICES ASSUME NEW s \in Sides, NEW i \in Idxs, result[<<s, i>>] # Old
                 PROVE  result[<<s, i>>] = bitV'[s][i]
      BY <2>1 DEF Written, Fresh
    <3>1. result[<<s, i>>] = bitV[s][i]
      BY DEF LabelInv, Written, Fresh
    <3>2. CASE s = "receiver"
      <4>1. i # p - 1
        BY <2>3, <3>2 DEF Fresh
      <4> QED
        BY <2>2, <3>1, <3>2, <4>1
    <3>3. CASE s = "sender"
      BY <2>2, <3>1, <3>3
    <3> QED
      BY <3>2, <3>3 DEF Sides
  <2>5. ASSUME NEW i \in Idxs, Tested(i)', NEW r \in Rows
        PROVE  (SenderBit(i, r) = ReceiverBit(i, r) <=> r \in Held(i))'
    <3>1. Held(i)' = Held(i) /\ Tested(i)
      BY <2>0, <2>1, <2>5 DEF Held, Tested
    <3>2. SenderBit(i, r)' = SenderBit(i, r)
      BY <2>1, <2>2 DEF SenderBit, ShareBit
    <3>3. ReceiverBit(i, r)' = ReceiverBit(i, r)
      <4>1. CASE i = p - 1
        BY <2>0, <2>1, <2>2, <4>1 DEF ReceiverBit
      <4>2. CASE i # p - 1
        <5>1. pc'[i + 1] = pc[i + 1] /\ mOut'["receiver"][i] = mOut["receiver"][i] /\ bitV'["receiver"][i] = bitV["receiver"][i]
          BY <2>1, <2>2, <4>2
        <5> QED
          BY <5>1 DEF ReceiverBit, ShareBit
      <4> QED
        BY <4>1, <4>2
    <3> QED
      BY <3>1, <3>2, <3>3 DEF LabelInv, BitsMeet
  <2> QED
    BY <2>4, <2>5 DEF LabelInv, BitsMeet
<1>7. ASSUME NEW p \in Parties, Write(p) PROVE LabelInv'
  <2>1. /\ pc[p] = "write" /\ \A q \in Parties : q # p => pc'[q] = pc[q]
        /\ UNCHANGED <<equal, mOut, bitV>>
    BY <1>7, <1>t, <1>0 DEF Write, NextReceiver, TypeOK
  <2>2. pc'[p] \in {"returned", "read", "done"} /\ (p # Sender => serving' = serving /\ pc'[p] # "read")
    BY <1>7, <1>t, <1>0 DEF Write, NextReceiver, TypeOK
  <2>3. Side(p) \in Sides /\ Idx(p) \in Idxs
    BY <1>0, PartyCases DEF Side, Idx, Sides
  <2>4. \/ result' = result
        \/ result' = [result EXCEPT ![<<Side(p), Idx(p)>>] = bitV[Side(p)][Idx(p)]]
    BY <1>7 DEF Write, WriteLabels
  <2>5. Written'
    <3> SUFFICES ASSUME NEW s \in Sides, NEW i \in Idxs, result'[<<s, i>>] # Old
                 PROVE  result'[<<s, i>>] = bitV[s][i]
      BY <2>1 DEF Written, Fresh
    <3>1. <<s, i>> \in FileNames
      BY DEF FileNames, Idxs
    <3>2. CASE result'[<<s, i>>] = result[<<s, i>>]
      BY <3>2 DEF LabelInv, Written, Fresh
    <3>3. CASE result'[<<s, i>>] # result[<<s, i>>]
      <4>1. <<s, i>> = <<Side(p), Idx(p)>> /\ result'[<<s, i>>] = bitV[Side(p)][Idx(p)]
        BY <1>t, <2>4, <3>1, <3>3 DEF TypeOK
      <4>2. s = Side(p) /\ i = Idx(p)
        BY <4>1
      <4> QED
        BY <4>1, <4>2
    <3> QED
      BY <3>2, <3>3
  <2>6. ASSUME NEW i \in Idxs, Tested(i)', NEW r \in Rows
        PROVE  (SenderBit(i, r) = ReceiverBit(i, r) <=> r \in Held(i))'
    <3>1. Held(i)' = Held(i)
      BY <2>1 DEF Held
    <3>2. Tested(i) /\ (pc'[i + 1] = "fold" <=> pc[i + 1] = "fold")
      BY <2>1, <2>2, <2>6, Places DEF Tested
    <3>3. (i = serving' /\ pc'[Sender] = "fold") <=> (i = serving /\ pc[Sender] = "fold")
      BY <1>0, <2>1, <2>2
    <3>4. SenderBit(i, r)' = SenderBit(i, r)
      BY <2>1, <3>3 DEF SenderBit
    <3>5. ReceiverBit(i, r)' = ReceiverBit(i, r)
      BY <2>1, <3>2 DEF ReceiverBit
    <3> QED
      BY <3>1, <3>2, <3>4, <3>5 DEF LabelInv, BitsMeet
  <2> QED
    BY <2>5, <2>6 DEF LabelInv, BitsMeet
<1>8. CASE UNCHANGED vars
  BY <1>8, LabelFrame DEF vars, Tested
<1> QED
  BY <1>1, <1>2, <1>3, <1>4, <1>5, <1>6, <1>7, <1>8 DEF Next, Together, Step, Terminated

\* For an odd number of caches, and an item in one cache of a bin at most, the labels that the two
\* sides write for a bin are the same exactly when the receiver holds the item of the bin: the
\* flip once per cache at ssPEQT_ROT.cpp 120 is then one flip.  Nothing hangs on the other files.
THEOREM Labelled == ASSUME OddCaches, OneCachePerBin PROVE Spec => []LabelsMeet
<1>1. IInv /\ LabelInv /\ [Next]_vars => LabelInv'
  BY LabelStep
<1>2. ASSUME IInv, LabelInv PROVE LabelsMeet
  <2> SUFFICES ASSUME NEW i \in Idxs, Fresh("sender", i), Fresh("receiver", i), NEW r \in Rows
               PROVE  result[<<"sender", i>>][r] = result[<<"receiver", i>>][r] <=> r \in Held(i)
    BY DEF LabelsMeet, Idxs
  <2>1. pc[i + 1] = "done"
    BY <1>2 DEF IInv, Files
  <2>2. ~(i = serving /\ pc[Sender] = "fold")
    BY <1>2, Const DEF IInv, Files, TypeOK, Idxs
  <2>3. /\ result[<<"sender", i>>] = bitV["sender"][i]
        /\ result[<<"receiver", i>>] = bitV["receiver"][i]
    BY <1>2, SidesAre DEF LabelInv, Written
  <2>4. Tested(i) /\ SenderBit(i, r) = bitV["sender"][i][r] /\ ReceiverBit(i, r) = bitV["receiver"][i][r]
    BY <2>1, <2>2 DEF Tested, SenderBit, ReceiverBit
  <2> QED
    BY <1>2, <2>3, <2>4 DEF LabelInv, BitsMeet
<1> QED
  BY <1>1, <1>2, LabelInit, Inductive, PTL DEF Spec
=============================================================================
