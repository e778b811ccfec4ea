---------------------------- MODULE JPEQT_proof ----------------------------
(***************************************************************************)
(* Proofs about JPEQT for every number of parties, every number of bins    *)
(* and every choice of the data sets; at the end, about the connections    *)
(* its sockets come from.                                                  *)
(***************************************************************************)
EXTENDS JPEQT, JPEQTConnect, FoldTheorems, SequenceTheorems, TLAPS

(***************************************************************************)
(* The inductive invariant.  It says of every socket what it holds, as a   *)
(* function of how far the two parties at its ends have come; a party that *)
(* has failed keeps its pc, so failures do not disturb it.                 *)
(***************************************************************************)
Holds(q, size) == Len(q) = 1 /\ q[1].size = size
Empty(q)       == q = <<>>

Before == {"send_pk", "recv_pk_HE", "send_ct_d"}   \* the row is not sent
Early  == Before \cup {"recv_ct"}                  \* the chain has not come
After  == {"send_on", "recv_back", "send_back", "done"}
Closing == {"send_ct", "recv_ct", "done"}          \* party 0 has every row

\* How far party 0 has come with party i.
GotPk(i)  == pc[0] # "recv_pk" \/ i <= peer
SentHE(i) == pc[0] \in {"recv_ct_d"} \cup Closing \/ (pc[0] = "send_pk_HE" /\ i <= peer)
GotCTd(i) == pc[0] \in Closing \/ (pc[0] = "recv_ct_d" /\ i <= peer)

\* From party i to party 0: the key, the row, and for i = 1 the result.
ToZero(i) ==
  LET q == chl_0[<<i, 0>>] IN
  /\ pc[i] = "send_pk" => Empty(q) /\ ~GotPk(i)
  /\ pc[i] = "recv_pk_HE" => IF GotPk(i) THEN Empty(q) ELSE Holds(q, "point")
  /\ pc[i] = "send_ct_d" => Empty(q) /\ SentHE(i)
  /\ pc[i] \in Before => ~GotCTd(i)
  /\ pc[i] \notin Before /\ (i # 1 \/ pc[i] # "done") =>
       /\ SentHE(i)
       /\ IF GotCTd(i) THEN Empty(q) ELSE Holds(q, "cts")
  /\ i = 1 /\ pc[i] = "done" =>
       \/ pc[0] = "recv_ct" /\ Holds(q, "cts")
       \/ pc[0] = "done" /\ Empty(q)

\* From party 0 to party i: the joint key, and for i = 1 the chain's start.
FromZero(i) ==
  LET q == chl_1[<<0, i>>] IN
  /\ ~SentHE(i) => Empty(q) /\ pc[i] \in {"send_pk", "recv_pk_HE"}
  /\ SentHE(i) /\ pc[i] \in {"send_pk", "recv_pk_HE"} =>
       pc[i] = "recv_pk_HE" /\ Holds(q, "point")
  /\ pc[i] = "send_ct_d" \/ (i # 1 /\ pc[i] \notin {"send_pk", "recv_pk_HE"}) => Empty(q)
  /\ i = 1 /\ pc[0] \notin {"recv_ct", "done"} =>
       pc[i] \notin After /\ (pc[i] = "recv_ct" => Empty(q))
  /\ i = 1 /\ pc[0] \in {"recv_ct", "done"} =>
       IF pc[i] = "recv_ct" THEN Holds(q, "cts") ELSE Empty(q) /\ pc[i] \in After

\* From party i to party i+1, outward.
Outward(i) ==
  LET q == chl_1[<<i, i + 1>>] IN
  IF pc[i] \in {"recv_back", "send_back", "done"}
  THEN IF pc[i + 1] = "recv_ct" THEN Holds(q, "cts") ELSE Empty(q) /\ pc[i + 1] \in After
  ELSE Empty(q) /\ pc[i + 1] \in Early

\* From party i+1 to party i, inward.
Inward(i) ==
  LET q == chl_0[<<i + 1, i>>] IN
  IF pc[i + 1] = "done"
  THEN IF pc[i] = "recv_back" THEN Holds(q, "cts")
                              ELSE Empty(q) /\ pc[i] \in {"send_back", "done"}
  ELSE Empty(q) /\ pc[i] \notin {"send_back", "done"}

\* The sockets' other directions carry nothing.
Unused ==
  \A a, b \in Party :
    /\ b # 0 /\ a # b + 1 => Empty(chl_0[<<a, b>>])
    /\ a # 0 /\ b # a + 1 => Empty(chl_1[<<a, b>>])
    /\ a = 0 /\ b = 0 => Empty(chl_0[<<a, b>>]) /\ Empty(chl_1[<<a, b>>])

\* Whoever has failed, someone has failed for want of its file.
RootCause == failed # {} => \E idx \in failed : NoFile(idx)

Control ==
  /\ \A i \in Others : ToZero(i) /\ FromZero(i)
  /\ \A i \in Others : i # tn - 1 => Outward(i) /\ Inward(i)
  /\ \A i \in Others : pc[i] \in After => pc[0] \in {"recv_ct", "done"}
  /\ pc[0] = "done" => pc[1] = "done"
  /\ Unused
  /\ RootCause
  /\ m_idx = NoResult <=> pc[0] # "done"

IInv == TypeOK /\ Control

Links == [Party \X Party -> Seq(Messages)]

-----------------------------------------------------------------------------
(* Lemmas about the sockets and the ciphertext operations. *)

LEMMA Parties ==
  /\ tn \in Nat /\ tn >= 2 /\ 0 \in Party /\ Others \subseteq Party
  /\ \A i \in Others : i \in Nat /\ i - 1 \in Party /\ i # 0
  /\ \A i \in Party : i \in Nat /\ (i = 0 \/ i \in Others)
  /\ 1 \in Others
  /\ Order \in Nat \ {0}
BY JPEQTAssumption, OrderAssumption DEF Party, Others

\* The peer a channel index stands for.
LEMMA Peers ==
  /\ \A j \in 0..(tn - 2) : PeerOf(0, j) = j + 1 /\ j + 1 \in Others
  /\ \A idx \in Others : PeerOf(idx, 0) = 0 /\ PeerOf(idx, idx - 1) = idx - 1
  /\ \A idx \in Others : PeerOf(idx, idx) = idx + 1
BY JPEQTAssumption DEF Party, Others, PeerOf

\* A sent buffer is at the other end; no other socket changes.
LEMMA SendLink ==
  ASSUME NEW chl \in Links, NEW idx \in Party, NEW j, PeerOf(idx, j) \in Party,
         NEW m \in Messages
  PROVE  /\ Send(chl, idx, j, m) \in Links
         /\ Send(chl, idx, j, m)[<<idx, PeerOf(idx, j)>>] = Append(chl[<<idx, PeerOf(idx, j)>>], m)
         /\ \A a, b \in Party : a # idx \/ b # PeerOf(idx, j) =>
              Send(chl, idx, j, m)[<<a, b>>] = chl[<<a, b>>]
<1> DEFINE p == PeerOf(idx, j)
<1> HIDE DEF p
<1>1. p \in Party BY DEF p
<1>2. Append(chl[<<idx, p>>], m) \in Seq(Messages) BY <1>1 DEF Links
<1>3. [chl EXCEPT ![<<idx, p>>] = Append(@, m)] \in Links BY <1>1, <1>2 DEF Links
<1>4. Send(chl, idx, j, m) = [chl EXCEPT ![<<idx, p>>] = Append(@, m)] BY DEF Send, p
<1>5. \A a, b \in Party : a # idx \/ b # p => Send(chl, idx, j, m)[<<a, b>>] = chl[<<a, b>>]
  BY <1>1, <1>4 DEF Links
<1> QED BY <1>1, <1>3, <1>4, <1>5 DEF Links, p

\* A received buffer has left the socket; no other socket changes.
LEMMA RecvLink ==
  ASSUME NEW chl \in Links, NEW idx \in Party, NEW j, PeerOf(idx, j) \in Party,
         NEW size, CanRecv(chl, idx, j, size)
  PROVE  /\ Recv(chl, idx, j) \in Links
         /\ Recv(chl, idx, j)[<<PeerOf(idx, j), idx>>] = Tail(chl[<<PeerOf(idx, j), idx>>])
         /\ \A a, b \in Party : b # idx \/ a # PeerOf(idx, j) =>
              Recv(chl, idx, j)[<<a, b>>] = chl[<<a, b>>]
         /\ Head(Inbox(chl, idx, j)) \in Messages
<1> DEFINE p == PeerOf(idx, j)
<1> HIDE DEF p
<1>1. p \in Party BY DEF p
<1>2. chl[<<p, idx>>] \in Seq(Messages) /\ chl[<<p, idx>>] # <<>>
  BY <1>1 DEF Links, CanRecv, Inbox, p
<1>3. Tail(chl[<<p, idx>>]) \in Seq(Messages) /\ Head(chl[<<p, idx>>]) \in Messages BY <1>2
<1>4. [chl EXCEPT ![<<p, idx>>] = Tail(@)] \in Links BY <1>1, <1>3 DEF Links
<1>5. Recv(chl, idx, j) = [chl EXCEPT ![<<p, idx>>] = Tail(@)] BY DEF Recv, p
<1>6. \A a, b \in Party : b # idx \/ a # p => Recv(chl, idx, j)[<<a, b>>] = chl[<<a, b>>]
  BY <1>1, <1>5 DEF Links
<1> QED BY <1>1, <1>3, <1>4, <1>5, <1>6 DEF Links, p, CanRecv, Inbox

LEMMA Operations ==
  /\ ZeroCT \in CT
  /\ \A c1, c2 \in CT : HomoAdd(c1, c2) \in CT /\ HomoSub(c1, c2) \in CT
  /\ \A pk, m, r \in Int : Enc(pk, m, r) \in CT
  /\ \A c \in CT : \A k, r \in Int :
       ScalarMul(c, k) \in CT /\ Dec(k, c) \in CT /\ ReEnc(k, c, r) \in CT
BY DEF CT, ZeroCT, HomoAdd, HomoSub, Enc, ScalarMul, Dec, ReEnc

LEMMA MessageTypes ==
  /\ \A x \in Int : PointMsg(x) \in Messages /\ PointMsg(x).size = "point"
  /\ \A v \in CTs : CTsMsg(v) \in Messages /\ CTsMsg(v).size = "cts"
  /\ \A m \in Messages : m.size = "point" => m.body \in Int
  /\ \A m \in Messages : m.size = "cts" => m.body \in CTs
BY DEF Messages, PointMsg, CTsMsg

\* What a received vector holds in a bin.
LEMMA Bodies ==
  ASSUME NEW m \in Messages, m.size = "cts"
  PROVE  m.body \in [Bins -> CT]
BY MessageTypes DEF CTs

LEMMA ShareRows ==
  ASSUME TypeOK
  PROVE  /\ \A i \in 0..(tn - 2) : \A b \in Bins : read_mcrg_e(i)[b] \in Int
         /\ \A idx \in Others : \A b \in Bins : read_d(idx)[b] \in Int
<1>1. /\ \A i \in 0..(bn - 1) : files.sender_mcrg[i] \in Row /\ files.receiver_mcrg[i] \in Row
      /\ \A i \in 0..(tn - 2 - bn) :
           files.sender_result[i] \in Row /\ files.receiver_result[i] \in Row
  BY DEF TypeOK, Files
<1>2. \A r \in Row : \A b \in Bins : r[b] \in Int BY JPEQTAssumption DEF Row
<1>3. \A i \in 0..(tn - 2) : read_mcrg_e(i) \in Row BY <1>1, JPEQTAssumption DEF read_mcrg_e
<1>4. \A idx \in Others : read_d(idx) \in Row BY <1>1, JPEQTAssumption DEF read_d, Others
<1> QED BY <1>2, <1>3, <1>4

LEMMA LoopIndex ==
  ASSUME NEW here, NEW after, NextPeer(here, after), peer \in 0..(tn - 2)
  PROVE  peer' \in 0..(tn - 2)
BY JPEQTAssumption DEF NextPeer

LEMMA LoopPc ==
  ASSUME NEW here, NEW after, NextPeer(here, after),
         here \in {"recv_pk", "send_pk_HE", "recv_ct_d", "send_ct", "recv_ct", "done"},
         after \in {"recv_pk", "send_pk_HE", "recv_ct_d", "send_ct", "recv_ct", "done"},
         TypeOK
  PROVE  /\ pc' \in [Party -> PCs]
         /\ pc'[0] \in {"recv_pk", "send_pk_HE", "recv_ct_d", "send_ct", "recv_ct", "done"}
         /\ \A idx \in Others : pc'[idx] = pc[idx]
         /\ tn - 1 \in Others
<1>1. tn - 1 \in Others BY Parties DEF Others
<1>2. pc \in [Party -> PCs] BY DEF TypeOK
<1>3. PICK v \in {here, after} : pc' = [pc EXCEPT ![0] = v] BY DEF NextPeer
<1>4. v \in PCs BY <1>3 DEF PCs
<1>5. pc' \in [Party -> PCs] /\ pc'[0] = v BY <1>2, <1>3, <1>4, Parties
<1>6. \A idx \in Others : pc'[idx] = pc[idx] BY <1>2, <1>3, Parties
<1> QED BY <1>1, <1>3, <1>5, <1>6
-----------------------------------------------------------------------------
(* Type correctness. *)

LEMMA TypeInit == Init => TypeOK
<1> SUFFICES ASSUME Init PROVE TypeOK OBVIOUS
<1> USE Parties, JPEQTAssumption, Operations
<1>1. pc \in [Party -> PCs] /\ failed \subseteq Party /\ peer \in 0..(tn - 2) BY DEF Init, PCs
<1>2. /\ pc[0] \in {"recv_pk", "send_pk_HE", "recv_ct_d", "send_ct", "recv_ct", "done"}
      /\ \A idx \in Others : pc[idx] \in {"send_pk", "recv_pk_HE", "send_ct_d", "recv_ct",
                                        "send_on", "recv_back", "send_back", "done"}
      /\ pc[tn - 1] \notin {"send_on", "recv_back"}
  <2>1. \A idx \in Party : pc[idx] = IF idx = 0 THEN "recv_pk" ELSE "send_pk"
    BY DEF Init
  <2>2. pc[0] = "recv_pk" /\ \A idx \in Others : pc[idx] = "send_pk"
    BY ONLY <2>1, Parties
  <2>3. tn - 1 \in Others BY ONLY Parties, JPEQTAssumption DEF Others
  <2> QED BY ONLY <2>2, <2>3
<1>3. sk \in [Party -> Secrets] /\ pk_HE \in [Party -> Int]
  <2>1. sk \in [Party -> Secrets] BY DEF Init
  <2>2. sk[0] \in Int BY <2>1
  <2>3. pk_HE = [idx \in Party |-> IF idx = 0 THEN sk[0] ELSE 0] BY DEF Init
  <2> QED BY ONLY <2>1, <2>2, <2>3
<1>4. E \in [Bins -> Int] /\ ct \in [Party -> CTs] /\ alpha \in [Party -> [Bins -> Int]]
  BY DEF Init, CTs
<1>5. /\ chl_0 \in [Party \X Party -> Seq(Messages)]
      /\ chl_1 \in [Party \X Party -> Seq(Messages)]
  <2>1. <<>> \in Seq(Messages) OBVIOUS
  <2> QED BY <2>1 DEF Init
<1>6. files \in Files /\ missing \subseteq Party BY DEF Init, Party
<1>7. m_idx = NoResult BY DEF Init
<1> QED BY <1>1, <1>2, <1>3, <1>4, <1>5, <1>6, <1>7 DEF TypeOK

LEMMA TypeStep == TypeOK /\ [Next]_vars => TypeOK'
<1> SUFFICES ASSUME TypeOK, [Next]_vars PROVE TypeOK' OBVIOUS
<1> USE Parties
<1> DEFINE PcOK == /\ pc \in [Party -> PCs]
                   /\ pc[0] \in {"recv_pk", "send_pk_HE", "recv_ct_d", "send_ct", "recv_ct", "done"}
                   /\ \A idx \in Others : pc[idx] \in {"send_pk", "recv_pk_HE", "send_ct_d",
                        "recv_ct", "send_on", "recv_back", "send_back", "done"}
                   /\ pc[tn - 1] \notin {"send_on", "recv_back"}
           DataOK == /\ files \in Files /\ missing \subseteq Party /\ sk \in [Party -> Secrets]
                     /\ failed \subseteq Party /\ peer \in 0..(tn - 2)
                     /\ pk_HE \in [Party -> Int] /\ E \in [Bins -> Int]
                     /\ ct \in [Party -> CTs] /\ alpha \in [Party -> [Bins -> Int]]
           NetOK == chl_0 \in Links /\ chl_1 \in Links
           ResOK == m_idx = NoResult \/ m_idx \subseteq Bins
<1>a. PcOK /\ DataOK /\ NetOK /\ ResOK BY DEF TypeOK, Links
<1>b. SUFFICES PcOK' /\ DataOK' /\ NetOK' /\ ResOK' BY DEF TypeOK, Links
<1>c. \A idx \in Party : sk[idx] \in Int /\ pk_HE[idx] \in Int /\ ct[idx] \in [Bins -> CT]
  BY <1>a, JPEQTAssumption DEF CTs
<1>d. PeerOf(0, peer) \in Others /\ \A idx \in Others : PeerOf(idx, 0) = 0
  BY <1>a, Peers
<1> HIDE DEF PcOK, DataOK, NetOK, ResOK
<1>1. CASE P0RecvPk
  <2>0. /\ Head(Inbox(chl_0, 0, peer)) \in Messages
        /\ Head(Inbox(chl_0, 0, peer)).size = "point"
        /\ chl_0' \in Links
    BY <1>1, <1>a, <1>d, RecvLink DEF P0RecvPk, NetOK, CanRecv
  <2>1. Head(Inbox(chl_0, 0, peer)).body \in Int /\ chl_0' \in Links
    BY <2>0, MessageTypes
  <2>2. pk_HE' \in [Party -> Int] BY <1>1, <1>a, <1>c, <2>1 DEF P0RecvPk, DataOK
  <2>3. peer' \in 0..(tn - 2) BY <1>1, <1>a, LoopIndex DEF P0RecvPk, DataOK
  <2>4. PcOK' BY <1>1, <1>a, LoopPc DEF P0RecvPk, PcOK
  <2> QED BY <1>1, <1>a, <2>1, <2>2, <2>3, <2>4 DEF P0RecvPk, DataOK, NetOK, ResOK
<1>2. CASE P0SendPkHE
  <2>1. chl_1' \in Links
    BY <1>2, <1>a, <1>c, <1>d, SendLink, MessageTypes DEF P0SendPkHE, NetOK
  <2>2. peer' \in 0..(tn - 2) BY <1>2, <1>a, LoopIndex DEF P0SendPkHE, DataOK
  <2>3. PcOK' BY <1>2, <1>a, LoopPc DEF P0SendPkHE, PcOK
  <2> QED BY <1>2, <1>a, <2>1, <2>2, <2>3 DEF P0SendPkHE, DataOK, NetOK, ResOK
<1>3. CASE P0RecvCTd
  <2> DEFINE m == Head(Inbox(chl_0, 0, peer))
  <2>1. m \in Messages /\ m.size = "cts" /\ chl_0' \in Links
    BY <1>3, <1>a, <1>d, RecvLink DEF P0RecvCTd, NetOK, CanRecv
  <2> HIDE DEF m
  <2>2. m.body \in [Bins -> CT] BY <2>1, Bodies
  <2>3. [b \in Bins |-> HomoAdd(ct[0][b], m.body[b])] \in CTs
    BY <1>c, <2>2, Operations DEF CTs
  <2>4. ct' \in [Party -> CTs] BY <1>3, <1>a, <2>3 DEF P0RecvCTd, DataOK, m
  <2>5. E' \in [Bins -> Int] BY <1>3, <1>a, ShareRows DEF P0RecvCTd, DataOK
  <2>6. peer' \in 0..(tn - 2) BY <1>3, <1>a, LoopIndex DEF P0RecvCTd, DataOK
  <2>7. PcOK' BY <1>3, <1>a, LoopPc DEF P0RecvCTd, PcOK
  <2> QED BY <1>3, <1>a, <2>1, <2>4, <2>5, <2>6, <2>7 DEF P0RecvCTd, DataOK, NetOK, ResOK
<1>4. CASE P0SendCT
  <2>1. PICK r_new \in [Bins -> Rands] :
          ct' = [ct EXCEPT ![0] = [b \in Bins |->
                   ReEnc(pk_HE[0], HomoSub(@[b], Enc(0, E[b], 0)), r_new[b])]]
    BY <1>4 DEF P0SendCT
  <2>2. [b \in Bins |-> ReEnc(pk_HE[0], HomoSub(ct[0][b], Enc(0, E[b], 0)), r_new[b])] \in CTs
    <3> SUFFICES ASSUME NEW b \in Bins
                 PROVE  ReEnc(pk_HE[0], HomoSub(ct[0][b], Enc(0, E[b], 0)), r_new[b]) \in CT
      BY DEF CTs
    <3>1. E[b] \in Int /\ r_new[b] \in Int /\ ct[0][b] \in CT
      BY <1>a, <1>c, JPEQTAssumption DEF DataOK
    <3>2. Enc(0, E[b], 0) \in CT BY ONLY <3>1 DEF Enc, CT
    <3>3. HomoSub(ct[0][b], Enc(0, E[b], 0)) \in CT BY <3>1, <3>2, Operations
    <3> QED BY <1>c, <3>1, <3>3, Operations
  <2>3. ct' \in [Party -> CTs] /\ ct'[0] \in CTs BY <1>a, <2>1, <2>2 DEF DataOK
  <2>4. chl_1' \in Links
    <3>1. PeerOf(0, 0) \in Party BY Peers
    <3>2. CTsMsg(ct'[0]) \in Messages BY <2>3, MessageTypes
    <3> QED BY <1>4, <1>a, <3>1, <3>2, SendLink DEF P0SendCT, NetOK
  <2>5. PcOK' BY <1>4, <1>a DEF P0SendCT, Goto, PcOK, PCs
  <2> QED BY <1>4, <1>a, <2>3, <2>4, <2>5 DEF P0SendCT, DataOK, NetOK, ResOK
<1>5. CASE P0RecvCT
  <2>0. PeerOf(0, 0) \in Party BY Peers
  <2> DEFINE m == Head(Inbox(chl_0, 0, 0))
  <2>1. m \in Messages /\ m.size = "cts" /\ chl_0' \in Links
    <3>1. CanRecv(chl_0, 0, 0, "cts") /\ chl_0' = Recv(chl_0, 0, 0) BY <1>5 DEF P0RecvCT
    <3>2. m.size = "cts" BY <3>1 DEF CanRecv
    <3> QED BY <1>a, <2>0, <3>1, <3>2, RecvLink DEF NetOK
  <2> HIDE DEF m
  <2>2. m.body \in CTs BY <2>1, Bodies DEF CTs
  <2>3. ct' \in [Party -> CTs] BY <1>5, <1>a, <2>2 DEF P0RecvCT, DataOK, m
  <2>4. m_idx' \subseteq Bins BY <1>5 DEF P0RecvCT
  <2>5. PcOK' BY <1>5, <1>a DEF P0RecvCT, Goto, PcOK, PCs
  <2> QED BY <1>5, <1>a, <2>1, <2>3, <2>4, <2>5 DEF P0RecvCT, DataOK, NetOK, ResOK
<1>6. ASSUME NEW idx \in Others, SendPk(idx) PROVE PcOK' /\ DataOK' /\ NetOK' /\ ResOK'
  <2>1. chl_0' \in Links
    BY <1>6, <1>a, <1>c, <1>d, SendLink, MessageTypes DEF SendPk, NetOK
  <2>2. PcOK' BY <1>6, <1>a DEF SendPk, Goto, PcOK, PCs
  <2> QED BY <1>6, <1>a, <2>1, <2>2 DEF SendPk, DataOK, NetOK, ResOK
<1>7. ASSUME NEW idx \in Others, RecvPkHE(idx) PROVE PcOK' /\ DataOK' /\ NetOK' /\ ResOK'
  <2>0. CanRecv(chl_1, idx, 0, "point") /\ chl_1' = Recv(chl_1, idx, 0) BY <1>7 DEF RecvPkHE
  <2>1. Head(Inbox(chl_1, idx, 0)).body \in Int /\ chl_1' \in Links
    <3>1. Head(Inbox(chl_1, idx, 0)) \in Messages /\ chl_1' \in Links
      BY <1>a, <1>d, <2>0, RecvLink DEF NetOK
    <3>2. Head(Inbox(chl_1, idx, 0)).size = "point" BY <2>0 DEF CanRecv
    <3> QED BY <3>1, <3>2, MessageTypes
  <2>2. pk_HE' \in [Party -> Int] BY <1>7, <1>a, <2>1 DEF RecvPkHE, DataOK
  <2>3. PcOK' BY <1>7, <1>a DEF RecvPkHE, Goto, PcOK, PCs
  <2> QED BY <1>7, <1>a, <2>1, <2>2, <2>3 DEF RecvPkHE, DataOK, NetOK, ResOK
<1>8. ASSUME NEW idx \in Others, SendCTd(idx) PROVE PcOK' /\ DataOK' /\ NetOK' /\ ResOK'
  <2>1. PICK r \in [Bins -> Rands] :
          ct' = [ct EXCEPT ![idx] = [b \in Bins |-> Enc(pk_HE[idx], read_d(idx)[b], r[b])]]
    BY <1>8 DEF SendCTd
  <2>2. \A b \in Bins : read_d(idx)[b] \in Int /\ r[b] \in Int
    BY ShareRows, JPEQTAssumption
  <2>3. [b \in Bins |-> Enc(pk_HE[idx], read_d(idx)[b], r[b])] \in CTs
    BY <1>c, <2>2, Operations DEF CTs
  <2>4. ct' \in [Party -> CTs] /\ ct'[idx] \in CTs BY <1>a, <2>1, <2>3 DEF DataOK
  <2>5. chl_0' \in Links
    BY <1>8, <1>a, <1>d, <2>4, SendLink, MessageTypes DEF SendCTd, NetOK
  <2>6. PcOK' BY <1>8, <1>a DEF SendCTd, Goto, PcOK, PCs
  <2> QED BY <1>8, <1>a, <2>4, <2>5, <2>6 DEF SendCTd, DataOK, NetOK, ResOK
<1>9. ASSUME NEW idx \in Others, RecvCT(idx) PROVE PcOK' /\ DataOK' /\ NetOK' /\ ResOK'
  <2> DEFINE m == Head(Inbox(chl_1, idx, idx - 1))
  <2>1. m \in Messages /\ m.size = "cts" /\ chl_1' \in Links
    <3>1. PeerOf(idx, idx - 1) \in Party BY Peers
    <3>2. CanRecv(chl_1, idx, idx - 1, "cts") /\ chl_1' = Recv(chl_1, idx, idx - 1)
      BY <1>9 DEF RecvCT
    <3>3. m.size = "cts" BY <3>2 DEF CanRecv
    <3> QED BY <1>a, <3>1, <3>2, <3>3, RecvLink DEF NetOK
  <2>2. PICK a \in [Bins -> Alphas] :
          /\ alpha' = [alpha EXCEPT ![idx] = a]
          /\ ct' = [ct EXCEPT ![idx] = [b \in Bins |-> ScalarMul(m.body[b], a[b])]]
    BY <1>9 DEF RecvCT
  <2> HIDE DEF m
  <2>3. a \in [Bins -> Int] BY JPEQTAssumption
  <2>4. [b \in Bins |-> ScalarMul(m.body[b], a[b])] \in CTs
    BY <2>1, <2>3, Bodies, Operations DEF CTs
  <2>5. ct' \in [Party -> CTs] /\ alpha' \in [Party -> [Bins -> Int]]
    BY <1>a, <2>2, <2>3, <2>4 DEF DataOK
  <2>6. PcOK' BY <1>9, <1>a DEF RecvCT, Goto, PcOK, PCs
  <2> QED BY <1>9, <1>a, <2>1, <2>5, <2>6 DEF RecvCT, DataOK, NetOK, ResOK
<1>10. ASSUME NEW idx \in Others, SendOn(idx) PROVE PcOK' /\ DataOK' /\ NetOK' /\ ResOK'
  <2>0. idx # tn - 1 BY <1>10, <1>a DEF SendOn, Goto, PcOK
  <2>1. PeerOf(idx, idx) \in Party BY <2>0, Peers DEF Party, Others
  <2>2. chl_1' \in Links
    BY <1>10, <1>a, <1>c, <2>1, SendLink, MessageTypes DEF SendOn, NetOK, CTs
  <2>3. PcOK' BY <1>10, <1>a DEF SendOn, Goto, PcOK, PCs
  <2> QED BY <1>10, <1>a, <2>2, <2>3 DEF SendOn, DataOK, NetOK, ResOK
<1>11. ASSUME NEW idx \in Others, RecvBack(idx) PROVE PcOK' /\ DataOK' /\ NetOK' /\ ResOK'
  <2>0. idx # tn - 1 BY <1>11, <1>a DEF RecvBack, Goto, PcOK
  <2> DEFINE m == Head(Inbox(chl_0, idx, idx))
  <2>1. m \in Messages /\ m.size = "cts" /\ chl_0' \in Links
    <3>1. PeerOf(idx, idx) \in Party BY <2>0, Peers DEF Party, Others
    <3>2. CanRecv(chl_0, idx, idx, "cts") /\ chl_0' = Recv(chl_0, idx, idx)
      BY <1>11 DEF RecvBack
    <3>3. m.size = "cts" BY <3>2 DEF CanRecv
    <3> QED BY <1>a, <3>1, <3>2, <3>3, RecvLink DEF NetOK
  <2>2. ct' = [ct EXCEPT ![idx] = m.body] BY <1>11 DEF RecvBack
  <2> HIDE DEF m
  <2>3. m.body \in CTs BY <2>1, Bodies DEF CTs
  <2>4. ct' \in [Party -> CTs] BY <1>a, <2>2, <2>3 DEF DataOK
  <2>5. PcOK' BY <1>11, <1>a DEF RecvBack, Goto, PcOK, PCs
  <2> QED BY <1>11, <1>a, <2>1, <2>4, <2>5 DEF RecvBack, DataOK, NetOK, ResOK
<1>12. ASSUME NEW idx \in Others, SendBack(idx) PROVE PcOK' /\ DataOK' /\ NetOK' /\ ResOK'
  <2>1. PICK pi \in IF Permute THEN Perms ELSE {[b \in Bins |-> b]} :
          ct' = [ct EXCEPT ![idx] = [b \in Bins |-> Dec(sk[idx], @[pi[b]])]]
    BY <1>12 DEF SendBack
  <2>2. pi \in [Bins -> Bins] BY DEF Perms
  <2>3. [b \in Bins |-> Dec(sk[idx], ct[idx][pi[b]])] \in CTs
    BY <1>c, <2>2, Operations DEF CTs
  <2>4. ct' \in [Party -> CTs] /\ ct'[idx] \in CTs BY <1>a, <2>1, <2>3 DEF DataOK
  <2>5. chl_0' \in Links
    <3>1. PeerOf(idx, idx - 1) \in Party BY Peers
    <3>2. CTsMsg(ct'[idx]) \in Messages BY <2>4, MessageTypes
    <3> QED BY <1>12, <1>a, <3>1, <3>2, SendLink DEF SendBack, NetOK
  <2>6. PcOK' BY <1>12, <1>a DEF SendBack, Goto, PcOK, PCs
  <2> QED BY <1>12, <1>a, <2>4, <2>5, <2>6 DEF SendBack, DataOK, NetOK, ResOK
<1>13. ASSUME NEW idx \in Party, Fail(idx) PROVE PcOK' /\ DataOK' /\ NetOK' /\ ResOK'
  BY <1>13, <1>a DEF Fail, PcOK, DataOK, NetOK, ResOK
<1>14. CASE UNCHANGED vars
  BY <1>14, <1>a DEF vars, PcOK, DataOK, NetOK, ResOK
<1> QED
  BY <1>1, <1>2, <1>3, <1>4, <1>5, <1>6, <1>7, <1>8, <1>9, <1>10, <1>11, <1>12, <1>13, <1>14
  DEF Next, P0Step, P0Call, PartyStep, Call, Terminated

\* Every variable of J_PEQT and JP_PEQT keeps its type, for every number of
\* parties and bins: in particular no loop index leaves the channel vectors
\* and the last party never waits for a successor.
THEOREM TypeCorrect == Spec => []TypeOK
BY TypeInit, TypeStep, PTL DEF Spec

-----------------------------------------------------------------------------
(* Control: what the sockets hold. *)

\* A send into an empty socket.
LEMMA SendFills ==
  ASSUME NEW chl \in Links, NEW idx \in Party, NEW j, NEW p \in Party, PeerOf(idx, j) = p,
         NEW m \in Messages, Empty(chl[<<idx, p>>])
  PROVE  Holds(Send(chl, idx, j, m)[<<idx, p>>], m.size)
<1>1. Send(chl, idx, j, m)[<<idx, p>>] = Append(<<>>, m) BY SendLink DEF Empty
<1> QED BY <1>1 DEF Holds

\* A receive, from a socket known to hold at most one buffer.
LEMMA RecvEmpties ==
  ASSUME NEW chl \in Links, NEW idx \in Party, NEW j, NEW p \in Party, PeerOf(idx, j) = p,
         NEW size, CanRecv(chl, idx, j, size),
         NEW held, Empty(chl[<<p, idx>>]) \/ Holds(chl[<<p, idx>>], held)
  PROVE  /\ Holds(chl[<<p, idx>>], held) /\ ~Empty(chl[<<p, idx>>])
         /\ Empty(Recv(chl, idx, j)[<<p, idx>>])
<1>1. chl[<<p, idx>>] # <<>> BY DEF CanRecv, Inbox
<1>2. chl[<<p, idx>>] \in Seq(Messages) BY DEF Links
<1>3. Len(chl[<<p, idx>>]) = 1 BY <1>1 DEF Empty, Holds
<1>5. Tail(chl[<<p, idx>>]) = <<>>
  <2>1. Tail(chl[<<p, idx>>]) \in Seq(Messages) BY <1>1, <1>2
  <2>2. Len(Tail(chl[<<p, idx>>])) = 0 BY <1>1, <1>2, <1>3
  <2> QED BY <2>1, <2>2, EmptySeq
<1>6. Recv(chl, idx, j)[<<p, idx>>] = Tail(chl[<<p, idx>>]) BY RecvLink
<1> QED BY <1>1, <1>5, <1>6 DEF Empty

LEMMA HoldsOrEmpty == \A q, s : Holds(q, s) => ~Empty(q) BY DEF Holds, Empty

\* A step of a party that has not failed leaves the cause of every failure.
LEMMA RootKept ==
  ASSUME RootCause, NEW x \in Party, x \notin failed, failed' = failed,
         missing' = missing, \A y \in Party : y # x => pc'[y] = pc[y],
         failed \subseteq Party
  PROVE  RootCause'
BY DEF RootCause, NoFile

\* The step of party 0's loops, seen from party i.
LEMMA LoopProgress ==
  ASSUME TypeOK, NEW here, NEW after, NextPeer(here, after), pc[0] = here, here # after
  PROVE  /\ \A y \in Others : pc'[y] = pc[y]
         /\ \/ peer < tn - 2 /\ pc'[0] = here /\ peer' = peer + 1
            \/ peer = tn - 2 /\ pc'[0] = after /\ peer' = 0
BY Parties DEF NextPeer, TypeOK

LEMMA ControlInit == Init => Control
<1> SUFFICES ASSUME Init PROVE Control OBVIOUS
<1> USE Parties
<1>1. /\ pc[0] = "recv_pk" /\ \A i \in Others : pc[i] = "send_pk"
      /\ \A a, b \in Party : Empty(chl_0[<<a, b>>]) /\ Empty(chl_1[<<a, b>>])
      /\ peer = 0 /\ failed = {} /\ m_idx = NoResult
  BY DEF Init, Empty
<1>2. ASSUME NEW i \in Others PROVE ToZero(i) /\ FromZero(i)
  BY <1>1 DEF ToZero, FromZero, GotPk, SentHE, GotCTd, Before, Closing, After
<1>3. ASSUME NEW i \in Others, i # tn - 1 PROVE Outward(i) /\ Inward(i)
  <2>1. i + 1 \in Others BY <1>3 DEF Others
  <2> QED BY <1>1, <2>1 DEF Outward, Inward, Early, Before
<1>4. Unused /\ RootCause BY <1>1 DEF Unused, RootCause
<1>5. \A i \in Others : pc[i] \notin After BY <1>1 DEF After
<1> QED BY <1>1, <1>2, <1>3, <1>4, <1>5 DEF Control

LEMMA ControlP0RecvPk ==
  ASSUME TypeOK, Control, P0RecvPk, 0 \notin failed
  PROVE  Control'
<1> USE Parties
<1> DEFINE p == peer + 1
<1>1. p \in Others /\ PeerOf(0, peer) = p /\ p = peer + 1 /\ peer \in 0..(tn - 2)
  BY Peers DEF TypeOK
<1> HIDE DEF p
<1>2. pc[0] = "recv_pk" /\ ~GotPk(p) /\ ~SentHE(p) /\ ~GotCTd(p)
  BY <1>1 DEF P0RecvPk, GotPk, SentHE, GotCTd, Closing
<1>3. Empty(chl_0[<<p, 0>>]) \/ Holds(chl_0[<<p, 0>>], "point")
  BY <1>1, <1>2 DEF Control, ToZero, Before
<1>4. /\ Holds(chl_0[<<p, 0>>], "point") /\ ~Empty(chl_0[<<p, 0>>])
      /\ Empty(chl_0'[<<p, 0>>])
      /\ \A a, b \in Party : a # p \/ b # 0 => chl_0'[<<a, b>>] = chl_0[<<a, b>>]
  <2>1. chl_0 \in Links BY DEF TypeOK, Links
  <2>2. CanRecv(chl_0, 0, peer, "point") /\ chl_0' = Recv(chl_0, 0, peer) BY DEF P0RecvPk
  <2>3. Holds(chl_0[<<p, 0>>], "point") /\ ~Empty(chl_0[<<p, 0>>])
    BY <1>1, <1>3, <2>1, <2>2, RecvEmpties
  <2>4. Empty(chl_0'[<<p, 0>>]) BY <1>1, <1>3, <2>1, <2>2, RecvEmpties
  <2>5. \A a, b \in Party : a # p \/ b # 0 => chl_0'[<<a, b>>] = chl_0[<<a, b>>]
    BY <1>1, <2>1, <2>2 DEF Recv, Links
  <2> QED BY <2>3, <2>4, <2>5
<1>5. pc[p] = "recv_pk_HE"
  BY <1>1, <1>2, <1>4 DEF Control, ToZero, Before, TypeOK
<1>6. /\ \A y \in Others : pc'[y] = pc[y]
      /\ \A y \in Party : y # 0 => pc'[y] = pc[y]
      /\ \/ peer < tn - 2 /\ pc'[0] = "recv_pk" /\ peer' = peer + 1
         \/ peer = tn - 2 /\ pc'[0] = "send_pk_HE" /\ peer' = 0
  BY LoopProgress DEF P0RecvPk
<1>7. chl_1' = chl_1 /\ failed' = failed /\ missing' = missing /\ m_idx' = m_idx
  BY DEF P0RecvPk
<1>8. ASSUME NEW i \in Others
      PROVE  /\ GotPk(i)' <=> GotPk(i) \/ i = p
             /\ SentHE(i)' <=> SentHE(i)
             /\ GotCTd(i)' <=> GotCTd(i)
  BY <1>1, <1>2, <1>6 DEF GotPk, SentHE, GotCTd, Others, Closing
<1>9. ASSUME NEW i \in Others PROVE ToZero(i)'
  BY <1>1, <1>2, <1>4, <1>5, <1>6, <1>7, <1>8 DEF Control, ToZero, Before
<1>10. ASSUME NEW i \in Others PROVE FromZero(i)'
  BY <1>1, <1>2, <1>4, <1>5, <1>6, <1>7, <1>8 DEF Control, FromZero, After
<1>11. ASSUME NEW i \in Others, i # tn - 1 PROVE Outward(i)' /\ Inward(i)'
  <2>1. i + 1 \in Others BY <1>11 DEF Others
  <2>2. Outward(i)'
    BY <1>1, <1>2, <1>4, <1>5, <1>6, <1>7, <1>11, <2>1 DEF Control, Outward, Early, Before, After
  <2>3. Inward(i)'
    BY <1>1, <1>2, <1>4, <1>5, <1>6, <1>7, <1>11, <2>1 DEF Control, Inward
  <2> QED BY <2>2, <2>3
<1>12. Unused' BY <1>1, <1>4, <1>7 DEF Control, Unused
<1>13. /\ \A i \in Others : pc'[i] \in After => pc'[0] \in {"recv_ct", "done"}
       /\ pc'[0] = "done" => pc'[1] = "done"
  <2>1. 1 \in Others /\ 1 # 0 BY DEF Others
  <2>2. pc'[0] = "done" => pc'[1] = "done" BY <1>1, <1>2, <1>5, <1>6, <2>1 DEF Control
  <2> QED BY <1>1, <1>2, <1>5, <1>6, <1>7, <2>2 DEF Control, After
<1>14. RootCause' BY <1>6, <1>7, RootKept DEF Control, TypeOK
<1>15. m_idx' = NoResult <=> pc'[0] # "done" BY <1>2, <1>6, <1>7 DEF Control
<1> QED BY <1>9, <1>10, <1>11, <1>12, <1>13, <1>14, <1>15 DEF Control

LEMMA ControlP0SendPkHE ==
  ASSUME TypeOK, Control, P0SendPkHE, 0 \notin failed
  PROVE  Control'
<1> USE Parties
<1> DEFINE p == peer + 1
<1>1. p \in Others /\ PeerOf(0, peer) = p /\ p = peer + 1 /\ peer \in 0..(tn - 2)
  BY Peers DEF TypeOK
<1> HIDE DEF p
<1>2. pc[0] = "send_pk_HE" /\ GotPk(p) /\ ~SentHE(p) /\ ~GotCTd(p)
  BY <1>1 DEF P0SendPkHE, GotPk, SentHE, GotCTd, Closing
<1>3. Empty(chl_1[<<0, p>>]) BY <1>1, <1>2 DEF Control, FromZero
<1>4. /\ Holds(chl_1'[<<0, p>>], "point") /\ ~Empty(chl_1'[<<0, p>>])
      /\ \A a, b \in Party : a # 0 \/ b # p => chl_1'[<<a, b>>] = chl_1[<<a, b>>]
  <2>1. chl_1 \in Links BY DEF TypeOK, Links
  <2>2. chl_1' = Send(chl_1, 0, peer, PointMsg(pk_HE[0])) BY DEF P0SendPkHE
  <2>3. PointMsg(pk_HE[0]) \in Messages /\ PointMsg(pk_HE[0]).size = "point" BY MessageTypes DEF TypeOK
  <2>4. Holds(chl_1'[<<0, p>>], "point") BY <1>1, <1>3, <2>1, <2>2, <2>3, SendFills
  <2>5. \A a, b \in Party : a # 0 \/ b # p => chl_1'[<<a, b>>] = chl_1[<<a, b>>]
    BY <1>1, <2>1, <2>2 DEF Send, Links
  <2> QED BY <2>4, <2>5, HoldsOrEmpty
<1>5. pc[p] = "recv_pk_HE"
  BY <1>1, <1>2 DEF Control, ToZero, FromZero
<1>6. /\ \A y \in Others : pc'[y] = pc[y]
      /\ \A y \in Party : y # 0 => pc'[y] = pc[y]
      /\ \/ peer < tn - 2 /\ pc'[0] = "send_pk_HE" /\ peer' = peer + 1
         \/ peer = tn - 2 /\ pc'[0] = "recv_ct_d" /\ peer' = 0
  BY LoopProgress DEF P0SendPkHE
<1>7. chl_0' = chl_0 /\ failed' = failed /\ missing' = missing /\ m_idx' = m_idx
  BY DEF P0SendPkHE
<1>8. ASSUME NEW i \in Others
      PROVE  /\ GotPk(i)' <=> GotPk(i)
             /\ SentHE(i)' <=> SentHE(i) \/ i = p
             /\ GotCTd(i)' <=> GotCTd(i)
  BY <1>1, <1>2, <1>6 DEF GotPk, SentHE, GotCTd, Others, Closing
<1>9. ASSUME NEW i \in Others PROVE ToZero(i)'
  BY <1>1, <1>2, <1>4, <1>5, <1>6, <1>7, <1>8 DEF Control, ToZero, Before
<1>10. ASSUME NEW i \in Others PROVE FromZero(i)'
  BY <1>1, <1>2, <1>4, <1>5, <1>6, <1>7, <1>8 DEF Control, FromZero, After
<1>11. ASSUME NEW i \in Others, i # tn - 1 PROVE Outward(i)' /\ Inward(i)'
  <2>1. i + 1 \in Others BY <1>11 DEF Others
  <2>2. Outward(i)'
    BY <1>1, <1>2, <1>4, <1>5, <1>6, <1>7, <1>11, <2>1 DEF Control, Outward, Early, Before, After
  <2>3. Inward(i)'
    BY <1>1, <1>2, <1>4, <1>5, <1>6, <1>7, <1>11, <2>1 DEF Control, Inward
  <2> QED BY <2>2, <2>3
<1>12. Unused' BY <1>1, <1>4, <1>7 DEF Control, Unused
<1>13. /\ \A i \in Others : pc'[i] \in After => pc'[0] \in {"recv_ct", "done"}
       /\ pc'[0] = "done" => pc'[1] = "done"
  <2>1. 1 \in Others /\ 1 # 0 BY DEF Others
  <2>2. pc'[0] = "done" => pc'[1] = "done" BY <1>1, <1>2, <1>5, <1>6, <2>1 DEF Control
  <2> QED BY <1>1, <1>2, <1>5, <1>6, <1>7, <2>2 DEF Control, After
<1>14. RootCause' BY <1>6, <1>7, RootKept DEF Control, TypeOK
<1>15. m_idx' = NoResult <=> pc'[0] # "done" BY <1>2, <1>6, <1>7 DEF Control
<1> QED BY <1>9, <1>10, <1>11, <1>12, <1>13, <1>14, <1>15 DEF Control

LEMMA ControlP0RecvCTd ==
  ASSUME TypeOK, Control, P0RecvCTd, 0 \notin failed
  PROVE  Control'
<1> USE Parties
<1> DEFINE p == peer + 1
<1>1. p \in Others /\ PeerOf(0, peer) = p /\ p = peer + 1 /\ peer \in 0..(tn - 2)
  BY Peers DEF TypeOK
<1> HIDE DEF p
<1>2. pc[0] = "recv_ct_d" /\ GotPk(p) /\ SentHE(p) /\ ~GotCTd(p)
  BY <1>1 DEF P0RecvCTd, GotPk, SentHE, GotCTd, Closing
<1>3. Empty(chl_0[<<p, 0>>]) \/ Holds(chl_0[<<p, 0>>], "cts")
  BY <1>1, <1>2 DEF Control, ToZero, Before, TypeOK
<1>4. /\ Holds(chl_0[<<p, 0>>], "cts") /\ ~Empty(chl_0[<<p, 0>>])
      /\ Empty(chl_0'[<<p, 0>>])
      /\ \A a, b \in Party : a # p \/ b # 0 => chl_0'[<<a, b>>] = chl_0[<<a, b>>]
  <2>1. chl_0 \in Links BY DEF TypeOK, Links
  <2>2. CanRecv(chl_0, 0, peer, "cts") /\ chl_0' = Recv(chl_0, 0, peer) BY DEF P0RecvCTd
  <2>3. Holds(chl_0[<<p, 0>>], "cts") /\ ~Empty(chl_0[<<p, 0>>])
    BY <1>1, <1>3, <2>1, <2>2, RecvEmpties
  <2>4. Empty(chl_0'[<<p, 0>>]) BY <1>1, <1>3, <2>1, <2>2, RecvEmpties
  <2>5. \A a, b \in Party : a # p \/ b # 0 => chl_0'[<<a, b>>] = chl_0[<<a, b>>]
    BY <1>1, <2>1, <2>2 DEF Recv, Links
  <2> QED BY <2>3, <2>4, <2>5
<1>5. pc[p] \notin Before /\ (p # 1 \/ pc[p] # "done")
  BY <1>1, <1>2, <1>4 DEF Control, ToZero, FromZero, Before
<1>6. /\ \A y \in Others : pc'[y] = pc[y]
      /\ \A y \in Party : y # 0 => pc'[y] = pc[y]
      /\ \/ peer < tn - 2 /\ pc'[0] = "recv_ct_d" /\ peer' = peer + 1
         \/ peer = tn - 2 /\ pc'[0] = "send_ct" /\ peer' = 0
  BY LoopProgress DEF P0RecvCTd
<1>7. chl_1' = chl_1 /\ failed' = failed /\ missing' = missing /\ m_idx' = m_idx
  BY DEF P0RecvCTd
<1>8. ASSUME NEW i \in Others
      PROVE  /\ GotPk(i)' <=> GotPk(i)
             /\ SentHE(i)' <=> SentHE(i)
             /\ GotCTd(i)' <=> GotCTd(i) \/ i = p
  BY <1>1, <1>2, <1>6 DEF GotPk, SentHE, GotCTd, Others, Closing
<1>9. ASSUME NEW i \in Others PROVE ToZero(i)'
  BY <1>1, <1>2, <1>4, <1>5, <1>6, <1>7, <1>8 DEF Control, ToZero, Before
<1>10. ASSUME NEW i \in Others PROVE FromZero(i)'
  BY <1>1, <1>2, <1>4, <1>5, <1>6, <1>7, <1>8 DEF Control, FromZero, After
<1>11. ASSUME NEW i \in Others, i # tn - 1 PROVE Outward(i)' /\ Inward(i)'
  <2>1. i + 1 \in Others BY <1>11 DEF Others
  <2>2. Outward(i)'
    BY <1>1, <1>2, <1>4, <1>5, <1>6, <1>7, <1>11, <2>1 DEF Control, Outward, Early, Before, After
  <2>3. Inward(i)'
    BY <1>1, <1>2, <1>4, <1>5, <1>6, <1>7, <1>11, <2>1 DEF Control, Inward
  <2> QED BY <2>2, <2>3
<1>12. Unused' BY <1>1, <1>4, <1>7 DEF Control, Unused
<1>13. /\ \A i \in Others : pc'[i] \in After => pc'[0] \in {"recv_ct", "done"}
       /\ pc'[0] = "done" => pc'[1] = "done"
  <2>1. 1 \in Others /\ 1 # 0 BY DEF Others
  <2>2. pc'[0] = "done" => pc'[1] = "done" BY <1>1, <1>2, <1>5, <1>6, <2>1 DEF Control
  <2> QED BY <1>1, <1>2, <1>5, <1>6, <1>7, <2>2 DEF Control, After
<1>14. RootCause' BY <1>6, <1>7, RootKept DEF Control, TypeOK
<1>15. m_idx' = NoResult <=> pc'[0] # "done" BY <1>2, <1>6, <1>7 DEF Control
<1> QED BY <1>9, <1>10, <1>11, <1>12, <1>13, <1>14, <1>15 DEF Control

LEMMA ControlP0SendCT ==
  ASSUME TypeOK, Control, P0SendCT, 0 \notin failed
  PROVE  Control'
<1> USE Parties
<1>1. 1 \in Others /\ 1 \in Party /\ PeerOf(0, 0) = 1 BY Peers DEF Others
<1>2. pc[0] = "send_ct" /\ \A i \in Others : GotPk(i) /\ SentHE(i) /\ GotCTd(i)
  BY DEF P0SendCT, Goto, GotPk, SentHE, GotCTd, Closing
<1>3. Empty(chl_1[<<0, 1>>]) /\ pc[1] = "recv_ct"
  BY <1>1, <1>2 DEF Control, ToZero, FromZero, Before, After, TypeOK
<1>4. /\ Holds(chl_1'[<<0, 1>>], "cts") /\ ~Empty(chl_1'[<<0, 1>>])
      /\ \A a, b \in Party : a # 0 \/ b # 1 => chl_1'[<<a, b>>] = chl_1[<<a, b>>]
  <2>1. chl_1 \in Links BY DEF TypeOK, Links
  <2>2. chl_1' = Send(chl_1, 0, 0, CTsMsg(ct'[0])) BY DEF P0SendCT
  <2>3. CTsMsg(ct'[0]) \in Messages /\ CTsMsg(ct'[0]).size = "cts" BY TypeStep, MessageTypes DEF TypeOK, Next, P0Step, P0Call
  <2>4. Holds(chl_1'[<<0, 1>>], "cts") BY <1>1, <1>3, <2>1, <2>2, <2>3, SendFills
  <2>5. \A a, b \in Party : a # 0 \/ b # 1 => chl_1'[<<a, b>>] = chl_1[<<a, b>>]
    BY <1>1, <2>1, <2>2 DEF Send, Links
  <2> QED BY <2>4, <2>5, HoldsOrEmpty
<1>5. pc[1] = "recv_ct" BY <1>3
<1>6. /\ pc'[0] = "recv_ct" /\ peer' = peer
      /\ \A y \in Party : y # 0 => pc'[y] = pc[y]
  BY DEF P0SendCT, Goto, TypeOK
<1>7. chl_0' = chl_0 /\ failed' = failed /\ missing' = missing /\ m_idx' = m_idx
  BY DEF P0SendCT
<1>8. ASSUME NEW i \in Others
      PROVE  /\ GotPk(i)' <=> GotPk(i)
             /\ SentHE(i)' <=> SentHE(i)
             /\ GotCTd(i)' <=> GotCTd(i)
  BY <1>1, <1>2, <1>6 DEF GotPk, SentHE, GotCTd, Others, Closing
<1>9. ASSUME NEW i \in Others PROVE ToZero(i)'
  BY <1>1, <1>2, <1>4, <1>5, <1>6, <1>7, <1>8 DEF Control, ToZero, Before
<1>10. ASSUME NEW i \in Others PROVE FromZero(i)'
  BY <1>1, <1>2, <1>4, <1>5, <1>6, <1>7, <1>8 DEF Control, FromZero, After
<1>11. ASSUME NEW i \in Others, i # tn - 1 PROVE Outward(i)' /\ Inward(i)'
  <2>1. i + 1 \in Others BY <1>11 DEF Others
  <2>2. Outward(i)'
    BY <1>1, <1>2, <1>4, <1>5, <1>6, <1>7, <1>11, <2>1 DEF Control, Outward, Early, Before, After
  <2>3. Inward(i)'
    BY <1>1, <1>2, <1>4, <1>5, <1>6, <1>7, <1>11, <2>1 DEF Control, Inward
  <2> QED BY <2>2, <2>3
<1>12. Unused' BY <1>1, <1>4, <1>7 DEF Control, Unused
<1>13. /\ \A i \in Others : pc'[i] \in After => pc'[0] \in {"recv_ct", "done"}
       /\ pc'[0] = "done" => pc'[1] = "done"
  <2>1. 1 \in Others /\ 1 # 0 BY DEF Others
  <2>2. pc'[0] = "done" => pc'[1] = "done" BY <1>1, <1>2, <1>5, <1>6, <2>1 DEF Control
  <2> QED BY <1>1, <1>2, <1>5, <1>6, <1>7, <2>2 DEF Control, After
<1>14. RootCause' BY <1>6, <1>7, RootKept DEF Control, TypeOK
<1>15. m_idx' = NoResult <=> pc'[0] # "done" BY <1>2, <1>6, <1>7 DEF Control
<1> QED BY <1>9, <1>10, <1>11, <1>12, <1>13, <1>14, <1>15 DEF Control

LEMMA ControlP0RecvCT ==
  ASSUME TypeOK, Control, P0RecvCT, 0 \notin failed
  PROVE  Control'
<1> USE Parties
<1>1. 1 \in Others /\ 1 \in Party /\ PeerOf(0, 0) = 1 BY Peers DEF Others
<1>2. pc[0] = "recv_ct" /\ \A i \in Others : GotPk(i) /\ SentHE(i) /\ GotCTd(i)
  BY DEF P0RecvCT, Goto, GotPk, SentHE, GotCTd, Closing
<1>3. Empty(chl_0[<<1, 0>>]) \/ Holds(chl_0[<<1, 0>>], "cts")
  BY <1>1, <1>2 DEF Control, ToZero
<1>4. /\ Holds(chl_0[<<1, 0>>], "cts") /\ ~Empty(chl_0[<<1, 0>>])
      /\ Empty(chl_0'[<<1, 0>>])
      /\ \A a, b \in Party : a # 1 \/ b # 0 => chl_0'[<<a, b>>] = chl_0[<<a, b>>]
  <2>1. chl_0 \in Links BY DEF TypeOK, Links
  <2>2. CanRecv(chl_0, 0, 0, "cts") /\ chl_0' = Recv(chl_0, 0, 0) BY DEF P0RecvCT
  <2>3. Holds(chl_0[<<1, 0>>], "cts") /\ ~Empty(chl_0[<<1, 0>>])
    BY <1>1, <1>3, <2>1, <2>2, RecvEmpties
  <2>4. Empty(chl_0'[<<1, 0>>]) BY <1>1, <1>3, <2>1, <2>2, RecvEmpties
  <2>5. \A a, b \in Party : a # 1 \/ b # 0 => chl_0'[<<a, b>>] = chl_0[<<a, b>>]
    BY <1>1, <2>1, <2>2 DEF Recv, Links
  <2> QED BY <2>3, <2>4, <2>5
<1>5. pc[1] = "done"
  BY <1>1, <1>2, <1>4 DEF Control, ToZero, Before
<1>6. /\ pc'[0] = "done" /\ peer' = peer
      /\ \A y \in Party : y # 0 => pc'[y] = pc[y]
  BY DEF P0RecvCT, Goto, TypeOK
<1>7. chl_1' = chl_1 /\ failed' = failed /\ missing' = missing
  BY DEF P0RecvCT
<1>8. ASSUME NEW i \in Others
      PROVE  /\ GotPk(i)' <=> GotPk(i)
             /\ SentHE(i)' <=> SentHE(i)
             /\ GotCTd(i)' <=> GotCTd(i)
  BY <1>1, <1>2, <1>6 DEF GotPk, SentHE, GotCTd, Others, Closing
<1>9. ASSUME NEW i \in Others PROVE ToZero(i)'
  BY <1>1, <1>2, <1>4, <1>5, <1>6, <1>7, <1>8 DEF Control, ToZero, Before
<1>10. ASSUME NEW i \in Others PROVE FromZero(i)'
  BY <1>1, <1>2, <1>4, <1>5, <1>6, <1>7, <1>8 DEF Control, FromZero, After
<1>11. ASSUME NEW i \in Others, i # tn - 1 PROVE Outward(i)' /\ Inward(i)'
  <2>1. i + 1 \in Others BY <1>11 DEF Others
  <2>2. Outward(i)'
    BY <1>1, <1>2, <1>4, <1>5, <1>6, <1>7, <1>11, <2>1 DEF Control, Outward, Early, Before, After
  <2>3. Inward(i)'
    BY <1>1, <1>2, <1>4, <1>5, <1>6, <1>7, <1>11, <2>1 DEF Control, Inward
  <2> QED BY <2>2, <2>3
<1>12. Unused' BY <1>1, <1>4, <1>7 DEF Control, Unused
<1>13. /\ \A i \in Others : pc'[i] \in After => pc'[0] \in {"recv_ct", "done"}
       /\ pc'[0] = "done" => pc'[1] = "done"
  <2>1. 1 \in Others /\ 1 # 0 BY DEF Others
  <2>2. pc'[0] = "done" => pc'[1] = "done" BY <1>1, <1>2, <1>5, <1>6, <2>1 DEF Control
  <2> QED BY <1>1, <1>2, <1>5, <1>6, <1>7, <2>2 DEF Control, After
<1>14. RootCause' BY <1>6, <1>7, RootKept DEF Control, TypeOK
<1>15. m_idx' = NoResult <=> pc'[0] # "done"
  <2>1. m_idx' \in SUBSET Bins BY DEF P0RecvCT
  <2> QED BY <1>6, <2>1, JPEQTAssumption DEF Bins
<1> QED BY <1>9, <1>10, <1>11, <1>12, <1>13, <1>14, <1>15 DEF Control

LEMMA ControlSendPk ==
  ASSUME TypeOK, Control, NEW idx \in Others, SendPk(idx), idx \notin failed
  PROVE  Control'
<1> USE Parties
<1>1. idx \in Party /\ PeerOf(idx, 0) = 0 BY Peers
<1>2. pc[idx] = "send_pk" BY DEF SendPk, Goto
<1>3. Empty(chl_0[<<idx, 0>>]) /\ ~GotPk(idx) BY <1>2 DEF Control, ToZero
<1>4. /\ Holds(chl_0'[<<idx, 0>>], "point") /\ ~Empty(chl_0'[<<idx, 0>>])
      /\ \A a, b \in Party : a # idx \/ b # 0 => chl_0'[<<a, b>>] = chl_0[<<a, b>>]
  <2>1. chl_0 \in Links BY DEF TypeOK, Links
  <2>2. chl_0' = Send(chl_0, idx, 0, PointMsg(sk[idx])) BY DEF SendPk
  <2>3. PointMsg(sk[idx]) \in Messages /\ PointMsg(sk[idx]).size = "point" BY MessageTypes, JPEQTAssumption DEF TypeOK
  <2>4. Holds(chl_0'[<<idx, 0>>], "point") BY <1>1, <1>3, <2>1, <2>2, <2>3, SendFills
  <2>5. \A a, b \in Party : a # idx \/ b # 0 => chl_0'[<<a, b>>] = chl_0[<<a, b>>]
    BY <1>1, <2>1, <2>2 DEF Send, Links
  <2> QED BY <2>4, <2>5, HoldsOrEmpty
<1>5. ~SentHE(idx) /\ ~GotCTd(idx) /\ pc[0] = "recv_pk"
  BY <1>3 DEF GotPk, SentHE, GotCTd, Closing
<1>6. /\ pc'[idx] = "recv_pk_HE" /\ peer' = peer
      /\ \A y \in Party : y # idx => pc'[y] = pc[y]
  BY DEF SendPk, Goto, TypeOK
<1>7. chl_1' = chl_1 /\ failed' = failed /\ missing' = missing /\ m_idx' = m_idx
  BY DEF SendPk
<1>8. ASSUME NEW i \in Others
      PROVE  /\ GotPk(i)' <=> GotPk(i)
             /\ SentHE(i)' <=> SentHE(i)
             /\ GotCTd(i)' <=> GotCTd(i)
  BY <1>1, <1>2, <1>6 DEF GotPk, SentHE, GotCTd, Others, Closing
<1>9. ASSUME NEW i \in Others PROVE ToZero(i)'
  BY <1>1, <1>2, <1>4, <1>5, <1>6, <1>7, <1>8 DEF Control, ToZero, Before
<1>10. ASSUME NEW i \in Others PROVE FromZero(i)'
  BY <1>1, <1>2, <1>4, <1>5, <1>6, <1>7, <1>8 DEF Control, FromZero, After
<1>11. ASSUME NEW i \in Others, i # tn - 1 PROVE Outward(i)' /\ Inward(i)'
  <2>1. i + 1 \in Others BY <1>11 DEF Others
  <2>2. Outward(i)'
    BY <1>1, <1>2, <1>4, <1>5, <1>6, <1>7, <1>11, <2>1 DEF Control, Outward, Early, Before, After
  <2>3. Inward(i)'
    BY <1>1, <1>2, <1>4, <1>5, <1>6, <1>7, <1>11, <2>1 DEF Control, Inward
  <2> QED BY <2>2, <2>3
<1>12. Unused' BY <1>1, <1>4, <1>7 DEF Control, Unused
<1>13. /\ \A i \in Others : pc'[i] \in After => pc'[0] \in {"recv_ct", "done"}
       /\ pc'[0] = "done" => pc'[1] = "done"
  <2>1. 1 \in Others /\ 1 # 0 BY DEF Others
  <2>2. pc'[0] = "done" => pc'[1] = "done" BY <1>1, <1>2, <1>5, <1>6, <2>1 DEF Control
  <2> QED BY <1>1, <1>2, <1>5, <1>6, <1>7, <2>2 DEF Control, After
<1>14. RootCause' BY <1>6, <1>7, RootKept DEF Control, TypeOK
<1>15. m_idx' = NoResult <=> pc'[0] # "done" BY <1>2, <1>6, <1>7 DEF Control
<1> QED BY <1>9, <1>10, <1>11, <1>12, <1>13, <1>14, <1>15 DEF Control

LEMMA ControlRecvPkHE ==
  ASSUME TypeOK, Control, NEW idx \in Others, RecvPkHE(idx), idx \notin failed
  PROVE  Control'
<1> USE Parties
<1>1. idx \in Party /\ PeerOf(idx, 0) = 0 BY Peers
<1>2. pc[idx] = "recv_pk_HE" BY DEF RecvPkHE, Goto
<1>3. Empty(chl_1[<<0, idx>>]) \/ Holds(chl_1[<<0, idx>>], "point")
  BY <1>2 DEF Control, FromZero
<1>4. /\ Holds(chl_1[<<0, idx>>], "point") /\ ~Empty(chl_1[<<0, idx>>])
      /\ Empty(chl_1'[<<0, idx>>])
      /\ \A a, b \in Party : a # 0 \/ b # idx => chl_1'[<<a, b>>] = chl_1[<<a, b>>]
  <2>1. chl_1 \in Links BY DEF TypeOK, Links
  <2>2. CanRecv(chl_1, idx, 0, "point") /\ chl_1' = Recv(chl_1, idx, 0) BY DEF RecvPkHE
  <2>3. Holds(chl_1[<<0, idx>>], "point") /\ ~Empty(chl_1[<<0, idx>>])
    BY <1>1, <1>3, <2>1, <2>2, RecvEmpties
  <2>4. Empty(chl_1'[<<0, idx>>]) BY <1>1, <1>3, <2>1, <2>2, RecvEmpties
  <2>5. \A a, b \in Party : a # 0 \/ b # idx => chl_1'[<<a, b>>] = chl_1[<<a, b>>]
    BY <1>1, <2>1, <2>2 DEF Recv, Links
  <2> QED BY <2>3, <2>4, <2>5
<1>5. SentHE(idx) /\ GotPk(idx) /\ ~GotCTd(idx) /\ Empty(chl_0[<<idx, 0>>])
      /\ (idx = 1 => pc[0] \notin {"recv_ct", "done"})
  BY <1>2, <1>4 DEF Control, FromZero, ToZero, Before, After, GotPk, SentHE, Closing
<1>6. /\ pc'[idx] = "send_ct_d" /\ peer' = peer
      /\ \A y \in Party : y # idx => pc'[y] = pc[y]
  BY DEF RecvPkHE, Goto, TypeOK
<1>7. chl_0' = chl_0 /\ failed' = failed /\ missing' = missing /\ m_idx' = m_idx
  BY DEF RecvPkHE
<1>8. ASSUME NEW i \in Others
      PROVE  /\ GotPk(i)' <=> GotPk(i)
             /\ SentHE(i)' <=> SentHE(i)
             /\ GotCTd(i)' <=> GotCTd(i)
  BY <1>1, <1>2, <1>6 DEF GotPk, SentHE, GotCTd, Others, Closing
<1>9. ASSUME NEW i \in Others PROVE ToZero(i)'
  BY <1>1, <1>2, <1>4, <1>5, <1>6, <1>7, <1>8 DEF Control, ToZero, Before
<1>10. ASSUME NEW i \in Others PROVE FromZero(i)'
  BY <1>1, <1>2, <1>4, <1>5, <1>6, <1>7, <1>8 DEF Control, FromZero, After
<1>11. ASSUME NEW i \in Others, i # tn - 1 PROVE Outward(i)' /\ Inward(i)'
  <2>1. i + 1 \in Others BY <1>11 DEF Others
  <2>2. Outward(i)'
    BY <1>1, <1>2, <1>4, <1>5, <1>6, <1>7, <1>11, <2>1 DEF Control, Outward, Early, Before, After
  <2>3. Inward(i)'
    BY <1>1, <1>2, <1>4, <1>5, <1>6, <1>7, <1>11, <2>1 DEF Control, Inward
  <2> QED BY <2>2, <2>3
<1>12. Unused' BY <1>1, <1>4, <1>7 DEF Control, Unused
<1>13. /\ \A i \in Others : pc'[i] \in After => pc'[0] \in {"recv_ct", "done"}
       /\ pc'[0] = "done" => pc'[1] = "done"
  <2>1. 1 \in Others /\ 1 # 0 BY DEF Others
  <2>2. pc'[0] = "done" => pc'[1] = "done" BY <1>1, <1>2, <1>5, <1>6, <2>1 DEF Control
  <2> QED BY <1>1, <1>2, <1>5, <1>6, <1>7, <2>2 DEF Control, After
<1>14. RootCause' BY <1>6, <1>7, RootKept DEF Control, TypeOK
<1>15. m_idx' = NoResult <=> pc'[0] # "done" BY <1>2, <1>6, <1>7 DEF Control
<1> QED BY <1>9, <1>10, <1>11, <1>12, <1>13, <1>14, <1>15 DEF Control

LEMMA ControlSendCTd ==
  ASSUME TypeOK, Control, NEW idx \in Others, SendCTd(idx), idx \notin failed
  PROVE  Control'
<1> USE Parties
<1>1. idx \in Party /\ PeerOf(idx, 0) = 0 BY Peers
<1>2. pc[idx] = "send_ct_d" BY DEF SendCTd, Goto
<1>3. Empty(chl_0[<<idx, 0>>]) /\ SentHE(idx) /\ ~GotCTd(idx) /\ Empty(chl_1[<<0, idx>>])
  BY <1>2 DEF Control, ToZero, FromZero, Before
<1>4. /\ Holds(chl_0'[<<idx, 0>>], "cts") /\ ~Empty(chl_0'[<<idx, 0>>])
      /\ \A a, b \in Party : a # idx \/ b # 0 => chl_0'[<<a, b>>] = chl_0[<<a, b>>]
  <2>1. chl_0 \in Links BY DEF TypeOK, Links
  <2>2. chl_0' = Send(chl_0, idx, 0, CTsMsg(ct'[idx])) BY DEF SendCTd
  <2>3. CTsMsg(ct'[idx]) \in Messages /\ CTsMsg(ct'[idx]).size = "cts" BY TypeStep, MessageTypes DEF TypeOK, Next, PartyStep, Call
  <2>4. Holds(chl_0'[<<idx, 0>>], "cts") BY <1>1, <1>3, <2>1, <2>2, <2>3, SendFills
  <2>5. \A a, b \in Party : a # idx \/ b # 0 => chl_0'[<<a, b>>] = chl_0[<<a, b>>]
    BY <1>1, <2>1, <2>2 DEF Send, Links
  <2> QED BY <2>4, <2>5, HoldsOrEmpty
<1>5. GotPk(idx) /\ pc[0] \notin {"recv_ct", "done"}
  BY <1>3 DEF GotPk, SentHE, GotCTd, Closing
<1>6. /\ pc'[idx] = "recv_ct" /\ peer' = peer
      /\ \A y \in Party : y # idx => pc'[y] = pc[y]
  BY DEF SendCTd, Goto, TypeOK
<1>7. chl_1' = chl_1 /\ failed' = failed /\ missing' = missing /\ m_idx' = m_idx
  BY DEF SendCTd
<1>8. ASSUME NEW i \in Others
      PROVE  /\ GotPk(i)' <=> GotPk(i)
             /\ SentHE(i)' <=> SentHE(i)
             /\ GotCTd(i)' <=> GotCTd(i)
  BY <1>1, <1>2, <1>6 DEF GotPk, SentHE, GotCTd, Others, Closing
<1>9. ASSUME NEW i \in Others PROVE ToZero(i)'
  BY <1>1, <1>2, <1>4, <1>5, <1>6, <1>7, <1>8 DEF Control, ToZero, Before
<1>10. ASSUME NEW i \in Others PROVE FromZero(i)'
  BY <1>1, <1>2, <1>4, <1>5, <1>6, <1>7, <1>8 DEF Control, FromZero, After
<1>11. ASSUME NEW i \in Others, i # tn - 1 PROVE Outward(i)' /\ Inward(i)'
  <2>1. i + 1 \in Others BY <1>11 DEF Others
  <2>2. Outward(i)'
    BY <1>1, <1>2, <1>4, <1>5, <1>6, <1>7, <1>11, <2>1 DEF Control, Outward, Early, Before, After
  <2>3. Inward(i)'
    BY <1>1, <1>2, <1>4, <1>5, <1>6, <1>7, <1>11, <2>1 DEF Control, Inward
  <2> QED BY <2>2, <2>3
<1>12. Unused' BY <1>1, <1>4, <1>7 DEF Control, Unused
<1>13. /\ \A i \in Others : pc'[i] \in After => pc'[0] \in {"recv_ct", "done"}
       /\ pc'[0] = "done" => pc'[1] = "done"
  <2>1. 1 \in Others /\ 1 # 0 BY DEF Others
  <2>2. pc'[0] = "done" => pc'[1] = "done" BY <1>1, <1>2, <1>5, <1>6, <2>1 DEF Control
  <2> QED BY <1>1, <1>2, <1>5, <1>6, <1>7, <2>2 DEF Control, After
<1>14. RootCause' BY <1>6, <1>7, RootKept DEF Control, TypeOK
<1>15. m_idx' = NoResult <=> pc'[0] # "done" BY <1>2, <1>6, <1>7 DEF Control
<1> QED BY <1>9, <1>10, <1>11, <1>12, <1>13, <1>14, <1>15 DEF Control

LEMMA ControlRecvCT ==
  ASSUME TypeOK, Control, NEW idx \in Others, RecvCT(idx), idx \notin failed
  PROVE  Control'
<1> USE Parties
<1>1. idx \in Party /\ PeerOf(idx, idx - 1) = idx - 1 /\ idx - 1 \in Party BY Peers
<1>2. pc[idx] = "recv_ct" BY DEF RecvCT, Goto
<1>3. Empty(chl_1[<<idx - 1, idx>>]) \/ Holds(chl_1[<<idx - 1, idx>>], "cts")
  <2>1. CASE idx = 1 BY <1>2, <2>1 DEF Control, FromZero
  <2>2. CASE idx # 1
    <3>1. idx - 1 \in Others /\ idx - 1 # tn - 1 /\ idx - 1 + 1 = idx BY <2>2 DEF Others
    <3> QED BY <1>2, <3>1 DEF Control, Outward
  <2> QED BY <2>1, <2>2
<1>4. /\ Holds(chl_1[<<idx - 1, idx>>], "cts") /\ ~Empty(chl_1[<<idx - 1, idx>>])
      /\ Empty(chl_1'[<<idx - 1, idx>>])
      /\ \A a, b \in Party : a # idx - 1 \/ b # idx => chl_1'[<<a, b>>] = chl_1[<<a, b>>]
  <2>1. chl_1 \in Links BY DEF TypeOK, Links
  <2>2. CanRecv(chl_1, idx, idx - 1, "cts") /\ chl_1' = Recv(chl_1, idx, idx - 1) BY DEF RecvCT
  <2>3. Holds(chl_1[<<idx - 1, idx>>], "cts") /\ ~Empty(chl_1[<<idx - 1, idx>>])
    BY <1>1, <1>3, <2>1, <2>2, RecvEmpties
  <2>4. Empty(chl_1'[<<idx - 1, idx>>]) BY <1>1, <1>3, <2>1, <2>2, RecvEmpties
  <2>5. \A a, b \in Party : a # idx - 1 \/ b # idx => chl_1'[<<a, b>>] = chl_1[<<a, b>>]
    BY <1>1, <2>1, <2>2 DEF Recv, Links
  <2> QED BY <2>3, <2>4, <2>5
<1>5. pc[0] \in {"recv_ct", "done"} /\ (idx = 1 => pc[0] # "done")
  <2>1. CASE idx = 1 BY <1>2, <1>4, <2>1 DEF Control, FromZero
  <2>2. CASE idx # 1
    <3>1. idx - 1 \in Others /\ idx - 1 # tn - 1 /\ idx - 1 + 1 = idx BY <2>2 DEF Others
    <3>2. pc[idx - 1] \in {"recv_back", "send_back", "done"}
      BY <1>2, <1>4, <3>1 DEF Control, Outward
    <3>3. pc[idx - 1] # "done" /\ pc[idx - 1] # "send_back"
      BY <1>2, <3>1, <3>2 DEF Control, Inward
    <3> QED BY <3>1, <3>2 DEF Control, After
  <2> QED BY <2>1, <2>2
<1>6. /\ pc'[idx] = (IF idx = tn - 1 THEN "send_back" ELSE "send_on") /\ peer' = peer
      /\ \A y \in Party : y # idx => pc'[y] = pc[y]
  BY DEF RecvCT, Goto, TypeOK
<1>7. chl_0' = chl_0 /\ failed' = failed /\ missing' = missing /\ m_idx' = m_idx
  BY DEF RecvCT
<1>8. ASSUME NEW i \in Others
      PROVE  /\ GotPk(i)' <=> GotPk(i)
             /\ SentHE(i)' <=> SentHE(i)
             /\ GotCTd(i)' <=> GotCTd(i)
  BY <1>1, <1>2, <1>6 DEF GotPk, SentHE, GotCTd, Others, Closing
<1>9. ASSUME NEW i \in Others PROVE ToZero(i)'
  BY <1>1, <1>2, <1>4, <1>5, <1>6, <1>7, <1>8 DEF Control, ToZero, Before
<1>10. ASSUME NEW i \in Others PROVE FromZero(i)'
  BY <1>1, <1>2, <1>4, <1>5, <1>6, <1>7, <1>8 DEF Control, FromZero, After
<1>11. ASSUME NEW i \in Others, i # tn - 1 PROVE Outward(i)' /\ Inward(i)'
  <2>1. i + 1 \in Others BY <1>11 DEF Others
  <2>2. Outward(i)'
    BY <1>1, <1>2, <1>4, <1>5, <1>6, <1>7, <1>11, <2>1 DEF Control, Outward, Early, Before, After
  <2>3. Inward(i)'
    BY <1>1, <1>2, <1>4, <1>5, <1>6, <1>7, <1>11, <2>1 DEF Control, Inward
  <2> QED BY <2>2, <2>3
<1>12. Unused' BY <1>1, <1>4, <1>7 DEF Control, Unused
<1>13. /\ \A i \in Others : pc'[i] \in After => pc'[0] \in {"recv_ct", "done"}
       /\ pc'[0] = "done" => pc'[1] = "done"
  <2>1. 1 \in Others /\ 1 # 0 BY DEF Others
  <2>2. pc'[0] = "done" => pc'[1] = "done" BY <1>1, <1>2, <1>5, <1>6, <2>1 DEF Control
  <2> QED BY <1>1, <1>2, <1>5, <1>6, <1>7, <2>2 DEF Control, After
<1>14. RootCause' BY <1>6, <1>7, RootKept DEF Control, TypeOK
<1>15. m_idx' = NoResult <=> pc'[0] # "done" BY <1>2, <1>6, <1>7 DEF Control
<1> QED BY <1>9, <1>10, <1>11, <1>12, <1>13, <1>14, <1>15 DEF Control

LEMMA ControlSendOn ==
  ASSUME TypeOK, Control, NEW idx \in Others, SendOn(idx), idx \notin failed
  PROVE  Control'
<1> USE Parties
<1>0. idx # tn - 1 BY DEF SendOn, Goto, TypeOK
<1>1. idx \in Party /\ PeerOf(idx, idx) = idx + 1 /\ idx + 1 \in Others /\ idx + 1 \in Party
  BY <1>0, Peers DEF Others
<1>2. pc[idx] = "send_on" BY DEF SendOn, Goto
<1>3. Empty(chl_1[<<idx, idx + 1>>]) /\ pc[idx + 1] \in Early
  BY <1>0, <1>2 DEF Control, Outward
<1>4. /\ Holds(chl_1'[<<idx, idx + 1>>], "cts") /\ ~Empty(chl_1'[<<idx, idx + 1>>])
      /\ \A a, b \in Party : a # idx \/ b # idx + 1 => chl_1'[<<a, b>>] = chl_1[<<a, b>>]
  <2>1. chl_1 \in Links BY DEF TypeOK, Links
  <2>2. chl_1' = Send(chl_1, idx, idx, CTsMsg(ct[idx])) BY DEF SendOn
  <2>3. CTsMsg(ct[idx]) \in Messages /\ CTsMsg(ct[idx]).size = "cts" BY MessageTypes DEF TypeOK
  <2>4. Holds(chl_1'[<<idx, idx + 1>>], "cts") BY <1>1, <1>3, <2>1, <2>2, <2>3, SendFills
  <2>5. \A a, b \in Party : a # idx \/ b # idx + 1 => chl_1'[<<a, b>>] = chl_1[<<a, b>>]
    BY <1>1, <2>1, <2>2 DEF Send, Links
  <2> QED BY <2>4, <2>5, HoldsOrEmpty
<1>5. pc[idx + 1] = "recv_ct" /\ pc[0] \in {"recv_ct", "done"} /\ (idx = 1 => pc[0] # "done")
  <2>1. pc[0] \in {"recv_ct", "done"} BY <1>2 DEF Control, After
  <2>2. GotCTd(idx + 1) BY <2>1 DEF GotCTd, Closing
  <2>3. pc[idx + 1] \notin Before BY <1>1, <2>2 DEF Control, ToZero
  <2> QED BY <1>2, <1>3, <2>1, <2>3 DEF Control, Early
<1>6. /\ pc'[idx] = "recv_back" /\ peer' = peer
      /\ \A y \in Party : y # idx => pc'[y] = pc[y]
  BY DEF SendOn, Goto, TypeOK
<1>7. chl_0' = chl_0 /\ failed' = failed /\ missing' = missing /\ m_idx' = m_idx
  BY DEF SendOn
<1>8. ASSUME NEW i \in Others
      PROVE  /\ GotPk(i)' <=> GotPk(i)
             /\ SentHE(i)' <=> SentHE(i)
             /\ GotCTd(i)' <=> GotCTd(i)
  BY <1>1, <1>2, <1>6 DEF GotPk, SentHE, GotCTd, Others, Closing
<1>9. ASSUME NEW i \in Others PROVE ToZero(i)'
  BY <1>1, <1>2, <1>4, <1>5, <1>6, <1>7, <1>8 DEF Control, ToZero, Before
<1>10. ASSUME NEW i \in Others PROVE FromZero(i)'
  BY <1>1, <1>2, <1>4, <1>5, <1>6, <1>7, <1>8 DEF Control, FromZero, After
<1>11. ASSUME NEW i \in Others, i # tn - 1 PROVE Outward(i)' /\ Inward(i)'
  <2>1. i + 1 \in Others BY <1>11 DEF Others
  <2>2. Outward(i)'
    BY <1>1, <1>2, <1>4, <1>5, <1>6, <1>7, <1>11, <2>1 DEF Control, Outward, Early, Before, After
  <2>3. Inward(i)'
    BY <1>1, <1>2, <1>4, <1>5, <1>6, <1>7, <1>11, <2>1 DEF Control, Inward
  <2> QED BY <2>2, <2>3
<1>12. Unused' BY <1>1, <1>4, <1>7 DEF Control, Unused
<1>13. /\ \A i \in Others : pc'[i] \in After => pc'[0] \in {"recv_ct", "done"}
       /\ pc'[0] = "done" => pc'[1] = "done"
  <2>1. 1 \in Others /\ 1 # 0 BY DEF Others
  <2>2. pc'[0] = "done" => pc'[1] = "done" BY <1>1, <1>2, <1>5, <1>6, <2>1 DEF Control
  <2> QED BY <1>1, <1>2, <1>5, <1>6, <1>7, <2>2 DEF Control, After
<1>14. RootCause' BY <1>6, <1>7, RootKept DEF Control, TypeOK
<1>15. m_idx' = NoResult <=> pc'[0] # "done" BY <1>2, <1>6, <1>7 DEF Control
<1> QED BY <1>9, <1>10, <1>11, <1>12, <1>13, <1>14, <1>15 DEF Control

LEMMA ControlRecvBack ==
  ASSUME TypeOK, Control, NEW idx \in Others, RecvBack(idx), idx \notin failed
  PROVE  Control'
<1> USE Parties
<1>0. idx # tn - 1 BY DEF RecvBack, Goto, TypeOK
<1>1. idx \in Party /\ PeerOf(idx, idx) = idx + 1 /\ idx + 1 \in Others /\ idx + 1 \in Party
  BY <1>0, Peers DEF Others
<1>2. pc[idx] = "recv_back" BY DEF RecvBack, Goto
<1>3. Empty(chl_0[<<idx + 1, idx>>]) \/ Holds(chl_0[<<idx + 1, idx>>], "cts")
  BY <1>0, <1>2 DEF Control, Inward
<1>4. /\ Holds(chl_0[<<idx + 1, idx>>], "cts") /\ ~Empty(chl_0[<<idx + 1, idx>>])
      /\ Empty(chl_0'[<<idx + 1, idx>>])
      /\ \A a, b \in Party : a # idx + 1 \/ b # idx => chl_0'[<<a, b>>] = chl_0[<<a, b>>]
  <2>1. chl_0 \in Links BY DEF TypeOK, Links
  <2>2. CanRecv(chl_0, idx, idx, "cts") /\ chl_0' = Recv(chl_0, idx, idx) BY DEF RecvBack
  <2>3. Holds(chl_0[<<idx + 1, idx>>], "cts") /\ ~Empty(chl_0[<<idx + 1, idx>>])
    BY <1>1, <1>3, <2>1, <2>2, RecvEmpties
  <2>4. Empty(chl_0'[<<idx + 1, idx>>]) BY <1>1, <1>3, <2>1, <2>2, RecvEmpties
  <2>5. \A a, b \in Party : a # idx + 1 \/ b # idx => chl_0'[<<a, b>>] = chl_0[<<a, b>>]
    BY <1>1, <2>1, <2>2 DEF Recv, Links
  <2> QED BY <2>3, <2>4, <2>5
<1>5. pc[idx + 1] = "done" /\ pc[0] \in {"recv_ct", "done"} /\ (idx = 1 => pc[0] # "done")
  <2>1. pc[0] \in {"recv_ct", "done"} BY <1>2 DEF Control, After
  <2> QED BY <1>0, <1>2, <1>4, <2>1 DEF Control, Inward
<1>6. /\ pc'[idx] = "send_back" /\ peer' = peer
      /\ \A y \in Party : y # idx => pc'[y] = pc[y]
  BY DEF RecvBack, Goto, TypeOK
<1>7. chl_1' = chl_1 /\ failed' = failed /\ missing' = missing /\ m_idx' = m_idx
  BY DEF RecvBack
<1>8. ASSUME NEW i \in Others
      PROVE  /\ GotPk(i)' <=> GotPk(i)
             /\ SentHE(i)' <=> SentHE(i)
             /\ GotCTd(i)' <=> GotCTd(i)
  BY <1>1, <1>2, <1>6 DEF GotPk, SentHE, GotCTd, Others, Closing
<1>9. ASSUME NEW i \in Others PROVE ToZero(i)'
  BY <1>1, <1>2, <1>4, <1>5, <1>6, <1>7, <1>8 DEF Control, ToZero, Before
<1>10. ASSUME NEW i \in Others PROVE FromZero(i)'
  BY <1>1, <1>2, <1>4, <1>5, <1>6, <1>7, <1>8 DEF Control, FromZero, After
<1>11. ASSUME NEW i \in Others, i # tn - 1 PROVE Outward(i)' /\ Inward(i)'
  <2>1. i + 1 \in Others BY <1>11 DEF Others
  <2>2. Outward(i)'
    BY <1>1, <1>2, <1>4, <1>5, <1>6, <1>7, <1>11, <2>1 DEF Control, Outward, Early, Before, After
  <2>3. Inward(i)'
    BY <1>1, <1>2, <1>4, <1>5, <1>6, <1>7, <1>11, <2>1 DEF Control, Inward
  <2> QED BY <2>2, <2>3
<1>12. Unused' BY <1>1, <1>4, <1>7 DEF Control, Unused
<1>13. /\ \A i \in Others : pc'[i] \in After => pc'[0] \in {"recv_ct", "done"}
       /\ pc'[0] = "done" => pc'[1] = "done"
  <2>1. 1 \in Others /\ 1 # 0 BY DEF Others
  <2>2. pc'[0] = "done" => pc'[1] = "done" BY <1>1, <1>2, <1>5, <1>6, <2>1 DEF Control
  <2> QED BY <1>1, <1>2, <1>5, <1>6, <1>7, <2>2 DEF Control, After
<1>14. RootCause' BY <1>6, <1>7, RootKept DEF Control, TypeOK
<1>15. m_idx' = NoResult <=> pc'[0] # "done" BY <1>2, <1>6, <1>7 DEF Control
<1> QED BY <1>9, <1>10, <1>11, <1>12, <1>13, <1>14, <1>15 DEF Control

LEMMA ControlSendBack ==
  ASSUME TypeOK, Control, NEW idx \in Others, SendBack(idx), idx \notin failed
  PROVE  Control'
<1> USE Parties
<1>1. idx \in Party /\ PeerOf(idx, idx - 1) = idx - 1 /\ idx - 1 \in Party BY Peers
<1>2. pc[idx] = "send_back" BY DEF SendBack, Goto
<1>z. pc[0] \in {"recv_ct", "done"} BY <1>2 DEF Control, After
<1>a. ASSUME idx = 1
      PROVE  /\ pc[0] = "recv_ct" /\ Empty(chl_0[<<idx, 0>>])
             /\ idx - 1 = 0
  <2>1. pc[0] = "recv_ct" BY <1>2, <1>a, <1>z DEF Control
  <2>2. GotCTd(idx) BY <2>1 DEF GotCTd, Closing
  <2>3. pc[idx] \notin Before BY <1>2 DEF Before
  <2>4. ToZero(idx) BY DEF Control
  <2>5. Empty(chl_0[<<idx, 0>>]) BY <1>2, <2>2, <2>3, <2>4 DEF ToZero
  <2> QED BY <1>a, <2>1, <2>5
<1>b. ASSUME idx # 1
      PROVE  /\ idx - 1 \in Others /\ idx - 1 # tn - 1 /\ idx - 1 + 1 = idx
             /\ Empty(chl_0[<<idx, idx - 1>>]) /\ pc[idx - 1] = "recv_back"
  <2>1. idx - 1 \in Others /\ idx - 1 # tn - 1 /\ idx - 1 + 1 = idx BY <1>b DEF Others
  <2>2. Outward(idx - 1) /\ Inward(idx - 1) BY <2>1 DEF Control
  <2>3. pc[idx - 1] \in {"recv_back", "send_back", "done"}
    BY <1>2, <2>1, <2>2 DEF Outward, Early, Before
  <2>4. Empty(chl_0[<<idx, idx - 1>>]) /\ pc[idx - 1] \notin {"send_back", "done"}
    BY <1>2, <2>1, <2>2 DEF Inward
  <2> QED BY <2>1, <2>3, <2>4
<1>c. ASSUME idx # tn - 1
      PROVE  idx + 1 \in Others /\ pc[idx + 1] = "done"
  <2>1. idx + 1 \in Others BY <1>c DEF Others
  <2>2. Inward(idx) BY <1>c DEF Control
  <2> QED BY <1>2, <2>1, <2>2 DEF Inward
<1>3. /\ Empty(chl_0[<<idx, idx - 1>>]) /\ pc[0] \in {"recv_ct", "done"}
      /\ idx = 1 => pc[0] = "recv_ct" /\ idx - 1 = 0
      /\ idx # 1 => pc[idx - 1] = "recv_back" /\ idx - 1 \in Others /\ idx - 1 + 1 = idx
      /\ idx # tn - 1 => pc[idx + 1] = "done" /\ idx + 1 \in Others
  BY <1>z, <1>a, <1>b, <1>c
<1>4. /\ Holds(chl_0'[<<idx, idx - 1>>], "cts") /\ ~Empty(chl_0'[<<idx, idx - 1>>])
      /\ \A a, b \in Party : a # idx \/ b # idx - 1 => chl_0'[<<a, b>>] = chl_0[<<a, b>>]
  <2>1. chl_0 \in Links BY DEF TypeOK, Links
  <2>2. chl_0' = Send(chl_0, idx, idx - 1, CTsMsg(ct'[idx])) BY DEF SendBack
  <2>3. CTsMsg(ct'[idx]) \in Messages /\ CTsMsg(ct'[idx]).size = "cts" BY TypeStep, MessageTypes DEF TypeOK, Next, PartyStep, Call
  <2>4. Holds(chl_0'[<<idx, idx - 1>>], "cts") BY <1>1, <1>3, <2>1, <2>2, <2>3, SendFills
  <2>5. \A a, b \in Party : a # idx \/ b # idx - 1 => chl_0'[<<a, b>>] = chl_0[<<a, b>>]
    BY <1>1, <2>1, <2>2 DEF Send, Links
  <2> QED BY <2>4, <2>5, HoldsOrEmpty
<1>6. /\ pc'[idx] = "done" /\ peer' = peer
      /\ \A y \in Party : y # idx => pc'[y] = pc[y]
  BY DEF SendBack, Goto, TypeOK
<1>7. chl_1' = chl_1 /\ failed' = failed /\ missing' = missing /\ m_idx' = m_idx
  BY DEF SendBack
<1>8. ASSUME NEW i \in Others
      PROVE  /\ GotPk(i)' <=> GotPk(i)
             /\ SentHE(i)' <=> SentHE(i)
             /\ GotCTd(i)' <=> GotCTd(i)
  BY <1>1, <1>2, <1>6 DEF GotPk, SentHE, GotCTd, Others, Closing
<1>9. ASSUME NEW i \in Others PROVE ToZero(i)'
  <2>1. ToZero(i) BY DEF Control
  <2>2. CASE i # idx
    <3>1. pc'[i] = pc[i] /\ pc'[0] = pc[0] /\ chl_0'[<<i, 0>>] = chl_0[<<i, 0>>]
      BY <1>1, <1>4, <1>6, <2>2
    <3> QED BY <1>8, <2>1, <3>1 DEF ToZero
  <2>3. CASE i = idx /\ idx = 1
    <3>1. pc'[i] = "done" /\ pc'[0] = "recv_ct" /\ Holds(chl_0'[<<i, 0>>], "cts")
      BY <1>1, <1>3, <1>4, <1>6, <2>3
    <3> QED BY <2>3, <3>1 DEF ToZero, Before
  <2>4. CASE i = idx /\ idx # 1
    <3>1. idx - 1 # 0 BY <1>3, <2>4
    <3>2. pc'[i] = "done" /\ chl_0'[<<i, 0>>] = chl_0[<<i, 0>>]
      BY <1>1, <1>4, <1>6, <2>4, <3>1
    <3>3. SentHE(i) /\ IF GotCTd(i) THEN Empty(chl_0[<<i, 0>>]) ELSE Holds(chl_0[<<i, 0>>], "cts")
      BY <1>2, <2>1, <2>4 DEF ToZero, Before
    <3> QED BY <1>8, <2>4, <3>2, <3>3 DEF ToZero, Before
  <2> QED BY <2>2, <2>3, <2>4
<1>10. ASSUME NEW i \in Others PROVE FromZero(i)'
  BY <1>1, <1>2, <1>3, <1>4, <1>6, <1>7, <1>8 DEF Control, FromZero, After
<1>11. ASSUME NEW i \in Others, i # tn - 1 PROVE Outward(i)' /\ Inward(i)'
  <2>1. i + 1 \in Others BY <1>11 DEF Others
  <2>2. Outward(i)'
    BY <1>1, <1>2, <1>3, <1>4, <1>6, <1>7, <1>11, <2>1 DEF Control, Outward, Early, Before, After
  <2>3. Inward(i)'
    <3>0. Inward(i) BY <1>11 DEF Control
    <3>1. CASE i + 1 = idx
      <4>1. i = idx - 1 /\ i # idx /\ idx # 1 BY <3>1
      <4>2. pc'[i + 1] = "done" /\ pc'[i] = "recv_back" BY <1>3, <1>6, <3>1, <4>1
      <4>3. Holds(chl_0'[<<i + 1, i>>], "cts") BY <1>4, <3>1, <4>1
      <4> QED BY <4>2, <4>3 DEF Inward
    <3>2. CASE i = idx
      <4>1. idx + 1 # idx /\ i # tn - 1 BY <1>11
      <4>2. pc'[i + 1] = "done" /\ pc'[i] = "done" /\ pc[i + 1] = "done"
        BY <1>3, <1>6, <2>1, <3>2, <4>1
      <4>3. chl_0'[<<i + 1, i>>] = chl_0[<<i + 1, i>>] BY <1>4, <2>1, <3>2, <4>1
      <4>4. Empty(chl_0[<<i + 1, i>>]) BY <1>2, <3>0, <3>2, <4>2 DEF Inward
      <4> QED BY <4>2, <4>3, <4>4 DEF Inward
    <3>3. CASE i # idx /\ i + 1 # idx
      <4>1. pc'[i + 1] = pc[i + 1] /\ pc'[i] = pc[i] BY <1>6, <2>1, <3>3
      <4>2. chl_0'[<<i + 1, i>>] = chl_0[<<i + 1, i>>] BY <1>4, <2>1, <3>3
      <4> QED BY <3>0, <4>1, <4>2 DEF Inward
    <3> QED BY <3>1, <3>2, <3>3
  <2> QED BY <2>2, <2>3
<1>12. Unused'
  <2>1. idx = (idx - 1) + 1 /\ idx # 0 BY DEF Others
  <2> QED BY <1>1, <1>4, <1>7, <2>1 DEF Control, Unused
<1>13. /\ \A i \in Others : pc'[i] \in After => pc'[0] \in {"recv_ct", "done"}
       /\ pc'[0] = "done" => pc'[1] = "done"
  <2>1. 1 \in Others /\ 1 # 0 BY DEF Others
  <2>2. pc'[0] = "done" => pc'[1] = "done" BY <1>1, <1>2, <1>3, <1>6, <2>1 DEF Control
  <2> QED BY <1>1, <1>2, <1>3, <1>6, <1>7, <2>2 DEF Control, After
<1>14. RootCause' BY <1>6, <1>7, RootKept DEF Control, TypeOK
<1>15. m_idx' = NoResult <=> pc'[0] # "done" BY <1>2, <1>6, <1>7 DEF Control
<1> QED BY <1>9, <1>10, <1>11, <1>12, <1>13, <1>14, <1>15 DEF Control

-----------------------------------------------------------------------------
(* Failures. *)

LEMMA Heads ==
  ASSUME NEW q, NEW size, Holds(q, size)
  PROVE  q # <<>> /\ Head(q).size = size
BY DEF Holds

\* What a party that blocks in a receive finds: a buffer of the right length,
\* or nothing and a peer that has not returned.
LEMMA Waiting ==
  ASSUME TypeOK, Control, NEW idx \in Party, pc[idx] \in Receiving
  PROVE  LET w == Awaited(idx)
             q == Inbox(w.chl, idx, w.j)
         IN  IF q = <<>> THEN pc[PeerOf(idx, w.j)] # "done" /\ PeerOf(idx, w.j) \in Party
                         ELSE Head(q).size = w.size
<1> USE Parties
<1> DEFINE Found(q, size, p) ==
      IF q = <<>> THEN pc[p] # "done" /\ p \in Party ELSE Head(q).size = size
<1>a. \A q, size, p : Holds(q, size) => Found(q, size, p) BY Heads
<1>b. \A q, size : \A p \in Party : Empty(q) /\ pc[p] # "done" => Found(q, size, p)
  BY DEF Empty
<1>c. SUFFICES ASSUME NEW chl, NEW j, NEW size, NEW p,
                      Awaited(idx) = [chl |-> chl, j |-> j, size |-> size],
                      PeerOf(idx, j) = p
               PROVE  Found(chl[<<p, idx>>], size, p)
  <2>1. PICK chl, j, size : Awaited(idx) = [chl |-> chl, j |-> j, size |-> size]
    BY DEF Awaited, Receiving
  <2>2. Found(chl[<<PeerOf(idx, j), idx>>], size, PeerOf(idx, j)) BY <1>c, <2>1
  <2> QED BY <2>1, <2>2 DEF Inbox
<1> HIDE DEF Found
<1>1. CASE idx = 0 /\ pc[0] = "recv_pk"
  <2>1. chl = chl_0 /\ j = peer /\ size = "point" BY <1>1, <1>c DEF Awaited
  <2>2. p = peer + 1 /\ p \in Others BY <1>c, <1>1, <2>1, Peers DEF TypeOK
  <2>3. ToZero(p) /\ ~GotPk(p) /\ ~SentHE(p)
    BY <1>1, <2>2 DEF Control, GotPk, SentHE, Closing, TypeOK
  <2>4. \/ Holds(chl_0[<<p, 0>>], "point")
        \/ Empty(chl_0[<<p, 0>>]) /\ pc[p] # "done"
    BY <1>1, <2>3 DEF ToZero, Before
  <2> QED BY <1>1, <1>a, <1>b, <2>1, <2>2, <2>4
<1>2. CASE idx = 0 /\ pc[0] = "recv_ct_d"
  <2>1. chl = chl_0 /\ j = peer /\ size = "cts" BY <1>2, <1>c DEF Awaited
  <2>2. p = peer + 1 /\ p \in Others BY <1>c, <1>2, <2>1, Peers DEF TypeOK
  <2>3. ToZero(p) /\ GotPk(p) /\ ~GotCTd(p)
    BY <1>2, <2>2 DEF Control, GotPk, GotCTd, Closing, TypeOK
  <2>4. \/ Holds(chl_0[<<p, 0>>], "cts")
        \/ Empty(chl_0[<<p, 0>>]) /\ pc[p] # "done"
    BY <1>2, <2>3 DEF ToZero, Before
  <2> QED BY <1>2, <1>a, <1>b, <2>1, <2>2, <2>4
<1>3. CASE idx = 0 /\ pc[0] = "recv_ct"
  <2>1. chl = chl_0 /\ j = 0 /\ size = "cts" /\ p = 1 BY <1>3, <1>c, Peers DEF Awaited
  <2>2. ToZero(1) /\ GotCTd(1) BY <1>3 DEF Control, GotCTd, Closing
  <2>3. \/ Holds(chl_0[<<1, 0>>], "cts")
        \/ Empty(chl_0[<<1, 0>>]) /\ pc[1] # "done"
    BY <1>3, <2>2 DEF ToZero
  <2> QED BY <1>3, <1>a, <1>b, <2>1, <2>3
<1>4. CASE idx \in Others /\ pc[idx] = "recv_pk_HE"
  <2>1. chl = chl_1 /\ size = "point" /\ p = 0 BY <1>4, <1>c, Peers DEF Awaited
  <2>2. FromZero(idx) BY <1>4 DEF Control
  <2>3. \/ Holds(chl_1[<<0, idx>>], "point")
        \/ Empty(chl_1[<<0, idx>>]) /\ pc[0] # "done"
    BY <1>4, <2>2 DEF FromZero, SentHE, Closing
  <2> QED BY <1>4, <1>a, <1>b, <2>1, <2>3
<1>5. CASE idx \in Others /\ pc[idx] = "recv_ct"
  <2>1. chl = chl_1 /\ size = "cts" /\ p = idx - 1 BY <1>5, <1>c, Peers DEF Awaited
  <2>2. CASE idx = 1
    <3>1. FromZero(1) BY DEF Control
    <3>2. \/ Holds(chl_1[<<0, 1>>], "cts")
          \/ Empty(chl_1[<<0, 1>>]) /\ pc[0] # "done"
      BY <1>5, <2>2, <3>1 DEF FromZero
    <3> QED BY <1>5, <1>a, <1>b, <2>1, <2>2, <3>2
  <2>3. CASE idx # 1
    <3>1. idx - 1 \in Others /\ idx - 1 # tn - 1 /\ idx - 1 + 1 = idx BY <1>5, <2>3 DEF Others
    <3>2. Outward(idx - 1) BY <3>1 DEF Control
    <3>3. \/ Holds(chl_1[<<idx - 1, idx>>], "cts")
          \/ Empty(chl_1[<<idx - 1, idx>>]) /\ pc[idx - 1] # "done"
      BY <1>5, <3>1, <3>2 DEF Outward
    <3> QED BY <1>5, <1>a, <1>b, <2>1, <3>1, <3>3
  <2> QED BY <2>2, <2>3
<1>6. CASE idx \in Others /\ pc[idx] = "recv_back"
  <2>1. idx # tn - 1 /\ idx + 1 \in Others BY <1>6 DEF TypeOK, Others
  <2>2. chl = chl_0 /\ size = "cts" /\ p = idx + 1 BY <1>6, <1>c, Peers DEF Awaited
  <2>3. Inward(idx) BY <1>6, <2>1 DEF Control
  <2>4. \/ Holds(chl_0[<<idx + 1, idx>>], "cts")
        \/ Empty(chl_0[<<idx + 1, idx>>]) /\ pc[idx + 1] # "done"
    BY <1>6, <2>3 DEF Inward
  <2> QED BY <1>6, <1>a, <1>b, <2>1, <2>2, <2>4
<1> QED BY <1>1, <1>2, <1>3, <1>4, <1>5, <1>6 DEF TypeOK, Receiving

\* The first party to fail fails for want of its file.
LEMMA ControlFail ==
  ASSUME TypeOK, Control, NEW idx \in Party, Fail(idx)
  PROVE  Control'
<1>1. /\ UNCHANGED <<missing, pc, peer, chl_0, chl_1, m_idx>>
      /\ failed' = failed \cup {idx}
  BY DEF Fail
<1>2. RootCause'
  <2>1. CASE failed # {}
    <3>1. PICK f \in failed : NoFile(f) BY <2>1 DEF Control, RootCause
    <3>2. f \in failed' /\ NoFile(f)' BY <1>1, <3>1 DEF NoFile
    <3> QED BY <3>2 DEF RootCause
  <2>2. CASE failed = {}
    <3>1. ASSUME pc[idx] \in Receiving PROVE ~RecvThrows(idx)
      BY <2>2, <3>1, Waiting DEF RecvThrows, Stopped
    <3>2. NoFile(idx) BY <2>2, <3>1 DEF Fail
    <3>3. idx \in failed' /\ NoFile(idx)' BY <1>1, <3>2 DEF NoFile
    <3> QED BY <3>3 DEF RootCause
  <2> QED BY <2>1, <2>2
<1>3. \A i \in Others : /\ ToZero(i)' <=> ToZero(i)
                        /\ FromZero(i)' <=> FromZero(i)
                        /\ Outward(i)' <=> Outward(i)
                        /\ Inward(i)' <=> Inward(i)
  BY <1>1 DEF ToZero, FromZero, Outward, Inward, GotPk, SentHE, GotCTd
<1>4. Unused' <=> Unused BY <1>1 DEF Unused
<1> QED BY <1>1, <1>2, <1>3, <1>4 DEF Control

LEMMA ControlStep == TypeOK /\ Control /\ [Next]_vars => Control'
<1> SUFFICES ASSUME TypeOK, Control, [Next]_vars PROVE Control' OBVIOUS
<1>1. CASE P0Step
  BY <1>1, Parties, ControlP0RecvPk, ControlP0SendPkHE, ControlP0RecvCTd, ControlP0SendCT,
     ControlP0RecvCT, ControlFail DEF P0Step, P0Call
<1>2. CASE \E idx \in Others : PartyStep(idx)
  BY <1>2, Parties, ControlSendPk, ControlRecvPkHE, ControlSendCTd, ControlRecvCT,
     ControlSendOn, ControlRecvBack, ControlSendBack, ControlFail DEF PartyStep, Call
<1>3. CASE UNCHANGED vars
  <2>1. UNCHANGED <<missing, pc, failed, peer, chl_0, chl_1, m_idx>> BY <1>3 DEF vars
  <2>2. \A i \in Others : /\ ToZero(i)' <=> ToZero(i)
                          /\ FromZero(i)' <=> FromZero(i)
                          /\ Outward(i)' <=> Outward(i)
                          /\ Inward(i)' <=> Inward(i)
    BY <2>1 DEF ToZero, FromZero, Outward, Inward, GotPk, SentHE, GotCTd
  <2>3. Unused' <=> Unused BY <2>1 DEF Unused
  <2>4. RootCause' <=> RootCause BY <2>1 DEF RootCause, NoFile
  <2> QED BY <2>1, <2>2, <2>3, <2>4 DEF Control
<1> QED BY <1>1, <1>2, <1>3 DEF Next, Terminated

THEOREM Inductive == Spec => []IInv
<1>1. Init => IInv BY TypeInit, ControlInit DEF IInv
<1>2. IInv /\ [Next]_vars => IInv' BY TypeStep, ControlStep DEF IInv
<1> QED BY <1>1, <1>2, PTL DEF Spec

-----------------------------------------------------------------------------
(* What the invariant implies. *)

\* No receive of J_PEQT or JP_PEQT ever meets a buffer of another length than
\* the one it made room for, for every number of parties and whichever input
\* files are missing.
THEOREM Lengths == Spec => []LengthsAgree
<1>1. IInv => LengthsAgree BY Waiting DEF IInv, LengthsAgree
<1> QED BY <1>1, Inductive, PTL

\* At most one buffer is under way on any socket, so a socket never has to
\* hold more than its largest message.
THEOREM Flight == Spec => []OneInFlight
<1> USE Parties
<1>1. ASSUME IInv PROVE OneInFlight
  <2> SUFFICES ASSUME NEW a \in Party, NEW b \in Party
               PROVE  Len(chl_0[<<a, b>>]) <= 1 /\ Len(chl_1[<<a, b>>]) <= 1
    BY DEF OneInFlight
  <2>0. ASSUME NEW q, NEW size, Holds(q, size) \/ Empty(q) PROVE Len(q) <= 1
    <3>1. CASE Holds(q, size) BY <3>1 DEF Holds
    <3>2. CASE Empty(q)
      <4>1. q = <<>> BY <3>2 DEF Empty
      <4>2. Len(q) = 0 BY <4>1
      <4> QED BY <4>2
    <3> QED BY <2>0, <3>1, <3>2
  <2>1. Len(chl_0[<<a, b>>]) <= 1
    <3>1. CASE b = 0 /\ a \in Others
      <4>1. ToZero(a) BY <1>1, <3>1 DEF IInv, Control
      <4>2. \E size : Holds(chl_0[<<a, 0>>], size) \/ Empty(chl_0[<<a, 0>>])
        BY <4>1, <3>1 DEF ToZero, Before
      <4> QED BY <2>0, <3>1, <4>2
    <3>2. CASE b # 0 /\ a = b + 1
      <4>1. b \in Others /\ b # tn - 1 BY <3>2 DEF Party, Others
      <4>2. Inward(b) BY <1>1, <4>1 DEF IInv, Control
      <4> QED BY <2>0, <3>2, <4>2 DEF Inward
    <3>3. CASE (b # 0 /\ a # b + 1) \/ (a = 0 /\ b = 0)
      BY <1>1, <2>0, <3>3 DEF IInv, Control, Unused
    <3> QED BY <3>1, <3>2, <3>3
  <2>2. Len(chl_1[<<a, b>>]) <= 1
    <3>1. CASE a = 0 /\ b \in Others
      <4>1. FromZero(b) BY <1>1, <3>1 DEF IInv, Control
      <4>2. \E size : Holds(chl_1[<<0, b>>], size) \/ Empty(chl_1[<<0, b>>])
        BY <1>1, <4>1, <3>1 DEF IInv, TypeOK, FromZero, After
      <4> QED BY <2>0, <3>1, <4>2
    <3>2. CASE a # 0 /\ b = a + 1
      <4>1. a \in Others /\ a # tn - 1 BY <3>2 DEF Party, Others
      <4>2. Outward(a) BY <1>1, <4>1 DEF IInv, Control
      <4> QED BY <2>0, <3>2, <4>2 DEF Outward
    <3>3. CASE (a # 0 /\ b # a + 1) \/ (a = 0 /\ b = 0)
      BY <1>1, <2>0, <3>3 DEF IInv, Control, Unused
    <3> QED BY <3>1, <3>2, <3>3
  <2> QED BY <2>1, <2>2
<1> QED BY <1>1, Inductive, PTL

\* Whoever has handed the vector back has got it from a successor that had
\* removed its key layer too, for chains of every length.
THEOREM Chain == Spec => []ChainOrder
<1> USE Parties
<1>1. ASSUME IInv PROVE ChainOrder
  <2> SUFFICES ASSUME NEW idx \in Party, pc[idx] = "done", idx + 1 \in Party
               PROVE  pc[idx + 1] = "done"
    BY DEF ChainOrder
  <2>1. CASE idx = 0 BY <1>1, <2>1 DEF IInv, Control
  <2>2. CASE idx \in Others
    <3>1. idx # tn - 1 BY DEF Party
    <3>2. Inward(idx) BY <1>1, <2>2, <3>1 DEF IInv, Control
    <3> QED BY <3>2 DEF Inward
  <2> QED BY <2>1, <2>2
<1> QED BY <1>1, Inductive, PTL

\* When any party fails, no party returns normally and no result is reported.
THEOREM Atomic == Spec => []AllOrNothing
<1> USE Parties
<1>1. ASSUME IInv PROVE AllOrNothing
  <2> SUFFICES ASSUME failed # {}
               PROVE  m_idx = NoResult /\ \A idx \in Party : pc[idx] # "done"
    BY DEF AllOrNothing
  <2>1. PICK f \in failed : NoFile(f) BY <1>1 DEF IInv, Control, RootCause
  <2>2. f \in Party BY <1>1 DEF IInv, TypeOK
  <2>3. pc[0] \notin {"recv_ct", "done"}
    <3>1. CASE f = 0 BY <2>1, <3>1 DEF NoFile
    <3>2. CASE f \in Others
      <4>1. pc[f] = "send_ct_d" BY <2>1, <3>2 DEF NoFile
      <4>2. ToZero(f) BY <1>1, <3>2 DEF IInv, Control
      <4> QED BY <4>1, <4>2 DEF ToZero, Before, GotCTd, Closing
    <3> QED BY <2>2, <3>1, <3>2
  <2>4. \A i \in Others : pc[i] # "done" BY <1>1, <2>3 DEF IInv, Control, After
  <2> QED BY <1>1, <2>3, <2>4 DEF IInv, Control
<1> QED BY <1>1, Inductive, PTL
-----------------------------------------------------------------------------
(***************************************************************************)
(* The data.  Control says of every socket what kind of buffer it holds;   *)
(* Data says what is in it, and what every party holds, as a function of   *)
(* the keys, the rows and the scalars drawn.  RecvCT changes the blinding  *)
(* that Outgoing and Incoming speak of: that no other vector of the chain  *)
(* is under way then is what Control is needed for.                        *)
(***************************************************************************)

\* The permutations a party may apply on the way back.
Orders == IF Permute THEN Perms ELSE {[b \in Bins |-> b]}

\* The blinded difference of the shares in a bin.
Value(b) == Blinding(b) * (D(b) - ESum(b))

\* A ciphertext of m under the sum of the keys k.
Under(c, m, k) == c.Y = m + c.X * k

\* The vectors that travel outward and, once tn-1..i+1 have peeled their
\* layers, inward; and the row of party i.
Outgoing    == {v \in CTs : \A b \in Bins : Under(v[b], Value(b), KeySum(tn - 1))}
Incoming(i) == {v \in CTs : \E p \in Orders : \A b \in Bins :
                              Under(v[b], Value(p[b]), KeySum(i))}
RowOf(i)    == {v \in CTs : \A b \in Bins : Under(v[b], Rows[i].d[b], KeySum(tn - 1))}

\* The parties whose key and whose row party 0 has added up.
KeysIn == IF pc[0] = "recv_pk" THEN peer ELSE tn - 1
RowsIn == IF pc[0] = "recv_ct_d" THEN peer
          ELSE IF pc[0] \in Closing THEN tn - 1 ELSE 0
SumOver(side, k, b) == SumFunctionOnSet([i \in Others |-> Rows[i][side][b]], 1..k)

\* What the sockets to and from party 0 hold: keys, rows, the chain's end and
\* its start.
ToZeroData(i) ==
  LET q == chl_0[<<i, 0>>] IN q # <<>> =>
    IF Head(q).size = "point" THEN Head(q).body = sk[i]
    ELSE Head(q).body \in IF pc[0] \in Closing THEN Incoming(0) ELSE RowOf(i)

FromZeroData(i) ==
  LET q == chl_1[<<0, i>>] IN q # <<>> =>
    IF Head(q).size = "point" THEN Head(q).body = KeySum(tn - 1)
    ELSE Head(q).body \in Outgoing

\* What travels along the chain, outward and inward.
OutwardData(i) ==
  LET q == chl_1[<<i, i + 1>>] IN q # <<>> => Head(q).body \in Outgoing

InwardData(i) ==
  LET q == chl_0[<<i + 1, i>>] IN q # <<>> => Head(q).body \in Incoming(i)

\* What a party holds, by its pc.
PartyData(i) ==
  /\ pc[i] \notin {"send_pk", "recv_pk_HE"} => pk_HE[i] = KeySum(tn - 1)
  /\ IF pc[i] \in Early THEN alpha[i] = [b \in Bins |-> 1] ELSE alpha[i] \in [Bins -> Alphas]
  /\ pc[i] = "send_on" => ct[i] \in Outgoing
  /\ pc[i] = "send_back" => ct[i] \in Incoming(i)
  /\ pc[i] = "done" => ct[i] \in Incoming(i - 1)

\* What party 0 has added up, and what it has tested.
ZeroData ==
  /\ pk_HE[0] = KeySum(KeysIn)
  /\ pc[0] \notin {"recv_ct", "done"} => \A b \in Bins :
       /\ E[b] = SumOver("e", RowsIn, b)
       /\ Under(ct[0][b], SumOver("d", RowsIn, b), KeySum(tn - 1))
  /\ pc[0] = "done" => /\ ct[0] \in Incoming(0)
                       /\ m_idx = {b \in Bins : Get_intersection(sk[0], ct[0][b])}

\* The data invariant: inductive together with IInv and OneInFlight.
Data ==
  /\ \A i \in Others : ToZeroData(i) /\ FromZeroData(i) /\ PartyData(i)
  /\ \A i \in Others : i # tn - 1 => OutwardData(i) /\ InwardData(i)
  /\ ZeroData

-----------------------------------------------------------------------------
(* Sums over the parties, and the factor of a bin. *)

\* The two rows that meet in a session, and how the code finds them.
LEMMA RowFacts ==
  ASSUME TypeOK
  PROVE  /\ \A i \in Others : Rows[i].e = read_mcrg_e(i - 1) /\ Rows[i].d = read_d(i)
         /\ \A i \in Others : \A b \in Bins : Rows[i].d[b] \in Int /\ Rows[i].e[b] \in Int
<1>1. \A i \in Others : Rows[i].e = read_mcrg_e(i - 1) /\ Rows[i].d = read_d(i)
  BY JPEQTAssumption DEF Rows, read_mcrg_e, read_d, Others
<1>2. \A i \in Others : i - 1 \in 0..(tn - 2) BY Parties DEF Others
<1> QED BY <1>1, <1>2, ShareRows

\* The joint key is a sum, layer by layer.
LEMMA KeySums ==
  ASSUME TypeOK
  PROVE  /\ \A i \in Party : KeySum(i) \in Int
         /\ KeySum(0) = sk[0]
         /\ \A i \in Others : KeySum(i) = KeySum(i - 1) + sk[i]
<1>1. \A i \in Party : sk[i] \in Int BY JPEQTAssumption DEF TypeOK
<1>2. ASSUME NEW i \in Party
      PROVE  /\ IsFiniteSet(0..i) /\ \A x \in 0..i : sk[x] \in Int
             /\ KeySum(i) = sk[i] + SumFunctionOnSet(sk, (0..i) \ {i})
             /\ KeySum(i) \in Int
  <2>1. i \in Int /\ i \in 0..i BY Parties DEF Party
  <2>2. IsFiniteSet(0..i) /\ \A x \in 0..i : sk[x] \in Int
    BY <1>1, <2>1, FS_Interval, JPEQTAssumption DEF Party
  <2> QED BY <2>1, <2>2, SumFacts DEF KeySum
<1>3. KeySum(0) = sk[0]
  <2>1. KeySum(0) = sk[0] + SumFunctionOnSet(sk, (0..0) \ {0}) BY <1>2, Parties
  <2>2. (0..0) \ {0} = {} OBVIOUS
  <2>3. SumFunctionOnSet(sk, {}) = 0 BY SumFacts, FS_EmptySet
  <2>4. sk[0] \in Int BY <1>1, Parties
  <2> QED BY <2>1, <2>2, <2>3, <2>4
<1>4. ASSUME NEW i \in Others PROVE KeySum(i) = KeySum(i - 1) + sk[i]
  <2>1. i \in Party /\ i - 1 \in Party BY Parties
  <2>2. (0..i) \ {i} = 0..(i - 1) BY Parties DEF Others
  <2>3. KeySum(i) = sk[i] + KeySum(i - 1) BY <1>2, <2>1, <2>2 DEF KeySum
  <2>4. sk[i] \in Int /\ KeySum(i - 1) \in Int BY <1>1, <1>2, <2>1
  <2> QED BY <2>3, <2>4
<1> QED BY <1>2, <1>3, <1>4

\* Party 0 sums the rows of one side in the order of its loop.
LEMMA RowSums ==
  ASSUME TypeOK, NEW b \in Bins, NEW side \in {"d", "e"}
  PROVE  /\ \A k \in Party : SumOver(side, k, b) \in Int
         /\ SumOver(side, 0, b) = 0
         /\ \A k \in Others : SumOver(side, k, b) = SumOver(side, k - 1, b) + Rows[k][side][b]
<1> DEFINE f == [i \in Others |-> Rows[i][side][b]]
<1>1. \A i \in Others : f[i] \in Int /\ f[i] = Rows[i][side][b]
  <2>1. side = "d" \/ side = "e" OBVIOUS
  <2> QED BY <2>1, RowFacts
<1>2. ASSUME NEW k \in Party PROVE IsFiniteSet(1..k) /\ \A x \in 1..k : f[x] \in Int
  <2>1. k \in Int /\ 1..k \subseteq Others BY Parties, JPEQTAssumption DEF Others, Party
  <2>2. IsFiniteSet(1..k) BY <2>1, FS_Interval
  <2> HIDE DEF f
  <2> QED BY <1>1, <2>1, <2>2
<1> HIDE DEF f
<1>3. \A k \in Party : SumFunctionOnSet(f, 1..k) \in Int BY <1>2, SumFacts
<1>4. SumFunctionOnSet(f, 1..0) = 0
  <2>1. 1..0 = {} OBVIOUS
  <2> QED BY <1>2, <2>1, SumFacts, Parties
<1>5. ASSUME NEW k \in Others
      PROVE  SumFunctionOnSet(f, 1..k) = SumFunctionOnSet(f, 1..(k - 1)) + f[k]
  <2>1. k \in 1..k /\ (1..k) \ {k} = 1..(k - 1) BY Parties DEF Others
  <2>2. k \in Party /\ k - 1 \in Party BY Parties
  <2>3. SumFunctionOnSet(f, 1..k) = f[k] + SumFunctionOnSet(f, (1..k) \ {k})
    BY <1>2, <2>1, <2>2, SumFacts
  <2>4. SumFunctionOnSet(f, 1..(k - 1)) \in Int /\ f[k] \in Int BY <1>1, <1>3, <2>2
  <2>5. SumFunctionOnSet(f, 1..k) = f[k] + SumFunctionOnSet(f, 1..(k - 1)) BY <2>1, <2>3
  <2> QED BY ONLY <2>4, <2>5
<1> QED BY <1>1, <1>3, <1>4, <1>5 DEF SumOver, f

\* ... and has the sums over all parties when the loop is over.
LEMMA Totals ==
  ASSUME TypeOK, NEW b \in Bins
  PROVE  /\ D(b) = SumOver("d", tn - 1, b) /\ ESum(b) = SumOver("e", tn - 1, b)
         /\ D(b) \in Int /\ ESum(b) \in Int
<1>1. D(b) = SumOver("d", tn - 1, b) /\ ESum(b) = SumOver("e", tn - 1, b)
  <2>1. [i \in Others |-> Rows[i]["d"][b]] = [idx \in Others |-> Rows[idx].d[b]] OBVIOUS
  <2>2. [i \in Others |-> Rows[i]["e"][b]] = [idx \in Others |-> Rows[idx].e[b]] OBVIOUS
  <2>3. D(b) = SumFunctionOnSet([i \in Others |-> Rows[i]["d"][b]], Others) BY <2>1 DEF D
  <2>4. ESum(b) = SumFunctionOnSet([i \in Others |-> Rows[i]["e"][b]], Others) BY <2>2 DEF ESum
  <2> QED BY <2>3, <2>4 DEF SumOver, Others
<1>2. tn - 1 \in Party BY JPEQTAssumption DEF Party
<1>3. "d" \in {"d", "e"} /\ "e" \in {"d", "e"} OBVIOUS
<1> QED BY <1>1, <1>2, <1>3, RowSums

\* The factor of a bin, and how it changes when one party draws its scalars.
LEMMA BlindingFacts ==
  ASSUME TypeOK, NEW b \in Bins
  PROVE  /\ Blinding(b) \in Int
         /\ (\A i \in Others : alpha[i][b] = 1) => Blinding(b) = 1
         /\ Blinding(b) % Order = 0 <=> \E i \in Others : alpha[i][b] % Order = 0
<1> DEFINE f == [i \in Others |-> alpha[i][b]]
<1>0. IsFiniteSet(Others) BY FS_Interval, JPEQTAssumption DEF Others
<1>1. \A i \in Others : f[i] = alpha[i][b] /\ f[i] \in Int BY Parties DEF TypeOK
<1>2. Blinding(b) = ProductOnSet(f, Others) BY DEF Blinding, ProductOnSet
<1> HIDE DEF f
<1>3. ProductOnSet(f, Others) \in Int BY <1>0, <1>1, ProductFacts
<1>4. (\A i \in Others : f[i] = 1) => ProductOnSet(f, Others) = 1
  BY <1>0, ProductOnes
<1>5. ProductOnSet(f, Others) % Order = 0 <=> \E i \in Others : f[i] % Order = 0
  BY <1>0, <1>1, EuclidProduct, OrderAssumption
<1> QED BY <1>1, <1>2, <1>3, <1>4, <1>5

\* When party idx draws its scalars the factor of a bin takes up one of them.
LEMMA BlindingStep ==
  ASSUME TypeOK, TypeOK', NEW b \in Bins, NEW idx \in Others, alpha[idx][b] = 1,
         \A i \in Others : i # idx => alpha'[i] = alpha[i]
  PROVE  Blinding(b)' = alpha'[idx][b] * Blinding(b)
<1> DEFINE f == [i \in Others |-> alpha[i][b]]
           g == [i \in Others |-> alpha'[i][b]]
           r == Others \ {idx}
<1>0. IsFiniteSet(Others) /\ IsFiniteSet(r)
  <2>1. IsFiniteSet(Others) BY FS_Interval, JPEQTAssumption DEF Others
  <2> QED BY <2>1, FS_RemoveElement
<1>1. \A i \in Others : f[i] \in Int /\ g[i] \in Int BY Parties DEF TypeOK
<1>2. Blinding(b) = ProductOnSet(f, Others) /\ Blinding(b)' = ProductOnSet(g, Others)
  BY DEF Blinding, ProductOnSet, FoldFunctionOnSet, MapThenFoldSet
<1>3. \A i \in r : f[i] = g[i] OBVIOUS
<1>4. f[idx] = 1 /\ g[idx] = alpha'[idx][b] OBVIOUS
<1> HIDE DEF f, g
<1>5. ProductOnSet(f, Others) = f[idx] * ProductOnSet(f, r) BY <1>0, <1>1, ProductFacts
<1>6. ProductOnSet(g, Others) = g[idx] * ProductOnSet(g, r) BY <1>0, <1>1, ProductFacts
<1>7. ProductOnSet(f, r) = ProductOnSet(g, r) BY <1>0, <1>3, ProductSame
<1>8. ProductOnSet(f, r) \in Int BY <1>0, <1>1, ProductFacts
<1> QED BY <1>2, <1>4, <1>5, <1>6, <1>7, <1>8

-----------------------------------------------------------------------------
(* The operations on a vector of the chain. *)

\* Keys and files fix the sums.
LEMMA StableSums ==
  ASSUME UNCHANGED <<files, sk>>
  PROVE  /\ \A i : KeySum(i)' = KeySum(i)
         /\ \A i : RowOf(i)' = RowOf(i)
         /\ \A side, k, b : SumOver(side, k, b)' = SumOver(side, k, b)
         /\ \A b : D(b)' = D(b) /\ ESum(b)' = ESum(b)
<1>1. \A i : KeySum(i)' = KeySum(i) BY DEF KeySum
<1>2. Rows' = Rows BY DEF Rows
<1>3. \A i : RowOf(i)' = RowOf(i) BY <1>1, <1>2 DEF RowOf
<1>4. \A side, k, b : SumOver(side, k, b)' = SumOver(side, k, b) BY <1>2 DEF SumOver
<1>5. \A b : D(b)' = D(b) /\ ESum(b)' = ESum(b) BY <1>2 DEF D, ESum
<1> QED BY <1>1, <1>3, <1>4, <1>5

\* ... and with the scalars the sets of vectors that may be under way.
LEMMA StableValues ==
  ASSUME UNCHANGED <<files, sk, alpha>>
  PROVE  /\ Outgoing' = Outgoing
         /\ \A i : Incoming(i)' = Incoming(i)
<1>1. \A b : Blinding(b)' = Blinding(b) BY DEF Blinding, FoldFunctionOnSet, MapThenFoldSet
<1>2. \A b : Value(b)' = Value(b) BY <1>1, StableSums DEF Value
<1> QED BY <1>2, StableSums DEF Outgoing, Incoming

\* The blinded difference of a bin and the joint key are numbers.
LEMMA ValueType ==
  ASSUME TypeOK
  PROVE  /\ \A b \in Bins : Value(b) \in Int
         /\ KeySum(tn - 1) \in Int
<1>1. tn - 1 \in Party BY JPEQTAssumption DEF Party
<1>2. ASSUME NEW b \in Bins PROVE Value(b) \in Int
  <2>1. Blinding(b) \in Int /\ D(b) \in Int /\ ESum(b) \in Int BY BlindingFacts, Totals
  <2> QED BY <2>1 DEF Value
<1> QED BY <1>1, <1>2, KeySums

\* SendCTd: the row of a party, encrypted under the joint key.
LEMMA EncRow ==
  ASSUME TypeOK, NEW i \in Others, NEW r \in [Bins -> Rands], NEW pk, pk = KeySum(tn - 1)
  PROVE  [b \in Bins |-> Enc(pk, read_d(i)[b], r[b])] \in RowOf(i)
<1>1. pk \in Int BY ValueType
<1>2. ASSUME NEW b \in Bins
      PROVE  /\ Enc(pk, read_d(i)[b], r[b]) \in CT
             /\ Under(Enc(pk, read_d(i)[b], r[b]), Rows[i].d[b], pk)
  <2>1. r[b] \in Int /\ read_d(i)[b] \in Int BY ShareRows, JPEQTAssumption
  <2>2. Rows[i].d[b] = read_d(i)[b] BY RowFacts
  <2>3. pk * r[b] = r[b] * pk BY <1>1, <2>1
  <2> QED BY <1>1, <2>1, <2>2, <2>3, Operations DEF Under, Enc
<1> QED BY <1>2 DEF RowOf, CTs

\* P0RecvCTd: one more row in the sum of the ciphertexts.
LEMMA AddRow ==
  ASSUME TypeOK, NEW b \in Bins, NEW k \in Others, NEW c \in CT, NEW d \in CT,
         Under(c, SumOver("d", k - 1, b), KeySum(tn - 1)),
         Under(d, Rows[k].d[b], KeySum(tn - 1))
  PROVE  Under(HomoAdd(c, d), SumOver("d", k, b), KeySum(tn - 1))
<1> DEFINE K == KeySum(tn - 1)
           m == SumOver("d", k - 1, b)
           n == Rows[k].d[b]
<1>1. K \in Int /\ m \in Int /\ n \in Int
  BY ValueType, RowSums, RowFacts, Parties
<1>2. SumOver("d", k, b) = m + n BY RowSums
<1>3. c.X \in Int /\ d.X \in Int /\ c.Y = m + c.X * K /\ d.Y = n + d.X * K BY DEF CT, Under
<1>4. HomoAdd(c, d).X = c.X + d.X /\ HomoAdd(c, d).Y = c.Y + d.Y BY DEF HomoAdd
<1> HIDE DEF K, m, n
<1>5. c.Y + d.Y = (m + n) + (c.X + d.X) * K BY <1>1, <1>3
<1> QED BY <1>2, <1>4, <1>5 DEF Under, K

\* With no scalar drawn yet, D - E re-randomised is what the chain carries.
LEMMA StartOut ==
  ASSUME TypeOK, \A i \in Others : alpha[i] = [b \in Bins |-> 1],
         NEW r \in [Bins -> Rands], NEW pk, pk = KeySum(tn - 1), NEW v \in CTs,
         \A b \in Bins : /\ E[b] = SumOver("e", tn - 1, b)
                         /\ Under(v[b], SumOver("d", tn - 1, b), KeySum(tn - 1))
  PROVE  [b \in Bins |-> ReEnc(pk, HomoSub(v[b], Enc(0, E[b], 0)), r[b])] \in Outgoing
<1>1. pk \in Int BY ValueType
<1>2. ASSUME NEW b \in Bins
      PROVE  LET c == ReEnc(pk, HomoSub(v[b], Enc(0, E[b], 0)), r[b]) IN
             c \in CT /\ Under(c, Value(b), pk)
  <2>1. r[b] \in Int /\ E[b] \in Int /\ v[b] \in CT BY JPEQTAssumption DEF TypeOK, CTs
  <2>2. D(b) \in Int /\ ESum(b) \in Int /\ Blinding(b) = 1 BY Totals, BlindingFacts
  <2>3. Value(b) = D(b) - ESum(b) BY <2>2 DEF Value
  <2>4. E[b] = ESum(b) /\ v[b].Y = D(b) + v[b].X * pk BY Totals DEF Under
  <2> DEFINE X == v[b].X
             Y == v[b].Y
             R == r[b]
             c == ReEnc(pk, HomoSub(v[b], Enc(0, E[b], 0)), R)
  <2>5. X \in Int /\ Y \in Int BY <2>1 DEF CT
  <2>6. Enc(0, E[b], 0) \in CT BY <2>1, Operations
  <2>7. HomoSub(v[b], Enc(0, E[b], 0)) \in CT BY <2>1, <2>6, Operations
  <2>8. c \in CT BY <1>1, <2>1, <2>7, Operations
  <2>9. c.X = R + (X - 0) /\ c.Y = pk * R + (Y - (E[b] + 0 * 0))
    BY DEF ReEnc, HomoSub, Enc
  <2> HIDE DEF X, Y, R, c
  <2>10. R \in Int BY <2>1 DEF R
  <2>11. c.X = R + X /\ c.Y = pk * R + (Y - ESum(b)) BY <1>1, <2>1, <2>4, <2>5, <2>9, <2>10
  <2>12. Y = D(b) + X * pk BY <2>4 DEF X, Y
  <2>13. c.Y = (D(b) - ESum(b)) + (R + X) * pk BY <1>1, <2>2, <2>5, <2>10, <2>11, <2>12
  <2> QED BY <2>3, <2>8, <2>11, <2>13 DEF Under, c, R
<1> QED BY <1>2 DEF Outgoing, CTs

\* One party's scalars on a vector on its way out.
LEMMA Scaled ==
  ASSUME TypeOK, TypeOK', UNCHANGED <<files, sk>>, NEW idx \in Others,
         alpha[idx] = [b \in Bins |-> 1], NEW a \in [Bins -> Alphas],
         alpha' = [alpha EXCEPT ![idx] = a], NEW v \in Outgoing
  PROVE  [b \in Bins |-> ScalarMul(v[b], a[b])] \in Outgoing'
<1> DEFINE K == KeySum(tn - 1)
<1>1. K \in Int /\ K' = K BY ValueType, StableSums
<1>2. ASSUME NEW b \in Bins
      PROVE  /\ ScalarMul(v[b], a[b]) \in CT
             /\ Under(ScalarMul(v[b], a[b]), Value(b)', K)
  <2>1. a[b] \in Int /\ v[b] \in CT BY JPEQTAssumption DEF Outgoing, CTs
  <2>2. alpha \in [Party -> [Bins -> Int]] /\ idx \in Party BY Parties DEF TypeOK
  <2>3. alpha'[idx][b] = a[b] /\ alpha[idx][b] = 1 BY <2>2
  <2>4. \A i \in Others : i # idx => alpha'[i] = alpha[i] BY <2>2, Parties
  <2>5. Blinding(b)' = a[b] * Blinding(b) BY <2>3, <2>4, BlindingStep
  <2>6. D(b)' = D(b) /\ ESum(b)' = ESum(b) BY StableSums
  <2> DEFINE B == Blinding(b)
             F == D(b) - ESum(b)
             X == v[b].X
             A == a[b]
  <2>7. B \in Int /\ F \in Int /\ X \in Int /\ A \in Int
    BY <2>1, BlindingFacts, Totals DEF CT
  <2>8. Value(b)' = (A * B) * F BY <2>5, <2>6 DEF Value
  <2>9. v[b].Y = B * F + X * K BY DEF Outgoing, Under, Value
  <2>10. /\ ScalarMul(v[b], a[b]).X = A * X
         /\ ScalarMul(v[b], a[b]).Y = A * v[b].Y
    BY DEF ScalarMul
  <2> HIDE DEF B, F, X, A, K
  <2>11. A * (B * F + X * K) = (A * B) * F + (A * X) * K BY <1>1, <2>7
  <2>12. ScalarMul(v[b], a[b]).Y = Value(b)' + ScalarMul(v[b], a[b]).X * K
    BY <2>8, <2>9, <2>10, <2>11
  <2> QED BY <2>1, <2>12, Operations DEF Under
<1>3. Outgoing' = {w \in CTs : \A b \in Bins : Under(w[b], Value(b)', K')} BY DEF Outgoing
<1> HIDE DEF K
<1>4. [b \in Bins |-> ScalarMul(v[b], a[b])] \in CTs BY <1>2 DEF CTs
<1> QED BY <1>1, <1>2, <1>3, <1>4

\* The permutations include the identity and are closed under composition.
LEMMA OrdersFacts ==
  /\ Orders \subseteq Perms
  /\ [b \in Bins |-> b] \in Orders
  /\ \A p, q \in Orders : [b \in Bins |-> p[q[b]]] \in Orders
<1>1. [b \in Bins |-> b] \in Perms BY DEF Perms
<1>2. \A p, q \in Perms : [b \in Bins |-> p[q[b]]] \in Perms BY DEF Perms
<1>3. CASE Permute BY <1>1, <1>2, <1>3 DEF Orders
<1>4. CASE ~Permute BY <1>1, <1>4 DEF Orders
<1> QED BY <1>3, <1>4

\* A party on the way back: one layer less, one permutation more.
LEMMA Peeled ==
  ASSUME TypeOK, NEW i \in Others, NEW v \in Incoming(i), NEW pi \in Orders
  PROVE  [b \in Bins |-> Dec(sk[i], v[pi[b]])] \in Incoming(i - 1)
<1>1. PICK p \in Orders : \A b \in Bins : Under(v[b], Value(p[b]), KeySum(i))
  BY DEF Incoming
<1> DEFINE q == [b \in Bins |-> p[pi[b]]]
           w == [b \in Bins |-> Dec(sk[i], v[pi[b]])]
<1>2. q \in Orders BY OrdersFacts
<1>3. p \in [Bins -> Bins] /\ pi \in [Bins -> Bins] BY OrdersFacts DEF Perms
<1>4. sk[i] \in Int /\ KeySum(i - 1) \in Int /\ KeySum(i) = KeySum(i - 1) + sk[i]
  <2>1. i \in Party /\ i - 1 \in Party BY Parties
  <2>2. sk \in [Party -> Secrets] BY DEF TypeOK
  <2> QED BY <2>1, <2>2, KeySums, JPEQTAssumption
<1>5. ASSUME NEW b \in Bins
      PROVE  /\ w[b] \in CT
             /\ Under(w[b], Value(q[b]), KeySum(i - 1))
  <2> DEFINE c == v[pi[b]]
  <2>1. pi[b] \in Bins /\ c \in CT BY <1>3 DEF Incoming, CTs
  <2>2. c.X \in Int /\ c.Y \in Int BY <2>1 DEF CT
  <2>3. Value(q[b]) \in Int BY <1>3, ValueType
  <2>4. c.Y = Value(q[b]) + c.X * KeySum(i) BY <1>1, <2>1 DEF Under
  <2>5. w[b] = Dec(sk[i], c) BY DEF w
  <2>6. w[b].X = c.X /\ w[b].Y = c.Y - c.X * sk[i] BY <2>5 DEF Dec
  <2> HIDE DEF c, q, w
  <2>7. c.Y - c.X * sk[i] = Value(q[b]) + c.X * KeySum(i - 1)
    BY <1>4, <2>2, <2>3, <2>4
  <2> QED BY <1>4, <2>1, <2>5, <2>6, <2>7, Operations DEF Under
<1>6. w \in CTs BY <1>5 DEF CTs
<1> HIDE DEF q, w
<1>7. w \in Incoming(i - 1) BY <1>2, <1>5, <1>6 DEF Incoming
<1> QED BY <1>7 DEF w

-----------------------------------------------------------------------------
(* The data invariant, action by action: party 0 up to the rows. *)

\* The only buffer of a socket: what was sent is what is there.
LEMMA Sent ==
  ASSUME NEW chl \in Links, NEW idx \in Party, NEW j, NEW p \in Party, PeerOf(idx, j) = p,
         NEW m \in Messages, NEW new, new = Send(chl, idx, j, m), Len(new[<<idx, p>>]) <= 1
  PROVE  /\ chl[<<idx, p>>] = <<>> /\ new[<<idx, p>>] # <<>> /\ Head(new[<<idx, p>>]) = m
         /\ \A a, b \in Party : a # idx \/ b # p => new[<<a, b>>] = chl[<<a, b>>]
<1> DEFINE q == chl[<<idx, p>>]
<1>1. q \in Seq(Messages) BY DEF Links
<1>2. new[<<idx, p>>] = Append(q, m) BY SendLink
<1>3. \A a, b \in Party : a # idx \/ b # p => new[<<a, b>>] = chl[<<a, b>>] BY SendLink
<1> HIDE DEF q
<1>4. Len(Append(q, m)) = Len(q) + 1 /\ Len(q) \in Nat BY <1>1
<1>5. Len(q) = 0 BY <1>2, <1>4
<1>6. q = <<>> BY <1>1, <1>5, EmptySeq
<1>7. new[<<idx, p>>] = <<m>> BY <1>2, <1>6
<1>8. <<m>> # <<>> /\ Head(<<m>>) = m OBVIOUS
<1> QED BY <1>3, <1>6, <1>7, <1>8 DEF q

\* ... and what is received is what was there.
LEMMA Got ==
  ASSUME NEW chl \in Links, NEW idx \in Party, NEW j, NEW p \in Party, PeerOf(idx, j) = p,
         NEW size, CanRecv(chl, idx, j, size), Len(chl[<<p, idx>>]) <= 1,
         NEW new, new = Recv(chl, idx, j)
  PROVE  /\ Inbox(chl, idx, j) = chl[<<p, idx>>] /\ chl[<<p, idx>>] # <<>>
         /\ Head(chl[<<p, idx>>]) \in Messages /\ Head(chl[<<p, idx>>]).size = size
         /\ new[<<p, idx>>] = <<>>
         /\ \A a, b \in Party : b # idx \/ a # p => new[<<a, b>>] = chl[<<a, b>>]
<1> DEFINE q == chl[<<p, idx>>]
<1>1. q \in Seq(Messages) BY DEF Links
<1>2. new[<<p, idx>>] = Tail(q) BY RecvLink
<1>3. \A a, b \in Party : b # idx \/ a # p => new[<<a, b>>] = chl[<<a, b>>] BY RecvLink
<1>4. Inbox(chl, idx, j) = q /\ q # <<>> /\ Head(q).size = size BY DEF CanRecv, Inbox
<1>6. Len(q) <= 1 OBVIOUS
<1> HIDE DEF q
<1>5. Head(q) \in Messages /\ Tail(q) = <<>>
  <2>1. Tail(q) \in Seq(Messages) /\ Head(q) \in Messages BY <1>1, <1>4
  <2>2. Len(q) \in Nat /\ Len(q) # 0 BY <1>1, <1>4, EmptySeq
  <2>1a. \A n \in Nat : n <= 1 /\ n # 0 => n = 1 OBVIOUS
  <2>4. Len(q) = 1 BY <1>6, <2>2, <2>1a
  <2>3. Len(Tail(q)) = 0 BY <1>1, <1>4, <2>4
  <2> QED BY <2>1, <2>3, EmptySeq
<1> QED BY <1>2, <1>3, <1>4, <1>5 DEF q

\* What a step may rely on.
Sure == IInv /\ OneInFlight

\* The parts of Sure, before a step and after it.
LEMMA SureFacts ==
  ASSUME Sure
  PROVE  /\ TypeOK /\ Control /\ chl_0 \in Links /\ chl_1 \in Links
         /\ \A a, b \in Party : Len(chl_0[<<a, b>>]) <= 1 /\ Len(chl_1[<<a, b>>]) <= 1
         /\ pc \in [Party -> PCs] /\ peer \in 0..(tn - 2)
         /\ \A i \in Others : i # tn - 1 => i + 1 \in Others
<1>1. \A i \in Others : i # tn - 1 => i + 1 \in Others BY Parties DEF Others
<1> QED BY <1>1 DEF Sure, IInv, TypeOK, Links, OneInFlight

\* The same of the state after it.
LEMMA SureNext ==
  ASSUME Sure'
  PROVE  /\ TypeOK' /\ Control'
         /\ \A a, b \in Party : Len(chl_0'[<<a, b>>]) <= 1 /\ Len(chl_1'[<<a, b>>]) <= 1
BY DEF Sure, IInv, OneInFlight

\* The data invariant holds at the start.
LEMMA DataInit == Init => Data
<1> SUFFICES ASSUME Init PROVE Data OBVIOUS
<1> USE Parties
<1>1. TypeOK BY TypeInit
<1>2. /\ pc[0] = "recv_pk" /\ \A i \in Others : pc[i] = "send_pk"
      /\ \A a, b \in Party : chl_0[<<a, b>>] = <<>> /\ chl_1[<<a, b>>] = <<>>
      /\ peer = 0 /\ pk_HE[0] = sk[0]
      /\ \A b \in Bins : E[b] = 0 /\ ct[0][b] = ZeroCT
      /\ \A i \in Others : alpha[i] = [b \in Bins |-> 1]
  BY DEF Init
<1>3. ASSUME NEW i \in Others PROVE ToZeroData(i) /\ FromZeroData(i)
  BY <1>2 DEF ToZeroData, FromZeroData
<1>4. ASSUME NEW i \in Others, i # tn - 1 PROVE OutwardData(i) /\ InwardData(i)
  <2>1. i + 1 \in Party BY <1>4 DEF Others, Party
  <2> QED BY <1>2, <2>1 DEF OutwardData, InwardData
<1>5. ASSUME NEW i \in Others PROVE PartyData(i)
  BY <1>2 DEF PartyData, Early, Before
<1>6. ZeroData
  <2>1. KeysIn = 0 /\ RowsIn = 0 BY <1>2 DEF KeysIn, RowsIn, Closing
  <2>2. pk_HE[0] = KeySum(0) BY <1>1, <1>2, KeySums
  <2>3. ASSUME NEW b \in Bins
        PROVE  E[b] = SumOver("e", 0, b) /\ Under(ct[0][b], SumOver("d", 0, b), KeySum(tn - 1))
    <3>1. SumOver("e", 0, b) = 0 /\ SumOver("d", 0, b) = 0 BY <1>1, RowSums
    <3>2. KeySum(tn - 1) \in Int BY <1>1, ValueType
    <3>3. 0 = 0 + 0 * KeySum(tn - 1) BY <3>2
    <3> QED BY <1>2, <3>1, <3>3 DEF Under, ZeroCT
  <2> QED BY <1>2, <2>1, <2>2, <2>3 DEF ZeroData
<1> QED BY <1>3, <1>4, <1>5, <1>6 DEF Data

\* A step of party 0 that draws no scalars leaves the other parties' data.
LEMMA PartyKept ==
  ASSUME NEW i \in Others, PartyData(i), UNCHANGED <<files, sk, alpha>>,
         pc'[i] = pc[i], pk_HE'[i] = pk_HE[i], ct'[i] = ct[i]
  PROVE  PartyData(i)'
BY StableSums, StableValues DEF PartyData

\* P0RecvPk preserves it: one more key in the joint key.
LEMMA DataP0RecvPk ==
  ASSUME Sure, Sure', Data, P0RecvPk
  PROVE  Data'
<1> USE Parties
<1>s. TypeOK /\ Control /\ pc \in [Party -> PCs] /\ peer \in 0..(tn - 2)
      /\ \A i \in Others : i # tn - 1 => i + 1 \in Others
  BY SureFacts
<1> USE <1>s
<1> DEFINE p == peer + 1
<1>1. p \in Others /\ PeerOf(0, peer) = p /\ p - 1 = peer BY <1>s, Peers
<1> HIDE DEF p
<1>2. /\ chl_0[<<p, 0>>] # <<>> /\ Head(chl_0[<<p, 0>>]).size = "point"
      /\ Inbox(chl_0, 0, peer) = chl_0[<<p, 0>>] /\ chl_0'[<<p, 0>>] = <<>>
      /\ \A a, b \in Party : b # 0 \/ a # p => chl_0'[<<a, b>>] = chl_0[<<a, b>>]
  <2>1. CanRecv(chl_0, 0, peer, "point") /\ chl_0' = Recv(chl_0, 0, peer) BY DEF P0RecvPk
  <2>2. chl_0 \in Links /\ Len(chl_0[<<p, 0>>]) <= 1 BY <1>1, SureFacts
  <2>3. 0 \in Party /\ p \in Party BY <1>1
  <2> QED BY ONLY <1>1, <2>1, <2>2, <2>3, Got
<1>3. UNCHANGED <<files, sk, alpha, E, ct, chl_1>> BY DEF P0RecvPk
<1>4. /\ pc[0] = "recv_pk" /\ \A y \in Others : pc'[y] = pc[y]
      /\ \/ pc'[0] = "recv_pk" /\ peer' = p
         \/ pc'[0] = "send_pk_HE" /\ p = tn - 1
  BY <1>1, LoopProgress DEF P0RecvPk
<1>5. ASSUME NEW i \in Others PROVE ToZeroData(i)' /\ FromZeroData(i)' /\ PartyData(i)'
  <2>1. ToZeroData(i) /\ FromZeroData(i) /\ PartyData(i) BY DEF Data
  <2>2. pk_HE'[i] = pk_HE[i] BY DEF P0RecvPk, TypeOK
  <2>3. PartyData(i)' BY <1>3, <1>4, <2>1, <2>2, PartyKept
  <2>4. ToZeroData(i)'
    BY <1>2, <1>3, <1>4, <2>1, StableSums, StableValues DEF ToZeroData, Closing
  <2>5. FromZeroData(i)' BY <1>3, <2>1, StableSums, StableValues DEF FromZeroData
  <2> QED BY <2>3, <2>4, <2>5
<1>6. ASSUME NEW i \in Others, i # tn - 1 PROVE OutwardData(i)' /\ InwardData(i)'
  <2>1. OutwardData(i) /\ InwardData(i) BY <1>6 DEF Data
  <2>2. i + 1 \in Party /\ i \in Party BY <1>6
  <2> QED BY <1>2, <1>3, <2>1, <2>2, StableValues DEF OutwardData, InwardData
<1>7. ZeroData'
  <2>1. ZeroData /\ ToZeroData(p) BY <1>1 DEF Data
  <2>2. pk_HE'[0] = pk_HE[0] + sk[p]
    <3>1. pk_HE'[0] = pk_HE[0] + Head(chl_0[<<p, 0>>]).body BY <1>2 DEF P0RecvPk, TypeOK
    <3> QED BY <1>2, <2>1, <3>1 DEF ToZeroData
  <2>3. pk_HE[0] = KeySum(p - 1) BY <1>1, <1>4, <2>1 DEF ZeroData, KeysIn
  <2>4. pk_HE'[0] = KeySum(p) BY <1>1, <2>2, <2>3, KeySums
  <2>5. KeysIn' = p /\ RowsIn' = RowsIn
    BY <1>4 DEF KeysIn, RowsIn, Closing
  <2> QED BY <1>3, <1>4, <2>1, <2>4, <2>5, StableSums DEF ZeroData
<1> QED BY <1>5, <1>6, <1>7 DEF Data

\* P0SendPkHE preserves it: the key sent is the sum of all keys.
LEMMA DataP0SendPkHE ==
  ASSUME Sure, Sure', Data, P0SendPkHE
  PROVE  Data'
<1> USE Parties
<1>s. TypeOK /\ Control /\ pc \in [Party -> PCs] /\ peer \in 0..(tn - 2)
      /\ \A i \in Others : i # tn - 1 => i + 1 \in Others
  BY SureFacts
<1> USE <1>s
<1> DEFINE p == peer + 1
<1>1. p \in Others /\ PeerOf(0, peer) = p BY <1>s, Peers
<1> HIDE DEF p
<1>2. /\ chl_1'[<<0, p>>] # <<>> /\ Head(chl_1'[<<0, p>>]) = PointMsg(pk_HE[0])
      /\ \A a, b \in Party : a # 0 \/ b # p => chl_1'[<<a, b>>] = chl_1[<<a, b>>]
  <2>1. chl_1' = Send(chl_1, 0, peer, PointMsg(pk_HE[0])) BY DEF P0SendPkHE
  <2>2. PointMsg(pk_HE[0]) \in Messages BY MessageTypes DEF TypeOK
  <2> QED BY <1>1, <2>1, <2>2, Sent, SureFacts, SureNext
<1>3. UNCHANGED <<files, sk, alpha, pk_HE, E, ct, chl_0>> BY DEF P0SendPkHE
<1>4. /\ pc[0] = "send_pk_HE" /\ \A y \in Others : pc'[y] = pc[y]
      /\ \/ pc'[0] = "send_pk_HE"
         \/ pc'[0] = "recv_ct_d" /\ peer' = 0
  BY LoopProgress DEF P0SendPkHE
<1>0. ZeroData BY DEF Data
<1>5. ASSUME NEW i \in Others PROVE ToZeroData(i)' /\ FromZeroData(i)' /\ PartyData(i)'
  <2>1. ToZeroData(i) /\ FromZeroData(i) /\ PartyData(i) BY DEF Data
  <2>3. PartyData(i)' BY <1>3, <1>4, <2>1, PartyKept
  <2>4. ToZeroData(i)'
    BY <1>3, <1>4, <2>1, StableSums, StableValues DEF ToZeroData, Closing
  <2>5. FromZeroData(i)'
    <3>1. CASE i = p
      <4>1. pk_HE[0] = KeySum(tn - 1) BY <1>0, <1>4 DEF ZeroData, KeysIn
      <4> QED BY <1>2, <1>3, <3>1, <4>1, StableSums DEF FromZeroData, PointMsg
    <3>2. CASE i # p
      BY <1>2, <1>3, <2>1, <3>2, StableSums, StableValues DEF FromZeroData
    <3> QED BY <3>1, <3>2
  <2> QED BY <2>3, <2>4, <2>5
<1>6. ASSUME NEW i \in Others, i # tn - 1 PROVE OutwardData(i)' /\ InwardData(i)'
  <2>1. OutwardData(i) /\ InwardData(i) BY <1>6 DEF Data
  <2>2. i + 1 \in Party /\ i \in Party BY <1>6
  <2> QED BY <1>2, <1>3, <2>1, <2>2, StableValues DEF OutwardData, InwardData
<1>7. ZeroData'
  <2>1. KeysIn' = KeysIn /\ RowsIn' = RowsIn BY <1>4 DEF KeysIn, RowsIn, Closing
  <2> QED BY <1>0, <1>3, <1>4, <2>1, StableSums DEF ZeroData
<1> QED BY <1>5, <1>6, <1>7 DEF Data

\* P0RecvCTd preserves it: one more row on both sides.
LEMMA DataP0RecvCTd ==
  ASSUME Sure, Sure', Data, P0RecvCTd
  PROVE  Data'
<1> USE Parties
<1>s. TypeOK /\ Control /\ pc \in [Party -> PCs] /\ peer \in 0..(tn - 2)
      /\ \A i \in Others : i # tn - 1 => i + 1 \in Others
  BY SureFacts
<1> USE <1>s
<1> DEFINE p == peer + 1
           m == Head(chl_0[<<p, 0>>])
<1>1. p \in Others /\ PeerOf(0, peer) = p /\ p - 1 = peer BY <1>s, Peers
<1> HIDE DEF p
<1>2. /\ chl_0[<<p, 0>>] # <<>> /\ m \in Messages /\ m.size = "cts"
      /\ Inbox(chl_0, 0, peer) = chl_0[<<p, 0>>] /\ chl_0'[<<p, 0>>] = <<>>
      /\ \A a, b \in Party : b # 0 \/ a # p => chl_0'[<<a, b>>] = chl_0[<<a, b>>]
  <2>1. CanRecv(chl_0, 0, peer, "cts") /\ chl_0' = Recv(chl_0, 0, peer) BY DEF P0RecvCTd
  <2>2. chl_0 \in Links /\ Len(chl_0[<<p, 0>>]) <= 1 BY <1>1, SureFacts
  <2>3. 0 \in Party /\ p \in Party BY <1>1
  <2> QED BY ONLY <1>1, <2>1, <2>2, <2>3, Got
<1>3. UNCHANGED <<files, sk, alpha, pk_HE, chl_1>> BY DEF P0RecvCTd
<1>4. /\ pc[0] = "recv_ct_d" /\ \A y \in Others : pc'[y] = pc[y]
      /\ \/ pc'[0] = "recv_ct_d" /\ peer' = p
         \/ pc'[0] = "send_ct" /\ p = tn - 1
  BY <1>1, LoopProgress DEF P0RecvCTd
\* When party 0 has every row, its sockets are empty.
<1>8. ASSUME NEW i \in Others, pc'[0] \in Closing PROVE chl_0'[<<i, 0>>] = <<>>
  <2>1. pc'[0] = "send_ct" BY <1>4, <1>8 DEF Closing
  <2>2. ToZero(i)' /\ GotPk(i)' /\ SentHE(i)' /\ GotCTd(i)'
    BY <2>1, SureNext DEF Control, GotPk, SentHE, GotCTd, Closing
  <2>3. pc'[i] \notin Before BY <2>2 DEF ToZero
  <2>4. i # 1 \/ pc'[i] # "done"
    <3>1. ASSUME pc'[i] \in After PROVE FALSE BY <2>1, <3>1, SureNext DEF Control
    <3> QED BY <3>1 DEF After
  <2> QED BY <2>2, <2>3, <2>4 DEF ToZero, Empty
<1>5. ASSUME NEW i \in Others PROVE ToZeroData(i)' /\ FromZeroData(i)' /\ PartyData(i)'
  <2>1. ToZeroData(i) /\ FromZeroData(i) /\ PartyData(i) BY DEF Data
  <2>2. ct'[i] = ct[i] BY DEF P0RecvCTd, TypeOK
  <2>3. PartyData(i)' BY <1>3, <1>4, <2>1, <2>2, PartyKept
  <2>4. ToZeroData(i)'
    <3>1. CASE pc'[0] \in Closing BY <1>8, <3>1 DEF ToZeroData
    <3>2. CASE pc'[0] \notin Closing
      BY <1>2, <1>3, <1>4, <2>1, <3>2, StableSums, StableValues DEF ToZeroData, Closing
    <3> QED BY <3>1, <3>2
  <2>5. FromZeroData(i)' BY <1>3, <2>1, StableSums, StableValues DEF FromZeroData
  <2> QED BY <2>3, <2>4, <2>5
<1>6. ASSUME NEW i \in Others, i # tn - 1 PROVE OutwardData(i)' /\ InwardData(i)'
  <2>1. OutwardData(i) /\ InwardData(i) BY <1>6 DEF Data
  <2>2. i + 1 \in Party /\ i \in Party BY <1>6
  <2> QED BY <1>2, <1>3, <2>1, <2>2, StableValues DEF OutwardData, InwardData
<1>7. ZeroData'
  <2>1. ZeroData /\ ToZeroData(p) BY <1>1 DEF Data
  <2>2. m.body \in RowOf(p) BY <1>2, <1>4, <2>1 DEF ToZeroData, Closing
  <2>3. RowsIn = p - 1 /\ RowsIn' = p /\ KeysIn' = KeysIn
    BY <1>1, <1>4 DEF RowsIn, KeysIn, Closing
  <2>4. ct'[0] = [b \in Bins |-> HomoAdd(ct[0][b], m.body[b])] BY <1>2 DEF P0RecvCTd, TypeOK
  <2>5. E' = [b \in Bins |-> E[b] + Rows[p].e[b]]
    BY <1>1, RowFacts DEF P0RecvCTd
  <2> HIDE DEF m
  <2>6. ASSUME NEW b \in Bins
        PROVE  /\ E'[b] = SumOver("e", p, b)
               /\ Under(ct'[0][b], SumOver("d", p, b), KeySum(tn - 1))
    <3>1. /\ E[b] = SumOver("e", p - 1, b)
          /\ Under(ct[0][b], SumOver("d", p - 1, b), KeySum(tn - 1))
      BY <1>4, <2>1, <2>3 DEF ZeroData
    <3>2. SumOver("e", p, b) = SumOver("e", p - 1, b) + Rows[p].e[b]
      BY <1>1, RowSums
    <3>3. ct[0][b] \in CT /\ m.body[b] \in CT /\ Under(m.body[b], Rows[p].d[b], KeySum(tn - 1))
      BY <2>2 DEF RowOf, CTs, TypeOK
    <3>4. Under(HomoAdd(ct[0][b], m.body[b]), SumOver("d", p, b), KeySum(tn - 1))
      BY <1>1, <3>1, <3>3, AddRow
    <3> QED BY <2>4, <2>5, <3>1, <3>2, <3>4
  <2> QED BY <1>3, <1>4, <2>1, <2>3, <2>6, StableSums DEF ZeroData
<1> QED BY <1>5, <1>6, <1>7 DEF Data

-----------------------------------------------------------------------------
(* Party 0 and the chain; the keys of the others. *)

\* A socket that is left alone or emptied.
Same(new, old) == new = old \/ new = <<>>

\* What a step of party idx leaves: the links it does not use, the data of
\* the others, and party 0's.
LEMMA LinksKept ==
  ASSUME UNCHANGED <<files, sk, alpha>>, pc'[0] = pc[0], NEW i
  PROVE  /\ ToZeroData(i) /\ Same(chl_0'[<<i, 0>>], chl_0[<<i, 0>>]) => ToZeroData(i)'
         /\ FromZeroData(i) /\ Same(chl_1'[<<0, i>>], chl_1[<<0, i>>]) => FromZeroData(i)'
         /\ OutwardData(i) /\ Same(chl_1'[<<i, i + 1>>], chl_1[<<i, i + 1>>]) => OutwardData(i)'
         /\ InwardData(i) /\ Same(chl_0'[<<i + 1, i>>], chl_0[<<i + 1, i>>]) => InwardData(i)'
<1>1. ToZeroData(i) /\ Same(chl_0'[<<i, 0>>], chl_0[<<i, 0>>]) => ToZeroData(i)'
  BY StableSums, StableValues DEF ToZeroData, Same
<1>2. FromZeroData(i) /\ Same(chl_1'[<<0, i>>], chl_1[<<0, i>>]) => FromZeroData(i)'
  BY StableSums, StableValues DEF FromZeroData, Same
<1>3. OutwardData(i) /\ Same(chl_1'[<<i, i + 1>>], chl_1[<<i, i + 1>>]) => OutwardData(i)'
  BY StableValues DEF OutwardData, Same
<1>4. InwardData(i) /\ Same(chl_0'[<<i + 1, i>>], chl_0[<<i + 1, i>>]) => InwardData(i)'
  BY StableValues DEF InwardData, Same
<1> QED BY <1>1, <1>2, <1>3, <1>4

\* A step of another party leaves what party 0 holds.
LEMMA ZeroKept ==
  ASSUME ZeroData, UNCHANGED <<files, sk, alpha, peer, E, m_idx>>,
         pc'[0] = pc[0], pk_HE'[0] = pk_HE[0], ct'[0] = ct[0]
  PROVE  ZeroData'
<1>1. KeysIn' = KeysIn /\ RowsIn' = RowsIn BY DEF KeysIn, RowsIn
<1> QED BY <1>1, StableSums, StableValues DEF ZeroData

\* How far the parties of the chain can be apart.
LEMMA Chained ==
  ASSUME TypeOK, Control, NEW i \in Others, NEW j \in Others, i < j
  PROVE  /\ pc[i] \in Early \cup {"send_on"} => pc[j] \in Early
         /\ pc[i] \in {"send_back", "done"} => pc[j] = "done"
<1> DEFINE Apart(x, y) == /\ pc[x] \in Early \cup {"send_on"} => pc[y] \in Early
                          /\ pc[x] \in {"send_back", "done"} => pc[y] = "done"
           T == {n \in Nat : \A x \in Others : x + n + 1 \in Others => Apart(x, x + n + 1)}
<1> USE Parties
<1>1. ASSUME NEW x \in Others, x + 1 \in Others PROVE Apart(x, x + 1)
  <2>1. x # tn - 1 BY <1>1 DEF Others
  <2>2. Outward(x) /\ Inward(x) BY <2>1 DEF Control
  <2> QED BY <2>2 DEF Outward, Inward, Early, Before
<1>2. 0 \in T
  <2>1. \A x \in Others : x + 0 + 1 = x + 1 OBVIOUS
  <2> HIDE DEF Apart
  <2> QED BY <1>1, <2>1
<1>3. ASSUME NEW n \in T PROVE n + 1 \in T
  <2>0. n \in Nat BY <1>3
  <2> SUFFICES ASSUME NEW x \in Others, x + (n + 1) + 1 \in Others
               PROVE  Apart(x, x + (n + 1) + 1)
    BY <2>0
  <2> DEFINE y == x + n + 1
  <2>1. y \in Others /\ x + (n + 1) + 1 = y + 1 BY <2>0 DEF Others
  <2>2. Apart(x, y) BY <1>3, <2>1
  <2> HIDE DEF y
  <2>3. Apart(y, y + 1) BY <1>1, <2>1
  <2> QED BY <2>1, <2>2, <2>3
<1> HIDE DEF Apart
<1>4. T = Nat BY <1>2, <1>3, InductionOnNat
<1>5. j - i - 1 \in Nat /\ i + (j - i - 1) + 1 = j BY DEF Others
<1>6. Apart(i, j) BY <1>4, <1>5
<1> QED BY <1>6 DEF Apart

\* P0SendCT preserves it: no party has drawn scalars when the chain starts.
LEMMA DataP0SendCT ==
  ASSUME Sure, Sure', Data, P0SendCT
  PROVE  Data'
<1> USE Parties
<1>s. TypeOK /\ Control /\ pc \in [Party -> PCs] /\ peer \in 0..(tn - 2)
      /\ \A i \in Others : i # tn - 1 => i + 1 \in Others
  BY SureFacts
<1> USE <1>s
<1>0. ZeroData BY DEF Data
<1>1. /\ pc[0] = "send_ct" /\ pc'[0] = "recv_ct" /\ \A y \in Others : pc'[y] = pc[y]
      /\ UNCHANGED <<files, sk, alpha, pk_HE, peer, E, m_idx, chl_0>>
  BY DEF P0SendCT, Goto
<1>2. ct'[0] \in CTs /\ \A i \in Others : ct'[i] = ct[i]
  BY SureNext DEF P0SendCT, TypeOK
<1>3. ct'[0] \in Outgoing
  <2>1. PICK r \in [Bins -> Rands] :
          ct' = [ct EXCEPT ![0] = [b \in Bins |->
                   ReEnc(pk_HE[0], HomoSub(@[b], Enc(0, E[b], 0)), r[b])]]
    BY DEF P0SendCT
  <2>2. ct'[0] = [b \in Bins |-> ReEnc(pk_HE[0], HomoSub(ct[0][b], Enc(0, E[b], 0)), r[b])]
    BY <2>1 DEF TypeOK
  <2>3. KeysIn = tn - 1 /\ RowsIn = tn - 1 BY <1>1 DEF KeysIn, RowsIn, Closing
  <2>4. pk_HE[0] = KeySum(tn - 1) BY <1>0, <2>3 DEF ZeroData
  <2>5. \A b \in Bins : /\ E[b] = SumOver("e", tn - 1, b)
                        /\ Under(ct[0][b], SumOver("d", tn - 1, b), KeySum(tn - 1))
    BY <1>0, <1>1, <2>3 DEF ZeroData
  <2>6. ASSUME NEW i \in Others PROVE alpha[i] = [b \in Bins |-> 1]
    <3>1. pc[i] \notin After BY <1>1 DEF Control
    <3>2. pc[i] \in Early BY <3>1 DEF After, Early, Before, TypeOK
    <3> QED BY <3>2 DEF Data, PartyData
  <2>7. ct[0] \in CTs BY DEF TypeOK
  <2> QED BY <2>2, <2>4, <2>5, <2>6, <2>7, StartOut
<1>4. /\ chl_1'[<<0, 1>>] # <<>> /\ Head(chl_1'[<<0, 1>>]) = CTsMsg(ct'[0])
      /\ \A a, b \in Party : a # 0 \/ b # 1 => chl_1'[<<a, b>>] = chl_1[<<a, b>>]
  <2>1. chl_1' = Send(chl_1, 0, 0, CTsMsg(ct'[0])) /\ PeerOf(0, 0) = 1
    BY Peers DEF P0SendCT
  <2>2. CTsMsg(ct'[0]) \in Messages BY <1>2, MessageTypes
  <2>3. chl_1 \in Links /\ Len(chl_1'[<<0, 1>>]) <= 1 /\ 1 \in Party BY SureFacts, SureNext
  <2> QED BY <2>1, <2>2, <2>3, Sent
<1>5. ASSUME NEW i \in Others PROVE ToZeroData(i)' /\ FromZeroData(i)' /\ PartyData(i)'
  <2>1. ToZeroData(i) /\ FromZeroData(i) /\ PartyData(i) BY DEF Data
  <2>2. PartyData(i)' BY <1>1, <1>2, <2>1, PartyKept
  <2>3. ToZeroData(i)' BY <1>1, <2>1, StableSums, StableValues DEF ToZeroData, Closing
  <2>4. CASE i = 1
    BY <1>1, <1>3, <1>4, <2>2, <2>3, <2>4, StableValues DEF FromZeroData, CTsMsg
  <2>5. CASE i # 1
    BY <1>1, <1>4, <2>1, <2>2, <2>3, <2>5, StableSums, StableValues DEF FromZeroData
  <2> QED BY <2>4, <2>5
<1>6. ASSUME NEW i \in Others, i # tn - 1 PROVE OutwardData(i)' /\ InwardData(i)'
  <2>1. OutwardData(i) /\ InwardData(i) BY <1>6 DEF Data
  <2>2. i + 1 \in Party /\ i \in Party BY <1>6
  <2> QED BY <1>1, <1>4, <2>1, <2>2, StableValues DEF OutwardData, InwardData
<1>7. ZeroData'
  <2>1. KeysIn' = KeysIn BY <1>1 DEF KeysIn
  <2> QED BY <1>0, <1>1, <2>1, StableSums DEF ZeroData
<1> QED BY <1>5, <1>6, <1>7 DEF Data

\* P0RecvCT preserves it: what party 0 tests is under its own key alone.
LEMMA DataP0RecvCT ==
  ASSUME Sure, Sure', Data, P0RecvCT
  PROVE  Data'
<1> USE Parties
<1>s. TypeOK /\ Control /\ pc \in [Party -> PCs] /\ peer \in 0..(tn - 2)
      /\ \A i \in Others : i # tn - 1 => i + 1 \in Others
  BY SureFacts
<1> USE <1>s
<1>0. ZeroData BY DEF Data
<1>1. /\ pc[0] = "recv_ct" /\ pc'[0] = "done" /\ \A y \in Others : pc'[y] = pc[y]
      /\ UNCHANGED <<files, sk, alpha, pk_HE, peer, E, chl_1>>
  BY DEF P0RecvCT, Goto
<1>2. /\ chl_0[<<1, 0>>] # <<>> /\ Head(chl_0[<<1, 0>>]).size = "cts"
      /\ Inbox(chl_0, 0, 0) = chl_0[<<1, 0>>] /\ chl_0'[<<1, 0>>] = <<>>
      /\ \A a, b \in Party : b # 0 \/ a # 1 => chl_0'[<<a, b>>] = chl_0[<<a, b>>]
  <2>1. CanRecv(chl_0, 0, 0, "cts") /\ chl_0' = Recv(chl_0, 0, 0) /\ PeerOf(0, 0) = 1
    BY Peers DEF P0RecvCT
  <2>2. chl_0 \in Links /\ Len(chl_0[<<1, 0>>]) <= 1 BY SureFacts
  <2> DEFINE p == 1
             j == 0
  <2>3. /\ CanRecv(chl_0, 0, j, "cts") /\ chl_0' = Recv(chl_0, 0, j) /\ chl_0 \in Links
        /\ PeerOf(0, j) = p /\ Len(chl_0[<<p, 0>>]) <= 1 /\ 0 \in Party /\ p \in Party
    BY <2>1, <2>2
  <2> HIDE DEF p, j
  <2>4. /\ chl_0[<<p, 0>>] # <<>> /\ Head(chl_0[<<p, 0>>]).size = "cts"
        /\ Inbox(chl_0, 0, j) = chl_0[<<p, 0>>] /\ chl_0'[<<p, 0>>] = <<>>
        /\ \A a, b \in Party : b # 0 \/ a # p => chl_0'[<<a, b>>] = chl_0[<<a, b>>]
    BY ONLY <2>3, Got
  <2> QED BY <2>4 DEF p, j
<1>3. /\ ct'[0] = Head(chl_0[<<1, 0>>]).body /\ \A i \in Others : ct'[i] = ct[i]
      /\ m_idx' = {b \in Bins : Get_intersection(sk[0], ct'[0][b])}
  BY <1>2 DEF P0RecvCT, TypeOK
<1>5. ASSUME NEW i \in Others PROVE ToZeroData(i)' /\ FromZeroData(i)' /\ PartyData(i)'
  <2>1. ToZeroData(i) /\ FromZeroData(i) /\ PartyData(i) BY DEF Data
  <2>2. PartyData(i)' BY <1>1, <1>3, <2>1, PartyKept
  <2>3. FromZeroData(i)' BY <1>1, <2>1, StableSums, StableValues DEF FromZeroData
  <2>4. ToZeroData(i)'
    BY <1>1, <1>2, <2>1, StableSums, StableValues DEF ToZeroData, Closing
  <2> QED BY <2>2, <2>3, <2>4
<1>6. ASSUME NEW i \in Others, i # tn - 1 PROVE OutwardData(i)' /\ InwardData(i)'
  <2>1. OutwardData(i) /\ InwardData(i) BY <1>6 DEF Data
  <2>2. i + 1 \in Party /\ i \in Party BY <1>6
  <2> QED BY <1>1, <1>2, <2>1, <2>2, StableValues DEF OutwardData, InwardData
<1>7. ZeroData'
  <2>1. KeysIn' = KeysIn BY <1>1 DEF KeysIn
  <2>2. ToZeroData(1) BY DEF Data
  <2>3. ct'[0] \in Incoming(0) BY <1>1, <1>2, <1>3, <2>2 DEF ToZeroData, Closing
  <2> QED BY <1>0, <1>1, <1>3, <2>1, <2>3, StableSums, StableValues DEF ZeroData
<1> QED BY <1>5, <1>6, <1>7 DEF Data

\* SendPk preserves it.
LEMMA DataSendPk ==
  ASSUME Sure, Sure', Data, NEW idx \in Others, SendPk(idx)
  PROVE  Data'
<1> USE Parties
<1>s. TypeOK /\ Control /\ pc \in [Party -> PCs] /\ peer \in 0..(tn - 2)
      /\ \A i \in Others : i # tn - 1 => i + 1 \in Others
  BY SureFacts
<1> USE <1>s
<1>1. /\ pc[idx] = "send_pk" /\ pc'[idx] = "recv_pk_HE"
      /\ \A y \in Party : y # idx => pc'[y] = pc[y]
      /\ UNCHANGED <<files, sk, alpha, pk_HE, ct, peer, E, m_idx, chl_1>>
  BY DEF SendPk, Goto
<1>2. /\ chl_0'[<<idx, 0>>] # <<>> /\ Head(chl_0'[<<idx, 0>>]) = PointMsg(sk[idx])
      /\ \A a, b \in Party : a # idx \/ b # 0 => chl_0'[<<a, b>>] = chl_0[<<a, b>>]
  <2>1. chl_0' = Send(chl_0, idx, 0, PointMsg(sk[idx])) /\ PeerOf(idx, 0) = 0
    BY Peers DEF SendPk
  <2>2. sk[idx] \in Int BY JPEQTAssumption DEF TypeOK
  <2>3. PointMsg(sk[idx]) \in Messages BY <2>2, MessageTypes
  <2>4. chl_0 \in Links /\ Len(chl_0'[<<idx, 0>>]) <= 1 BY SureFacts, SureNext
  <2> QED BY <2>1, <2>3, <2>4, Sent
<1>3. ASSUME NEW i \in Others PROVE ToZeroData(i)' /\ FromZeroData(i)' /\ PartyData(i)'
  <2>1. ToZeroData(i) /\ FromZeroData(i) /\ PartyData(i) BY DEF Data
  <2>2. FromZeroData(i)' BY <1>1, <2>1, LinksKept DEF Same
  <2>3. CASE i = idx
    BY <1>1, <1>2, <2>1, <2>2, <2>3, StableSums, StableValues
    DEF ToZeroData, PartyData, PointMsg, Early, Before
  <2>4. CASE i # idx
    BY <1>1, <1>2, <2>1, <2>2, <2>4, LinksKept, PartyKept DEF Same
  <2> QED BY <2>3, <2>4
<1>4. ASSUME NEW i \in Others, i # tn - 1 PROVE OutwardData(i)' /\ InwardData(i)'
  <2>1. OutwardData(i) /\ InwardData(i) BY <1>4 DEF Data
  <2>2. i + 1 \in Party /\ i \in Party BY <1>4
  <2> QED BY <1>1, <1>2, <2>1, <2>2, LinksKept DEF Same
<1>5. ZeroData' BY <1>1, ZeroKept DEF Data
<1> QED BY <1>3, <1>4, <1>5 DEF Data

\* RecvPkHE preserves it: the key received is the joint key.
LEMMA DataRecvPkHE ==
  ASSUME Sure, Sure', Data, NEW idx \in Others, RecvPkHE(idx)
  PROVE  Data'
<1> USE Parties
<1>s. TypeOK /\ Control /\ pc \in [Party -> PCs] /\ peer \in 0..(tn - 2)
      /\ \A i \in Others : i # tn - 1 => i + 1 \in Others
  BY SureFacts
<1> USE <1>s
<1>1. /\ pc[idx] = "recv_pk_HE" /\ pc'[idx] = "send_ct_d"
      /\ \A y \in Party : y # idx => pc'[y] = pc[y]
      /\ UNCHANGED <<files, sk, alpha, ct, peer, E, m_idx, chl_0>>
  BY DEF RecvPkHE, Goto
<1>2. /\ chl_1[<<0, idx>>] # <<>> /\ Head(chl_1[<<0, idx>>]).size = "point"
      /\ Inbox(chl_1, idx, 0) = chl_1[<<0, idx>>] /\ chl_1'[<<0, idx>>] = <<>>
      /\ \A a, b \in Party : b # idx \/ a # 0 => chl_1'[<<a, b>>] = chl_1[<<a, b>>]
  <2>1. /\ CanRecv(chl_1, idx, 0, "point") /\ chl_1' = Recv(chl_1, idx, 0)
        /\ PeerOf(idx, 0) = 0
    BY Peers DEF RecvPkHE
  <2>2. chl_1 \in Links /\ Len(chl_1[<<0, idx>>]) <= 1 BY SureFacts
  <2> DEFINE p == 0
  <2>3. PeerOf(idx, 0) = p /\ Len(chl_1[<<p, idx>>]) <= 1 /\ idx \in Party /\ p \in Party
    BY <2>1, <2>2
  <2> HIDE DEF p
  <2>4. /\ chl_1[<<p, idx>>] # <<>> /\ Head(chl_1[<<p, idx>>]).size = "point"
        /\ Inbox(chl_1, idx, 0) = chl_1[<<p, idx>>] /\ chl_1'[<<p, idx>>] = <<>>
        /\ \A a, b \in Party : b # idx \/ a # p => chl_1'[<<a, b>>] = chl_1[<<a, b>>]
    BY ONLY <2>1, <2>2, <2>3, Got
  <2> QED BY <2>4 DEF p
<1>6. /\ pk_HE'[idx] = Head(chl_1[<<0, idx>>]).body
      /\ \A y \in Party : y # idx => pk_HE'[y] = pk_HE[y]
  BY <1>2 DEF RecvPkHE, TypeOK
<1>3. ASSUME NEW i \in Others PROVE ToZeroData(i)' /\ FromZeroData(i)' /\ PartyData(i)'
  <2>1. ToZeroData(i) /\ FromZeroData(i) /\ PartyData(i) BY DEF Data
  <2>2. ToZeroData(i)' BY <1>1, <2>1, LinksKept DEF Same
  <2>3. CASE i = idx
    <3>1. pk_HE'[i] = KeySum(tn - 1) BY <1>2, <1>6, <2>1, <2>3 DEF FromZeroData
    <3>2. FromZeroData(i)' BY <1>2, <2>3 DEF FromZeroData
    <3>3. PartyData(i)'
      BY <1>1, <2>1, <2>3, <3>1, StableSums DEF PartyData, Early, Before
    <3> QED BY <2>2, <3>2, <3>3
  <2>4. CASE i # idx
    BY <1>1, <1>2, <1>6, <2>1, <2>2, <2>4, LinksKept, PartyKept DEF Same
  <2> QED BY <2>3, <2>4
<1>4. ASSUME NEW i \in Others, i # tn - 1 PROVE OutwardData(i)' /\ InwardData(i)'
  <2>1. OutwardData(i) /\ InwardData(i) BY <1>4 DEF Data
  <2>2. i + 1 \in Party /\ i \in Party BY <1>4
  <2> QED BY <1>1, <1>2, <2>1, <2>2, LinksKept DEF Same
<1>5. ZeroData' BY <1>1, <1>6, ZeroKept DEF Data
<1> QED BY <1>3, <1>4, <1>5 DEF Data

-----------------------------------------------------------------------------
(* The rows and the chain of the others. *)

\* SendCTd preserves it: the row sent is under the joint key.
LEMMA DataSendCTd ==
  ASSUME Sure, Sure', Data, NEW idx \in Others, SendCTd(idx)
  PROVE  Data'
<1> USE Parties
<1>s. TypeOK /\ Control /\ pc \in [Party -> PCs] /\ peer \in 0..(tn - 2)
      /\ \A i \in Others : i # tn - 1 => i + 1 \in Others
  BY SureFacts
<1> USE <1>s
<1>1. /\ pc[idx] = "send_ct_d" /\ pc'[idx] = "recv_ct"
      /\ \A y \in Party : y # idx => pc'[y] = pc[y]
      /\ UNCHANGED <<files, sk, alpha, pk_HE, peer, E, m_idx, chl_1>>
  BY DEF SendCTd, Goto
<1>2. /\ ct'[idx] \in RowOf(idx) /\ ct'[idx] \in CTs
      /\ \A y \in Party : y # idx => ct'[y] = ct[y]
  <2>1. PICK r \in [Bins -> Rands] :
          ct' = [ct EXCEPT ![idx] = [b \in Bins |-> Enc(pk_HE[idx], read_d(idx)[b], r[b])]]
    BY DEF SendCTd
  <2>2. /\ ct'[idx] = [b \in Bins |-> Enc(pk_HE[idx], read_d(idx)[b], r[b])]
        /\ \A y \in Party : y # idx => ct'[y] = ct[y]
    BY <2>1 DEF TypeOK
  <2>3. pk_HE[idx] = KeySum(tn - 1) BY <1>1 DEF Data, PartyData
  <2>4. ct'[idx] \in RowOf(idx) BY <2>2, <2>3, EncRow
  <2> QED BY <2>2, <2>4 DEF RowOf
<1>3. /\ chl_0'[<<idx, 0>>] # <<>> /\ Head(chl_0'[<<idx, 0>>]) = CTsMsg(ct'[idx])
      /\ \A a, b \in Party : a # idx \/ b # 0 => chl_0'[<<a, b>>] = chl_0[<<a, b>>]
  <2>1. chl_0' = Send(chl_0, idx, 0, CTsMsg(ct'[idx])) /\ PeerOf(idx, 0) = 0
    BY Peers DEF SendCTd
  <2>2. CTsMsg(ct'[idx]) \in Messages BY <1>2, MessageTypes
  <2>3. chl_0 \in Links /\ Len(chl_0'[<<idx, 0>>]) <= 1 BY SureFacts, SureNext
  <2> QED BY <2>1, <2>2, <2>3, Sent
<1>4. pc[0] \notin Closing
  <2>1. ToZero(idx) BY DEF Control
  <2> QED BY <1>1, <2>1 DEF ToZero, Before, GotCTd
<1>5. ASSUME NEW i \in Others PROVE ToZeroData(i)' /\ FromZeroData(i)' /\ PartyData(i)'
  <2>1. ToZeroData(i) /\ FromZeroData(i) /\ PartyData(i) BY DEF Data
  <2>2. FromZeroData(i)' BY <1>1, <2>1, LinksKept DEF Same
  <2>3. CASE i = idx
    <3>1. ToZeroData(i)'
      BY <1>1, <1>2, <1>3, <1>4, <2>3, StableSums DEF ToZeroData, CTsMsg
    <3>2. PartyData(i)' BY <1>1, <2>1, <2>3, StableSums DEF PartyData, Early, Before
    <3> QED BY <2>2, <3>1, <3>2
  <2>4. CASE i # idx
    BY <1>1, <1>2, <1>3, <2>1, <2>2, <2>4, LinksKept, PartyKept DEF Same
  <2> QED BY <2>3, <2>4
<1>6. ASSUME NEW i \in Others, i # tn - 1 PROVE OutwardData(i)' /\ InwardData(i)'
  <2>1. OutwardData(i) /\ InwardData(i) BY <1>6 DEF Data
  <2>2. i + 1 \in Party /\ i \in Party BY <1>6
  <2> QED BY <1>1, <1>3, <2>1, <2>2, LinksKept DEF Same
<1>7. ZeroData' BY <1>1, <1>2, ZeroKept DEF Data
<1> QED BY <1>5, <1>6, <1>7 DEF Data

\* While the vector is on its way to party idx it is nowhere else.
LEMMA Underway ==
  ASSUME TypeOK, Control, NEW idx \in Others, pc[idx] = "recv_ct",
         chl_1[<<idx - 1, idx>>] # <<>>
  PROVE  /\ \A i \in Others : i < idx => pc[i] = "recv_back"
         /\ \A i \in Others : i > idx => pc[i] \in Early
<1> USE Parties
<1>1. ASSUME NEW i \in Others, i > idx PROVE pc[i] \in Early
  BY <1>1, Chained DEF Early
<1>2. ASSUME NEW i \in Others, i < idx PROVE pc[i] = "recv_back"
  <2> DEFINE k == idx - 1
  <2>1. k \in Others /\ k # tn - 1 /\ k + 1 = idx BY <1>2 DEF Others
  <2> HIDE DEF k
  <2>2. Outward(k) BY <2>1 DEF Control
  <2>3. chl_1[<<k, k + 1>>] # <<>> BY <2>1 DEF k
  <2>4. pc[k] \in {"recv_back", "send_back", "done"} BY <2>2, <2>3 DEF Outward, Empty
  <2>5. pc[i] \notin {"send_back", "done"} BY <1>2, Chained
  <2>6. pc[i] \notin Early \cup {"send_on"}
    <3>1. CASE i = k BY <2>4, <3>1 DEF Early, Before
    <3>2. CASE i # k
      <4>1. i < k BY <1>2, <3>2 DEF k, Others
      <4>2. pc[k] \notin Early BY <2>4 DEF Early, Before
      <4> QED BY <2>1, <4>1, <4>2, Chained
    <3> QED BY <3>1, <3>2
  <2> QED BY <2>5, <2>6 DEF TypeOK, Early, Before
<1> QED BY <1>1, <1>2

\* RecvCT preserves it: it changes the blinding of every vector of the chain,
\* and the only such vector is the one it holds.
LEMMA DataRecvCT ==
  ASSUME Sure, Sure', Data, NEW idx \in Others, RecvCT(idx)
  PROVE  Data'
<1> USE Parties
<1>s. TypeOK /\ Control /\ pc \in [Party -> PCs] /\ peer \in 0..(tn - 2)
      /\ \A i \in Others : i # tn - 1 => i + 1 \in Others
  BY SureFacts
<1> USE <1>s
<1> DEFINE k == idx - 1
           m == Head(chl_1[<<k, idx>>])
<1>1. /\ pc[idx] = "recv_ct"
      /\ pc'[idx] = IF idx = tn - 1 THEN "send_back" ELSE "send_on"
      /\ \A y \in Party : y # idx => pc'[y] = pc[y]
      /\ UNCHANGED <<files, sk, pk_HE, peer, E, m_idx, chl_0>>
  BY DEF RecvCT, Goto
<1>2. /\ chl_1[<<k, idx>>] # <<>> /\ m.size = "cts"
      /\ Inbox(chl_1, idx, k) = chl_1[<<k, idx>>] /\ chl_1'[<<k, idx>>] = <<>>
      /\ \A a, b \in Party : b # idx \/ a # k => chl_1'[<<a, b>>] = chl_1[<<a, b>>]
  <2>1. CanRecv(chl_1, idx, k, "cts") /\ chl_1' = Recv(chl_1, idx, k) BY DEF RecvCT
  <2>2. PeerOf(idx, k) = k /\ k \in Party /\ idx \in Party BY Peers
  <2>3. chl_1 \in Links /\ Len(chl_1[<<k, idx>>]) <= 1 BY <2>2, SureFacts
  <2> DEFINE j == k
  <2>4. /\ CanRecv(chl_1, idx, j, "cts") /\ chl_1' = Recv(chl_1, idx, j)
        /\ PeerOf(idx, j) = k
    BY <2>1, <2>2
  <2>6. k \in Party /\ idx \in Party BY <2>2
  <2> HIDE DEF k, j
  <2>5. /\ chl_1[<<k, idx>>] # <<>> /\ Head(chl_1[<<k, idx>>]).size = "cts"
        /\ Inbox(chl_1, idx, j) = chl_1[<<k, idx>>] /\ chl_1'[<<k, idx>>] = <<>>
        /\ \A a, b \in Party : b # idx \/ a # k => chl_1'[<<a, b>>] = chl_1[<<a, b>>]
    BY ONLY <2>6, <2>3, <2>4, Got
  <2> QED BY <2>5 DEF j
<1>3. /\ \A i \in Others : i < idx => pc[i] = "recv_back"
      /\ \A i \in Others : i > idx => pc[i] \in Early
  BY <1>1, <1>2, Underway
<1>4. alpha[idx] = [b \in Bins |-> 1] BY <1>1 DEF Data, PartyData, Early
<1>5. m.body \in Outgoing
  <2>1. CASE idx = 1 BY <1>2, <2>1 DEF Data, FromZeroData
  <2>2. CASE idx # 1
    <3>1. k \in Others /\ k # tn - 1 /\ k + 1 = idx BY <2>2 DEF Others
    <3>2. OutwardData(k) BY <3>1 DEF Data
    <3> QED BY <1>2, <3>1, <3>2 DEF OutwardData
  <2> QED BY <2>1, <2>2
<1>6. PICK a \in [Bins -> Alphas] :
        /\ alpha' = [alpha EXCEPT ![idx] = a]
        /\ ct' = [ct EXCEPT ![idx] = [b \in Bins |-> ScalarMul(m.body[b], a[b])]]
  BY <1>2 DEF RecvCT
<1> HIDE DEF m, k
<1>7. /\ alpha'[idx] = a /\ ct'[idx] = [b \in Bins |-> ScalarMul(m.body[b], a[b])]
      /\ \A y \in Party : y # idx => alpha'[y] = alpha[y] /\ ct'[y] = ct[y]
  BY <1>6 DEF TypeOK
<1>8. ct'[idx] \in Outgoing'
  <2>1. TypeOK' /\ UNCHANGED <<files, sk>> BY <1>1, SureNext
  <2>2. [b \in Bins |-> ScalarMul(m.body[b], a[b])] \in Outgoing'
    BY <1>4, <1>5, <1>6, <2>1, Scaled
  <2> QED BY <1>7, <2>2
\* No other socket holds a vector of the chain.
<1>9. ASSUME NEW i \in Others, pc[0] \in Closing PROVE chl_0[<<i, 0>>] = <<>>
  <2>1. ToZero(i) /\ GotCTd(i) BY <1>9 DEF Control, GotCTd
  <2>2. pc[i] # "done"
    BY <1>1, <1>3 DEF Early, Before, Others
  <2> QED BY <2>1, <2>2 DEF ToZero, Empty
<1>10. ASSUME NEW i \in Others
       PROVE  chl_1'[<<0, i>>] # <<>> => /\ chl_1'[<<0, i>>] = chl_1[<<0, i>>]
                                         /\ Head(chl_1[<<0, i>>]).size = "point"
  <2> SUFFICES ASSUME chl_1'[<<0, i>>] # <<>>
               PROVE  /\ chl_1'[<<0, i>>] = chl_1[<<0, i>>]
                      /\ Head(chl_1[<<0, i>>]).size = "point"
    OBVIOUS
  <2>1. chl_1'[<<0, i>>] = chl_1[<<0, i>>] BY <1>2
  <2>2. FromZero(i) BY DEF Control
  <2>3. pc[i] \in {"send_pk", "recv_pk_HE"} \/ (i = 1 /\ pc[1] \in Early)
    BY <2>1, <2>2 DEF FromZero, Empty, After, Early, Before, TypeOK
  <2>4. CASE pc[i] \in {"send_pk", "recv_pk_HE"}
    BY <2>1, <2>2, <2>4, Heads DEF FromZero, Empty
  <2>5. CASE i = 1 /\ pc[1] \in Early
    <3>1. idx = 1 \/ pc[1] = "recv_back" BY <1>3 DEF Others
    <3>2. idx = 1 BY <2>5, <3>1 DEF Early, Before
    <3>3. k = 0 BY <3>2 DEF k
    <3> QED BY <1>2, <2>5, <3>2, <3>3
  <2> QED BY <2>3, <2>4, <2>5
<1>11. ASSUME NEW i \in Others, i # tn - 1
       PROVE  chl_1'[<<i, i + 1>>] = <<>> /\ chl_0[<<i + 1, i>>] = <<>>
  <2>0. i + 1 \in Others /\ i \in Party /\ i + 1 \in Party BY <1>11
  <2>1. Outward(i) /\ Inward(i) BY <1>11 DEF Control
  <2>2. pc[i + 1] # "done" BY <1>1, <1>3, <2>0 DEF Early, Before, Others
  <2>3. chl_0[<<i + 1, i>>] = <<>> BY <2>1, <2>2 DEF Inward, Empty
  <2>4. CASE i + 1 = idx
    <3>1. i = k BY <2>4 DEF k, Others
    <3> QED BY <1>2, <2>3, <2>4, <3>1
  <2>5. CASE i + 1 < idx
    <3>1. pc[i] = "recv_back" /\ pc[i + 1] = "recv_back"
      BY <1>3, <2>0, <2>5 DEF Others
    <3>2. chl_1[<<i, i + 1>>] = <<>> BY <2>1, <3>1 DEF Outward, Empty
    <3> QED BY <1>2, <2>0, <2>3, <2>5, <3>2
  <2>6. CASE i + 1 > idx
    <3>1. pc[i] \in Early
      <4>1. i = idx \/ i > idx BY <2>6 DEF Others
      <4> QED BY <1>1, <1>3, <4>1 DEF Early
    <3>2. chl_1[<<i, i + 1>>] = <<>> BY <2>1, <3>1 DEF Outward, Empty, Early, Before
    <3> QED BY <1>2, <2>0, <2>3, <2>6, <3>2
  <2> QED BY <2>4, <2>5, <2>6 DEF Others
<1>12. ASSUME NEW i \in Others PROVE ToZeroData(i)' /\ FromZeroData(i)' /\ PartyData(i)'
  <2>1. ToZeroData(i) /\ FromZeroData(i) /\ PartyData(i) BY DEF Data
  <2>2. ToZeroData(i)' BY <1>1, <1>9, <2>1, StableSums DEF ToZeroData
  <2>3. FromZeroData(i)' BY <1>1, <1>10, <2>1, StableSums DEF FromZeroData
  <2>4. PartyData(i)'
    <3>1. CASE i = idx
      <4>1. pk_HE'[i] = KeySum(tn - 1)' BY <1>1, <2>1, <3>1, StableSums DEF PartyData
      <4>2. pc'[i] \notin Early /\ pc'[i] # "done" BY <1>1, <3>1 DEF Early, Before
      <4>3. pc'[i] = "send_back" => ct'[i] \in Incoming(i)'
        <5>1. CASE idx = tn - 1
          <6>1. PICK p \in Orders : \A b \in Bins : p[b] = b BY OrdersFacts
          <6>2. /\ \A b \in Bins : Under(ct'[i][b], Value(p[b])', KeySum(i)')
                /\ ct'[i] \in CTs
            BY <1>8, <3>1, <5>1, <6>1 DEF Outgoing
          <6>3. ct'[i] \in Incoming(i)' BY <6>1, <6>2 DEF Incoming
          <6> QED BY <6>3
        <5>2. CASE idx # tn - 1 BY <1>1, <3>1, <5>2
        <5> QED BY <5>1, <5>2
      <4> QED BY <1>7, <1>8, <3>1, <4>1, <4>2, <4>3 DEF PartyData
    <3>2. CASE i # idx
      <4>1. pc[i] = "recv_back" \/ pc[i] \in Early
        <5>1. i < idx \/ i > idx BY <3>2 DEF Others
        <5> QED BY <1>3, <5>1
      <4>2. pc'[i] = pc[i] /\ alpha'[i] = alpha[i] /\ pk_HE'[i] = pk_HE[i]
        BY <1>1, <1>7, <3>2
      <4>3. pc[i] \notin {"send_on", "send_back", "done"} BY <4>1 DEF Early, Before
      <4> QED BY <1>1, <2>1, <4>2, <4>3, StableSums DEF PartyData
    <3> QED BY <3>1, <3>2
  <2> QED BY <2>2, <2>3, <2>4
<1>13. ASSUME NEW i \in Others, i # tn - 1 PROVE OutwardData(i)' /\ InwardData(i)'
  BY <1>1, <1>11, <1>13 DEF OutwardData, InwardData
<1>14. ZeroData'
  <2>1. pc[0] # "done"
    <3>1. pc[1] # "done" BY <1>1, <1>3 DEF Others
    <3> QED BY <3>1 DEF Control
  <2>2. pc'[0] = pc[0] /\ ct'[0] = ct[0] BY <1>1, <1>7
  <2>3. KeysIn' = KeysIn /\ RowsIn' = RowsIn BY <1>1, <2>2 DEF KeysIn, RowsIn
  <2> QED BY <1>1, <2>1, <2>2, <2>3, StableSums DEF Data, ZeroData
<1> QED BY <1>12, <1>13, <1>14 DEF Data

\* SendOn preserves it.
LEMMA DataSendOn ==
  ASSUME Sure, Sure', Data, NEW idx \in Others, SendOn(idx)
  PROVE  Data'
<1> USE Parties
<1>s. TypeOK /\ Control /\ pc \in [Party -> PCs] /\ peer \in 0..(tn - 2)
      /\ \A i \in Others : i # tn - 1 => i + 1 \in Others
  BY SureFacts
<1> USE <1>s
<1> DEFINE n == idx + 1
<1>1. /\ pc[idx] = "send_on" /\ pc'[idx] = "recv_back"
      /\ \A y \in Party : y # idx => pc'[y] = pc[y]
      /\ UNCHANGED <<files, sk, alpha, pk_HE, ct, peer, E, m_idx, chl_0>>
  BY DEF SendOn, Goto
<1>2. idx # tn - 1 /\ n \in Others /\ n # idx /\ n # 0
  BY <1>1 DEF TypeOK
<1>3. ct[idx] \in Outgoing /\ ct[idx] \in CTs BY <1>1 DEF Data, PartyData, Outgoing
<1>4. /\ chl_1'[<<idx, n>>] # <<>> /\ Head(chl_1'[<<idx, n>>]) = CTsMsg(ct[idx])
      /\ \A a, b \in Party : a # idx \/ b # n => chl_1'[<<a, b>>] = chl_1[<<a, b>>]
  <2>1. chl_1' = Send(chl_1, idx, idx, CTsMsg(ct[idx])) /\ PeerOf(idx, idx) = n
    BY Peers DEF SendOn
  <2>2. CTsMsg(ct[idx]) \in Messages BY <1>3, MessageTypes
  <2>3. chl_1 \in Links /\ Len(chl_1'[<<idx, n>>]) <= 1 /\ n \in Party /\ idx \in Party
    BY <1>2, SureFacts, SureNext
  <2> HIDE DEF n
  <2> QED BY ONLY <2>1, <2>2, <2>3, Sent
<1>5. ASSUME NEW i \in Others PROVE ToZeroData(i)' /\ FromZeroData(i)' /\ PartyData(i)'
  <2>1. ToZeroData(i) /\ FromZeroData(i) /\ PartyData(i) BY DEF Data
  <2>2. ToZeroData(i)' BY <1>1, <2>1, LinksKept DEF Same
  <2>3. chl_1'[<<0, i>>] = chl_1[<<0, i>>] BY <1>4
  <2>4. FromZeroData(i)' BY <1>1, <2>1, <2>3, LinksKept DEF Same
  <2>5. PartyData(i)'
    <3>1. CASE i = idx BY <1>1, <2>1, <3>1, StableSums DEF PartyData, Early, Before
    <3>2. CASE i # idx BY <1>1, <2>1, <3>2, PartyKept
    <3> QED BY <3>1, <3>2
  <2> QED BY <2>2, <2>4, <2>5
<1>6. ASSUME NEW i \in Others, i # tn - 1 PROVE OutwardData(i)' /\ InwardData(i)'
  <2>1. OutwardData(i) /\ InwardData(i) BY <1>6 DEF Data
  <2>2. i + 1 \in Party /\ i \in Party BY <1>6
  <2>3. InwardData(i)' BY <1>1, <2>1, LinksKept DEF Same
  <2>4. CASE i = idx
    BY <1>1, <1>3, <1>4, <2>3, <2>4, StableValues DEF OutwardData, CTsMsg
  <2>5. CASE i # idx BY <1>1, <1>4, <2>1, <2>2, <2>3, <2>5, LinksKept DEF Same
  <2> QED BY <2>4, <2>5
<1>7. ZeroData' BY <1>1, ZeroKept DEF Data
<1> QED BY <1>5, <1>6, <1>7 DEF Data

\* RecvBack preserves it: the vector replaces the one sent out.
LEMMA DataRecvBack ==
  ASSUME Sure, Sure', Data, NEW idx \in Others, RecvBack(idx)
  PROVE  Data'
<1> USE Parties
<1>s. TypeOK /\ Control /\ pc \in [Party -> PCs] /\ peer \in 0..(tn - 2)
      /\ \A i \in Others : i # tn - 1 => i + 1 \in Others
  BY SureFacts
<1> USE <1>s
<1> DEFINE n == idx + 1
<1>1. /\ pc[idx] = "recv_back" /\ pc'[idx] = "send_back"
      /\ \A y \in Party : y # idx => pc'[y] = pc[y]
      /\ UNCHANGED <<files, sk, alpha, pk_HE, peer, E, m_idx, chl_1>>
  BY DEF RecvBack, Goto
<1>2. idx # tn - 1 /\ n \in Others /\ n # idx /\ n # 0
  BY <1>1 DEF TypeOK
<1>3. /\ chl_0[<<n, idx>>] # <<>>
      /\ Inbox(chl_0, idx, idx) = chl_0[<<n, idx>>] /\ chl_0'[<<n, idx>>] = <<>>
      /\ \A a, b \in Party : b # idx \/ a # n => chl_0'[<<a, b>>] = chl_0[<<a, b>>]
  <2>1. /\ CanRecv(chl_0, idx, idx, "cts") /\ chl_0' = Recv(chl_0, idx, idx)
        /\ PeerOf(idx, idx) = n
    BY Peers DEF RecvBack
  <2>2. chl_0 \in Links /\ Len(chl_0[<<n, idx>>]) <= 1 /\ idx \in Party /\ n \in Party
    BY <1>2, SureFacts
  <2> DEFINE j == idx
  <2>3. /\ CanRecv(chl_0, idx, j, "cts") /\ chl_0' = Recv(chl_0, idx, j)
        /\ PeerOf(idx, j) = n
    BY <2>1
  <2> HIDE DEF n, j
  <2>4. /\ chl_0[<<n, idx>>] # <<>>
        /\ Inbox(chl_0, idx, j) = chl_0[<<n, idx>>] /\ chl_0'[<<n, idx>>] = <<>>
        /\ \A a, b \in Party : b # idx \/ a # n => chl_0'[<<a, b>>] = chl_0[<<a, b>>]
    BY ONLY <2>2, <2>3, Got
  <2> QED BY <2>4 DEF j
<1>4. /\ ct'[idx] = Head(chl_0[<<n, idx>>]).body
      /\ \A y \in Party : y # idx => ct'[y] = ct[y]
  BY <1>3 DEF RecvBack, TypeOK
<1>5. ASSUME NEW i \in Others PROVE ToZeroData(i)' /\ FromZeroData(i)' /\ PartyData(i)'
  <2>1. ToZeroData(i) /\ FromZeroData(i) /\ PartyData(i) BY DEF Data
  <2>2. FromZeroData(i)' BY <1>1, <2>1, LinksKept DEF Same
  <2>3. ToZeroData(i)' BY <1>1, <1>3, <2>1, LinksKept DEF Same
  <2>4. PartyData(i)'
    <3>1. CASE i = idx
      <4>1. InwardData(idx) BY <1>2 DEF Data
      <4>2. ct'[i] \in Incoming(i) BY <1>3, <1>4, <3>1, <4>1 DEF InwardData
      <4> QED BY <1>1, <2>1, <3>1, <4>2, StableSums, StableValues DEF PartyData, Early, Before
    <3>2. CASE i # idx BY <1>1, <1>4, <2>1, <3>2, PartyKept
    <3> QED BY <3>1, <3>2
  <2> QED BY <2>2, <2>3, <2>4
<1>6. ASSUME NEW i \in Others, i # tn - 1 PROVE OutwardData(i)' /\ InwardData(i)'
  <2>1. OutwardData(i) /\ InwardData(i) BY <1>6 DEF Data
  <2>2. i + 1 \in Party /\ i \in Party BY <1>6
  <2>3. OutwardData(i)' BY <1>1, <2>1, LinksKept DEF Same
  <2>4. Same(chl_0'[<<i + 1, i>>], chl_0[<<i + 1, i>>])
    <3>1. CASE i = idx BY <1>3, <3>1 DEF Same
    <3>2. CASE i # idx BY <1>3, <2>2, <3>2 DEF Same
    <3> QED BY <3>1, <3>2
  <2> QED BY <1>1, <2>1, <2>3, <2>4, LinksKept
<1>7. ZeroData' BY <1>1, <1>4, ZeroKept DEF Data
<1> QED BY <1>5, <1>6, <1>7 DEF Data

\* SendBack preserves it: the own layer is removed, the bins permuted.
LEMMA DataSendBack ==
  ASSUME Sure, Sure', Data, NEW idx \in Others, SendBack(idx)
  PROVE  Data'
<1> USE Parties
<1>s. TypeOK /\ Control /\ pc \in [Party -> PCs] /\ peer \in 0..(tn - 2)
      /\ \A i \in Others : i # tn - 1 => i + 1 \in Others
  BY SureFacts
<1> USE <1>s
<1> DEFINE k == idx - 1
<1>1. /\ pc[idx] = "send_back" /\ pc'[idx] = "done"
      /\ \A y \in Party : y # idx => pc'[y] = pc[y]
      /\ UNCHANGED <<files, sk, alpha, pk_HE, peer, E, m_idx, chl_1>>
  BY DEF SendBack, Goto
<1>2. /\ ct'[idx] \in Incoming(k) /\ ct'[idx] \in CTs
      /\ \A y \in Party : y # idx => ct'[y] = ct[y]
  <2>1. PICK pi \in Orders :
          ct' = [ct EXCEPT ![idx] = [b \in Bins |-> Dec(sk[idx], @[pi[b]])]]
    BY DEF SendBack, Orders
  <2>2. /\ ct'[idx] = [b \in Bins |-> Dec(sk[idx], ct[idx][pi[b]])]
        /\ \A y \in Party : y # idx => ct'[y] = ct[y]
    BY <2>1 DEF TypeOK
  <2>3. ct[idx] \in Incoming(idx) BY <1>1 DEF Data, PartyData
  <2>4. ct'[idx] \in Incoming(k) BY <2>2, <2>3, Peeled
  <2> QED BY <2>2, <2>4 DEF Incoming
<1>3. /\ chl_0'[<<idx, k>>] # <<>> /\ Head(chl_0'[<<idx, k>>]) = CTsMsg(ct'[idx])
      /\ \A a, b \in Party : a # idx \/ b # k => chl_0'[<<a, b>>] = chl_0[<<a, b>>]
  <2>1. chl_0' = Send(chl_0, idx, k, CTsMsg(ct'[idx])) /\ PeerOf(idx, k) = k
    BY Peers DEF SendBack
  <2>2. CTsMsg(ct'[idx]) \in Messages BY <1>2, MessageTypes
  <2>3. chl_0 \in Links /\ Len(chl_0'[<<idx, k>>]) <= 1 /\ k \in Party /\ idx \in Party
    BY SureFacts, SureNext
  <2> HIDE DEF k
  <2> QED BY ONLY <2>1, <2>2, <2>3, Sent
<1>4. pc[0] \in Closing BY <1>1 DEF Control, After, Closing
<1>5. ASSUME NEW i \in Others PROVE ToZeroData(i)' /\ FromZeroData(i)' /\ PartyData(i)'
  <2>1. ToZeroData(i) /\ FromZeroData(i) /\ PartyData(i) BY DEF Data
  <2>2. FromZeroData(i)' BY <1>1, <2>1, LinksKept DEF Same
  <2>3. ToZeroData(i)'
    <3>1. CASE i = idx /\ k = 0
      BY <1>1, <1>2, <1>3, <1>4, <3>1, StableValues DEF ToZeroData, CTsMsg
    <3>2. CASE i # idx \/ k # 0
      <4>1. chl_0'[<<i, 0>>] = chl_0[<<i, 0>>] BY <1>3, <3>2
      <4> QED BY <1>1, <2>1, <4>1, LinksKept DEF Same
    <3> QED BY <3>1, <3>2
  <2>4. PartyData(i)'
    <3>1. CASE i = idx
      BY <1>1, <1>2, <2>1, <3>1, StableSums, StableValues DEF PartyData, Early, Before
    <3>2. CASE i # idx BY <1>1, <1>2, <2>1, <3>2, PartyKept
    <3> QED BY <3>1, <3>2
  <2> QED BY <2>2, <2>3, <2>4
<1>6. ASSUME NEW i \in Others, i # tn - 1 PROVE OutwardData(i)' /\ InwardData(i)'
  <2>1. OutwardData(i) /\ InwardData(i) BY <1>6 DEF Data
  <2>2. i + 1 \in Party /\ i \in Party BY <1>6
  <2>3. OutwardData(i)' BY <1>1, <2>1, LinksKept DEF Same
  <2>4. CASE i + 1 = idx
    <3>1. i = k BY <2>4
    <3> QED BY <1>1, <1>2, <1>3, <2>3, <2>4, <3>1, StableValues DEF InwardData, CTsMsg
  <2>5. CASE i + 1 # idx
    <3>1. chl_0'[<<i + 1, i>>] = chl_0[<<i + 1, i>>] BY <1>3, <2>2, <2>5
    <3> QED BY <1>1, <2>1, <2>3, <3>1, LinksKept DEF Same
  <2> QED BY <2>4, <2>5
<1>7. ZeroData' BY <1>1, <1>2, ZeroKept DEF Data
<1> QED BY <1>5, <1>6, <1>7 DEF Data

-----------------------------------------------------------------------------
(* What follows from it. *)

\* A step that changes neither data nor control preserves it: a failure.
LEMMA DataKept == ASSUME Sure, Data, UNCHANGED <<files, sk, pc, peer, pk_HE, E, ct, alpha, chl_0, chl_1, m_idx>>
                  PROVE  Data'
<1>1. ASSUME NEW i \in Others PROVE ToZeroData(i)' /\ FromZeroData(i)' /\ PartyData(i)'
  BY LinksKept, PartyKept DEF Data, Same
<1>2. ASSUME NEW i \in Others, i # tn - 1 PROVE OutwardData(i)' /\ InwardData(i)'
  BY <1>2, LinksKept DEF Data, Same
<1>3. ZeroData' BY ZeroKept DEF Data
<1> QED BY <1>1, <1>2, <1>3 DEF Data

\* Every step preserves it.
LEMMA DataStep == Sure /\ Sure' /\ Data /\ [Next]_vars => Data'
<1> SUFFICES ASSUME Sure, Sure', Data, [Next]_vars PROVE Data' OBVIOUS
<1>1. CASE P0Step
  BY <1>1, DataP0RecvPk, DataP0SendPkHE, DataP0RecvCTd, DataP0SendCT, DataP0RecvCT, DataKept
  DEF P0Step, P0Call, Fail
<1>2. CASE \E idx \in Others : PartyStep(idx)
  BY <1>2, DataSendPk, DataRecvPkHE, DataSendCTd, DataRecvCT, DataSendOn, DataRecvBack,
     DataSendBack, DataKept
  DEF PartyStep, Call, Fail
<1>3. CASE UNCHANGED vars BY <1>3, DataKept DEF vars
<1> QED BY <1>1, <1>2, <1>3 DEF Next, Terminated

\* The data invariant of every reachable state: what every buffer and every
\* vector holds, as a function of the keys, the rows and the scalars drawn.
THEOREM DataAlways == Spec => []Data
<1>1. Spec => []Sure BY Inductive, Flight, PTL DEF Sure
<1> QED BY <1>1, DataInit, DataStep, PTL DEF Spec

\* A vector handed back is the blinded difference of the shares under the keys
\* of 0..idx-1 and no other, bin by bin up to a permutation (SendBack, the loops
\* over Dec and the shuffles of J_PEQT and JP_PEQT).
THEOREM Layers == Spec => []LayersPeeled
<1>1. ASSUME TypeOK, Data PROVE LayersPeeled
  <2> SUFFICES ASSUME NEW i \in Others, pc[i] = "done"
               PROVE  \E p \in Orders : \A b \in Bins :
                 SamePoint(ct[i][b].Y, Blinding(p[b]) * (D(p[b]) - ESum(p[b]))
                                       + ct[i][b].X * KeySum(i - 1))
    BY DEF LayersPeeled, Orders
  <2>1. ct[i] \in Incoming(i - 1) BY <1>1 DEF Data, PartyData
  <2>2. PICK p \in Orders : \A b \in Bins : Under(ct[i][b], Value(p[b]), KeySum(i - 1))
    BY <2>1 DEF Incoming
  <2>3. ASSUME NEW b \in Bins
        PROVE  SamePoint(ct[i][b].Y, Value(p[b]) + ct[i][b].X * KeySum(i - 1))
    <3>1. ct[i][b].Y = Value(p[b]) + ct[i][b].X * KeySum(i - 1) /\ ct[i][b].Y \in Int
      BY <2>1, <2>2 DEF Under, Incoming, CTs, CT
    <3>2. ct[i][b].Y - ct[i][b].Y = 0 BY <3>1
    <3>3. 0 % Order = 0 BY Parties
    <3> QED BY <3>1, <3>2, <3>3 DEF SamePoint
  <2> QED BY <2>3 DEF Value
<1>2. Spec => []TypeOK BY TypeCorrect
<1> QED BY <1>1, <1>2, DataAlways, PTL

\* The bins party 0 reports.
Reported == Matched \cup Zeroed

\* A multiple of the order has a multiple as its opposite.
LEMMA Opposite ==
  ASSUME NEW x \in Int, x % Order = 0
  PROVE  (0 - x) % Order = 0
<1>1. Order \in Nat \ {0} BY Parties
<1>2. PICK i \in Int : x = Order * i BY <1>1, Multiple
<1>3. 0 - x = Order * (0 - i) /\ 0 - i \in Int /\ 0 - x \in Int BY <1>1, <1>2, SMT
<1> QED BY <1>1, <1>3, Multiple

\* Get_intersection accepts a ciphertext under the key k exactly when it
\* encrypts zero.
LEMMA Tested ==
  ASSUME NEW c \in CT, NEW m \in Int, NEW k \in Int, Under(c, m, k)
  PROVE  Get_intersection(k, c) <=> m % Order = 0
<1> USE Parties
<1>1. c.X \in Int /\ c.Y = m + c.X * k BY DEF CT, Under
<1>2. c.X * k - c.Y = 0 - m /\ 0 - m \in Int /\ 0 - (0 - m) = m
  <2>1. c.X * k \in Int BY <1>1
  <2> QED BY <1>1, <2>1
<1>3. \A x \in Int : x % Order = 0 => (0 - x) % Order = 0 BY Opposite
<1>4. m % Order = 0 <=> (0 - m) % Order = 0 BY <1>2, <1>3
<1> QED BY <1>2, <1>4 DEF Get_intersection, SamePoint

\* A bin's blinded difference is zero when its shares agree or a scalar is zero:
\* the order of the group is prime.
LEMMA Hits ==
  ASSUME TypeOK, NEW b \in Bins
  PROVE  Value(b) % Order = 0 <=> b \in Reported
<1> DEFINE B == Blinding(b)
           F == D(b) - ESum(b)
<1>1. B \in Int /\ F \in Int BY BlindingFacts, Totals
<1>2. F % Order = 0 <=> b \in Matched BY DEF Matched, SamePoint
<1>3. B % Order = 0 <=> b \in Zeroed
  <2>1. \A i \in Others : alpha[i][b] \in Int /\ alpha[i][b] - 0 = alpha[i][b]
    BY Parties DEF TypeOK
  <2> QED BY <2>1, BlindingFacts DEF Zeroed, SamePoint
<1> HIDE DEF B, F
<1>4. (B * F) % Order = 0 <=> B % Order = 0 \/ F % Order = 0
  BY <1>1, OrderAssumption, EuclidBoth
<1> QED BY <1>2, <1>3, <1>4 DEF Value, B, F, Reported

\* A permutation takes the bins party 0 marks to the bins that match.
LEMMA SameNumber ==
  ASSUME NEW p \in Perms, NEW R \in SUBSET Bins, NEW M, M = {b \in Bins : p[b] \in R}
  PROVE  Cardinality(M) = Cardinality(R)
<1>1. IsFiniteSet(Bins) BY FS_Interval, JPEQTAssumption DEF Bins
<1>2. p \in Injection(Bins, Bins) BY DEF Perms, Injection, IsInjective
<1>3. p \in Surjection(Bins, Bins) BY <1>1, <1>2, FS_Injection
<1> DEFINE f == [b \in M |-> p[b]]
<1>4. f \in [M -> R] OBVIOUS
<1>5. \A r \in R : \E b \in M : f[b] = r BY <1>3 DEF Surjection
<1>6. \A a, b \in M : f[a] = f[b] => a = b BY DEF Perms
<1> HIDE DEF f
<1>7. f \in Bijection(M, R) BY <1>4, <1>5, <1>6 DEF Bijection, Injection, Surjection, IsInjective
<1>8. ExistsBijection(M, R) BY <1>7 DEF ExistsBijection
<1>9. IsFiniteSet(M) BY <1>1, FS_Subset
<1> QED BY <1>8, <1>9, FS_Bijection

\* What party 0 reports, in any state that the two invariants allow.
LEMMA Verdict ==
  ASSUME TypeOK, Control, Data, m_idx # NoResult
  PROVE  IF Permute THEN Cardinality(m_idx) = Cardinality(Reported) ELSE m_idx = Reported
<1>1. pc[0] = "done" BY DEF Control
<1>2. ct[0] \in Incoming(0) /\ m_idx = {b \in Bins : Get_intersection(sk[0], ct[0][b])}
  BY <1>1 DEF Data, ZeroData
<1>3. PICK p \in Orders : \A b \in Bins : Under(ct[0][b], Value(p[b]), KeySum(0))
  BY <1>2 DEF Incoming
<1>4. p \in [Bins -> Bins] BY OrdersFacts DEF Perms
<1>5. ASSUME NEW b \in Bins PROVE Get_intersection(sk[0], ct[0][b]) <=> p[b] \in Reported
  <2>1. KeySum(0) = sk[0] /\ sk[0] \in Int BY KeySums, Parties
  <2>2. ct[0][b] \in CT BY <1>2 DEF Incoming, CTs
  <2>3. Value(p[b]) \in Int BY <1>4, ValueType
  <2> QED BY <1>3, <1>4, <2>1, <2>2, <2>3, Tested, Hits
<1>6. m_idx = {b \in Bins : p[b] \in Reported} BY <1>2, <1>5
<1>7. Reported \in SUBSET Bins BY DEF Reported, Matched, Zeroed
<1>8. CASE Permute
  <2>1. p \in Perms BY OrdersFacts
  <2> QED BY <1>6, <1>7, <1>8, <2>1, SameNumber
<1>9. CASE ~Permute
  <2>1. \A b \in Bins : p[b] = b BY <1>9 DEF Orders
  <2> QED BY <1>6, <1>7, <1>9, <2>1
<1> QED BY <1>8, <1>9

\* Party 0 reports exactly the bins whose shares agree (J_PEQT), or as many as
\* there are such (JP_PEQT), and those that a zero scalar hides.
THEOREM Exact == Spec => []ResultExact
<1>1. IInv /\ Data => ResultExact BY Verdict DEF IInv, ResultExact, Reported
<1> QED BY <1>1, Inductive, DataAlways, PTL

\* Once party 0 is done every scalar has been drawn, none of them zero.
LEMMA NoneZeroed ==
  ASSUME TypeOK, Control, Data, pc[0] = "done", \A a \in Alphas : ~SamePoint(a, 0)
  PROVE  Zeroed = {}
<1> SUFFICES ASSUME NEW i \in Others, NEW b \in Bins, SamePoint(alpha[i][b], 0) PROVE FALSE
  BY DEF Zeroed
<1>1. pc[1] = "done" BY DEF Control
<1>2. 1 \in Others /\ (i = 1 \/ 1 < i) BY Parties DEF Others
<1>3. pc[i] \notin Early
  <2>1. CASE i = 1 BY <1>1, <2>1 DEF Early, Before
  <2>2. CASE 1 < i
    <3>1. pc[i] = "done" BY <1>1, <1>2, <2>2, Chained
    <3> QED BY <3>1 DEF Early, Before
  <2> QED BY <1>2, <2>1, <2>2
<1>4. alpha[i] \in [Bins -> Alphas] BY <1>3 DEF Data, PartyData
<1> QED BY <1>4

\* Unless GenRandomBigIntLessThan returns zero, J_PEQT and JP_PEQT implement the
\* one-step test by a trusted party: whatever the interleaving and whichever
\* files are missing, one step decides, on the rows, and every other stutters.
THEOREM Implements ==
  ASSUME \A a \in Alphas : ~SamePoint(a, 0)
  PROVE  Spec => ImplementsIdeal
<1>1. Init => Ideal!Init BY DEF Init, Ideal!Init
<1>2. ASSUME IInv, IInv', ResultExact', (pc[0] = "done" => Zeroed = {})', [Next]_vars
      PROVE  [Ideal!Decide]_<<Rows, IF m_idx = NoResult THEN NoResult
                                    ELSE IF Permute THEN Cardinality(m_idx) ELSE m_idx>>
  <2>1. UNCHANGED <<files, sk>>
    BY <1>2 DEF Next, vars, P0Step, P0Call, P0RecvPk, P0SendPkHE, P0RecvCTd, P0SendCT, P0RecvCT,
       PartyStep, Call, SendPk, RecvPkHE, SendCTd, RecvCT, SendOn, RecvBack, SendBack, Fail, Terminated
  <2>2. Rows' = Rows BY <2>1 DEF Rows
  <2>3. CASE m_idx' = m_idx BY <2>2, <2>3
  <2>4. CASE m_idx' # m_idx
    <3>1. P0RecvCT
      BY <1>2, <2>4 DEF Next, vars, P0Step, P0Call, P0RecvPk, P0SendPkHE, P0RecvCTd, P0SendCT,
       PartyStep, Call, SendPk, RecvPkHE, SendCTd, RecvCT, SendOn, RecvBack, SendBack, Fail, Terminated
    <3>2. m_idx = NoResult /\ pc'[0] = "done"
      BY <1>2, <3>1 DEF P0RecvCT, Goto, IInv, Control, TypeOK
    <3>3. m_idx' # NoResult BY <2>4, <3>2
    <3>4. IF Permute THEN Cardinality(m_idx') = Cardinality(Matched') ELSE m_idx' = Matched'
      <4>1. (Matched \cup Zeroed)' = Matched' BY <1>2, <3>2
      <4> QED BY <1>2, <3>3, <4>1 DEF ResultExact
    <3>5. Matched' = Matched
      BY <2>2 DEF Matched, D, ESum, SamePoint
    <3>6. Matched = Ideal!Equal
      BY DEF Matched, D, ESum, SamePoint, Ideal!Equal, Ideal!Sum, SumFunctionOnSet, Ideal!SumFunctionOnSet,
         FoldFunctionOnSet, Ideal!FoldFunctionOnSet, MapThenFoldSet, Ideal!MapThenFoldSet
    <3>7. Ideal!Cardinality(Matched) = Cardinality(Matched)
      BY DEF Cardinality, Ideal!Cardinality
    <3> QED BY <2>2, <3>2, <3>3, <3>4, <3>5, <3>6, <3>7 DEF Ideal!Decide
  <2> QED BY <2>3, <2>4
<1>3. IInv /\ Data /\ pc[0] = "done" => Zeroed = {} BY NoneZeroed DEF IInv
<1> QED BY <1>1, <1>2, <1>3, Inductive, DataAlways, Exact, PTL DEF Spec, ImplementsIdeal, Ideal!Spec

-----------------------------------------------------------------------------
(***************************************************************************)
(* The connections.  The protocol starts when JPEQTConnect is through; the  *)
(* two have the parties in common and no variable.                         *)
(***************************************************************************)
LEMMA SetupNumbers ==
  /\ tn \in Nat /\ tn >= 2 /\ Kinds = {0, 1}
  /\ \A idx \in Party : idx \in Nat /\ idx < tn
BY JPEQTAssumption DEF Party, Kinds

\* The port formulas are injective on the pairs of up to 14 parties: with 15,
\* 100 * 14 + 0 = 155 * 9 + 5.
LEMMA Ports ==
  ASSUME tn <= 14, NEW k1 \in Kinds, NEW k2 \in Kinds,
         NEW h1 \in Party, NEW l1 \in Party, l1 < h1,
         NEW h2 \in Party, NEW l2 \in Party, l2 < h2,
         Port(k1, h1, l1) = Port(k2, h2, l2)
  PROVE  k1 = k2 /\ h1 = h2 /\ l1 = l2
<1> USE SetupNumbers
<1>0. h1 \in 1..13 /\ h2 \in 1..13 /\ l1 \in 0..12 /\ l2 \in 0..12 OBVIOUS
<1>1. CASE k1 = 0 /\ k2 = 0
  <2>1. h1 * 100 + l1 = h2 * 100 + l2 BY <1>1 DEF Port, PORT
  <2> QED BY <1>0, <1>1, <2>1
<1>2. CASE k1 = 1 /\ k2 = 1
  <2>1. h1 * 155 + l1 = h2 * 155 + l2 BY <1>2 DEF Port, PORT
  <2> QED BY <1>0, <1>2, <2>1
<1>3. ASSUME NEW h \in 1..13, NEW l \in 0..12, l < h,
             NEW g \in 1..13, NEW m \in 0..12, m < g, h * 100 + l = g * 155 + m
      PROVE  FALSE
  <2>1. l - m = 5 * (31 * g - 20 * h) BY <1>3
  <2>2. 31 * g - 20 * h \in {-2, -1, 0, 1, 2} BY <2>1
  <2> QED BY <1>3, <2>1, <2>2
<1>4. CASE k1 = 0 /\ k2 = 1
  <2>1. h1 * 100 + l1 = h2 * 155 + l2 BY <1>4 DEF Port, PORT
  <2> QED BY <1>0, <1>3, <2>1
<1>5. CASE k1 = 1 /\ k2 = 0
  <2>1. h2 * 100 + l2 = h1 * 155 + l1 BY <1>5 DEF Port, PORT
  <2> QED BY <1>0, <1>3, <2>1
<1> QED BY <1>1, <1>2, <1>4, <1>5

\* Two parties in calls with the same port are the two ends of one pair, in
\* the same loop.
LEMMA SamePort ==
  ASSUME tn <= 14, ConnectTypeOK, NEW a \in Party, NEW b \in Party,
         Connecting(a), Connecting(b), CallPort(a) = CallPort(b)
  PROVE  /\ kind[a] = kind[b]
         /\ (a = b /\ other[a] = other[b]) \/ (a = other[b] /\ b = other[a])
<1> USE SetupNumbers
<1>1. /\ kind[a] \in Kinds /\ kind[b] \in Kinds
      /\ other[a] \in Party /\ other[b] \in Party
      /\ other[a] # a /\ other[b] # b
  BY DEF ConnectTypeOK, Connecting
<1>2. CASE other[a] < a /\ other[b] < b
  BY <1>1, <1>2, Ports DEF CallPort
<1>3. CASE other[a] < a /\ ~(other[b] < b)
  <2>1. b < other[b] BY <1>1, <1>3
  <2> QED BY <1>1, <1>3, <2>1, Ports DEF CallPort
<1>4. CASE ~(other[a] < a) /\ other[b] < b
  <2>1. a < other[a] BY <1>1, <1>4
  <2> QED BY <1>1, <1>4, <2>1, Ports DEF CallPort
<1>5. CASE ~(other[a] < a) /\ ~(other[b] < b)
  <2>1. a < other[a] /\ b < other[b] BY <1>1, <1>5
  <2> QED BY <1>1, <1>5, <2>1, Ports DEF CallPort
<1> QED BY <1>2, <1>3, <1>4, <1>5

\* No bind meets a port in use.
LEMMA Free == ASSUME tn <= 14, ConnectTypeOK PROVE PortFree
<1> SUFFICES ASSUME NEW s \in bound, NEW idx \in Party, Serves(idx), idx # s,
                    CallPort(idx) = CallPort(s)
             PROVE  FALSE
  BY DEF PortFree
<1> USE SetupNumbers
<1>1. s \in Party /\ Serves(s) /\ Connecting(s) /\ Connecting(idx)
  BY DEF ConnectTypeOK, Serves
<1>2. kind[idx] = kind[s] /\ idx = other[s] /\ s = other[idx] BY <1>1, SamePort
<1> QED BY <1>1, <1>2 DEF Serves

-----------------------------------------------------------------------------
(* The inductive invariant: a client in a backlog is the one awaited. *)

SetupAwaited ==
  /\ \A s \in bound : \A n \in 1..Len(backlog[s]) :
       backlog[s][n] = [party |-> other[s], kind |-> kind[s]]
  /\ \A y \in Party : y \notin bound => backlog[y] = <<>>

SetupInv == ConnectTypeOK /\ SetupAwaited /\ RightEnds

\* A call that returns fills the next index of the loop's vector and moves to
\* the next pair; nothing else changes.
LEMMA ReturnStep ==
  ASSUME ConnectTypeOK, RightEnds, NEW idx \in Party, Connecting(idx),
         Return(idx, [party |-> other[idx], kind |-> kind[idx]])
  PROVE  /\ kind' \in [Party -> 0..2] /\ other' \in [Party -> Party]
         /\ other'[idx] # idx
         /\ \A y \in Party : y # idx => kind'[y] = kind[y] /\ other'[y] = other[y]
         /\ sockets' \in [Kinds -> [Party -> Seq(Ends)]]
         /\ \A k \in Kinds, y \in Party : Len(sockets'[k][y]) = Filled(k, y)'
         /\ RightEnds'
<1> USE SetupNumbers
<1> DEFINE end == [party |-> other[idx], kind |-> kind[idx]]
<1>0. /\ kind[idx] \in Kinds /\ other[idx] \in Party
      /\ other[idx] # idx /\ end \in Ends
      /\ kind \in [Party -> 0..2] /\ other \in [Party -> Party]
      /\ sockets \in [Kinds -> [Party -> Seq(Ends)]]
  BY DEF ConnectTypeOK, Connecting, Ends
<1>1. sockets' = [sockets EXCEPT ![kind[idx]][idx] = Append(@, end)] BY DEF Return
<1> HIDE DEF end
<1>2. /\ sockets' \in [Kinds -> [Party -> Seq(Ends)]]
      /\ sockets'[kind[idx]][idx] = Append(sockets[kind[idx]][idx], end)
      /\ \A k \in Kinds, y \in Party :
           k # kind[idx] \/ y # idx => sockets'[k][y] = sockets[k][y]
  BY <1>0, <1>1
<1>3. \/ /\ Follower(idx) < tn
         /\ other' = [other EXCEPT ![idx] = Follower(idx)] /\ kind' = kind
      \/ /\ ~(Follower(idx) < tn)
         /\ other' = [other EXCEPT ![idx] = First(idx)]
         /\ kind' = [kind EXCEPT ![idx] = @ + 1]
  BY DEF Return
<1>4. /\ kind' \in [Party -> 0..2] /\ other' \in [Party -> Party]
      /\ other'[idx] # idx
      /\ \A y \in Party : y # idx => kind'[y] = kind[y] /\ other'[y] = other[y]
  <2>1. Follower(idx) < tn => Follower(idx) \in Party /\ Follower(idx) # idx
    <3>1. other[idx] \in Nat /\ idx \in Nat /\ other[idx] # idx BY <1>0
    <3>2. Follower(idx) \in Nat /\ Follower(idx) # idx BY <3>1 DEF Follower
    <3> QED BY <3>2 DEF Party
  <2>2. First(idx) \in Party /\ First(idx) # idx
    BY <1>0 DEF First, Party
  <2>3. kind[idx] + 1 \in 0..2 BY <1>0
  <2>4. CASE Follower(idx) < tn BY <1>0, <1>3, <2>1, <2>4
  <2>5. CASE ~(Follower(idx) < tn)
    <3>1. other' = [other EXCEPT ![idx] = First(idx)] BY <1>3, <2>5
    <3>2. kind' = [kind EXCEPT ![idx] = kind[idx] + 1] BY <1>3, <2>5
    <3>3. kind' \in [Party -> 0..2] BY <1>0, <2>3, <3>2
    <3>4. other' \in [Party -> Party] /\ other'[idx] = First(idx)
      BY <1>0, <2>2, <3>1
    <3>5. \A y \in Party : y # idx => kind'[y] = kind[y] /\ other'[y] = other[y]
      BY <1>0, <3>1, <3>2
    <3> QED BY <2>2, <3>3, <3>4, <3>5
  <2> QED BY <2>4, <2>5
<1>5. Len(sockets[kind[idx]][idx]) = IF other[idx] < idx THEN other[idx] ELSE other[idx] - 1
  <2>1. Len(sockets[kind[idx]][idx]) = Filled(kind[idx], idx) BY <1>0 DEF ConnectTypeOK
  <2>2. kind[idx] \in Nat BY <1>0
  <2> QED BY <2>1, <2>2 DEF Filled
<1>6. ASSUME NEW k \in Kinds, NEW y \in Party
      PROVE  Len(sockets'[k][y]) = Filled(k, y)'
  <2>0. Len(sockets[k][y]) = Filled(k, y) BY DEF ConnectTypeOK
  <2>1. CASE y # idx BY <1>2, <1>4, <2>0, <2>1 DEF Filled
  <2>2. CASE y = idx /\ k # kind[idx]
    <3>1. Len(sockets'[k][y]) = Filled(k, y) BY <1>2, <2>0, <2>2
    <3>2. CASE kind'[idx] = kind[idx] BY <1>0, <2>2, <3>1, <3>2 DEF Filled
    <3>3. CASE kind'[idx] = kind[idx] + 1 /\ other'[idx] = First(idx)
      <4>1. First(idx) <= idx + 1 /\ (First(idx) > idx => First(idx) - 1 = 0)
            /\ (First(idx) < idx => First(idx) = 0)
            /\ First(idx) # idx /\ First(idx) \in {0, 1}
        BY DEF First
      <4>2. Filled(k, y) = IF k < kind[idx] THEN tn - 1 ELSE 0 BY <1>0, <2>2 DEF Filled
      <4>3. Filled(k, y)' = IF k < kind'[idx] THEN tn - 1 ELSE 0
        <5>1. CASE k < kind'[idx] BY <2>2, <5>1 DEF Filled
        <5>2. CASE k = kind'[idx]
          <6>1. Filled(k, y)' = IF other'[idx] < idx THEN other'[idx] ELSE other'[idx] - 1
            BY <2>2, <5>2 DEF Filled
          <6>2. other'[idx] = First(idx) BY <3>3
          <6>3. CASE other'[idx] < idx BY <4>1, <5>2, <6>1, <6>2, <6>3
          <6>4. CASE other'[idx] > idx BY <4>1, <5>2, <6>1, <6>2, <6>4
          <6> QED BY <4>1, <6>2, <6>3, <6>4
        <5> QED BY <1>0, <2>2, <3>3, <5>1, <5>2
      <4> QED BY <1>0, <2>2, <3>1, <3>3, <4>2, <4>3
    <3> QED BY <1>0, <1>3, <3>2, <3>3
  <2>3. CASE y = idx /\ k = kind[idx]
    <3>1. Len(sockets'[k][y]) = Len(sockets[k][y]) + 1 BY <1>0, <1>2, <2>3
    <3>2. CASE Follower(idx) < tn
      <4>1. other'[idx] = Follower(idx) /\ kind'[idx] = kind[idx] BY <1>0, <1>3, <3>2
      <4> QED BY <1>0, <1>5, <2>3, <3>1, <4>1 DEF Filled, Follower
    <3>3. CASE ~(Follower(idx) < tn)
      <4>1. kind'[idx] = kind[idx] + 1 BY <1>0, <1>3, <3>3
      <4>2. Filled(k, y)' = tn - 1 BY <1>0, <2>3, <4>1 DEF Filled
      <4> QED BY <1>0, <1>5, <2>3, <3>1, <3>3, <4>2 DEF Follower
    <3> QED BY <3>2, <3>3
  <2> QED BY <2>1, <2>2, <2>3
<1>7. RightEnds'
  <2> SUFFICES ASSUME NEW k \in Kinds, NEW y \in Party, NEW j \in 1..Len(sockets'[k][y])
               PROVE  sockets'[k][y][j] = [party |-> PeerOf(y, j - 1), kind |-> k]
    BY DEF RightEnds
  <2>1. CASE k # kind[idx] \/ y # idx
    <3>1. sockets'[k][y] = sockets[k][y] BY <1>2, <2>1
    <3> QED BY <3>1 DEF RightEnds
  <2>2. CASE k = kind[idx] /\ y = idx
    <3>1. sockets[k][y] \in Seq(Ends) BY <1>0
    <3>2. CASE j <= Len(sockets[k][y])
      <4>0. sockets'[k][y] = Append(sockets[k][y], end) BY <1>2, <2>2
      <4>1. sockets'[k][y][j] = sockets[k][y][j] BY <1>0, <3>1, <3>2, <4>0, AppendProperties
      <4> QED BY <3>1, <3>2, <4>1 DEF RightEnds
    <3>3. CASE ~(j <= Len(sockets[k][y]))
      <4>1. j = Len(sockets[k][y]) + 1 /\ sockets'[k][y][j] = end BY <1>2, <2>2, <3>1, <3>3
      <4>2. other[idx] = IF j - 1 < y THEN j - 1 ELSE j BY <1>0, <1>5, <2>2, <4>1
      <4> QED BY <2>2, <4>1, <4>2 DEF end, PeerOf
    <3> QED BY <3>2, <3>3
  <2> QED BY <2>1, <2>2
<1> QED BY <1>2, <1>4, <1>6, <1>7

LEMMA SetupInit == ConnectInit => SetupInv
<1> SUFFICES ASSUME ConnectInit PROVE SetupInv OBVIOUS
<1> USE SetupNumbers
<1>1. \A idx \in Party : First(idx) \in Party /\ First(idx) # idx
  BY DEF First, Party
<1>2. <<>> \in Seq(Ends) /\ Len(<<>>) = 0 OBVIOUS
<1>3. \A k \in Kinds, idx \in Party : Filled(k, idx) = 0
  BY <1>1 DEF ConnectInit, Filled, First
<1>4. \A k \in Kinds, idx \in Party : sockets[k][idx] = <<>> BY DEF ConnectInit
<1>5. ConnectTypeOK
  <2>1. /\ kind \in [Party -> 0..2] /\ other \in [Party -> Party]
        /\ \A idx \in Party : other[idx] # idx
    BY <1>1 DEF ConnectInit
  <2>2. bound \subseteq {idx \in Party : Serves(idx)} BY DEF ConnectInit
  <2>3. backlog \in [Party -> Seq(Ends)] BY <1>2 DEF ConnectInit
  <2>4. sockets \in [Kinds -> [Party -> Seq(Ends)]] BY <1>2 DEF ConnectInit
  <2>5. \A k \in Kinds, idx \in Party : Len(sockets[k][idx]) = Filled(k, idx)
    BY <1>2, <1>3, <1>4
  <2> QED BY <2>1, <2>2, <2>3, <2>4, <2>5 DEF ConnectTypeOK
<1>6. SetupAwaited /\ RightEnds BY <1>2, <1>4 DEF ConnectInit, SetupAwaited, RightEnds
<1> QED BY <1>5, <1>6 DEF SetupInv

LEMMA SetupStep == ASSUME tn <= 14 PROVE SetupInv /\ [ConnectNext]_connectVars => SetupInv'
<1> SUFFICES ASSUME SetupInv, [ConnectNext]_connectVars PROVE SetupInv' OBVIOUS
<1> USE SetupNumbers
<1>a. ConnectTypeOK /\ SetupAwaited /\ RightEnds BY DEF SetupInv
<1>1. ASSUME NEW idx \in Party, Listen(idx) PROVE SetupInv'
  <2>1. UNCHANGED <<kind, other, backlog, sockets>> /\ bound' = bound \cup {idx}
        /\ Serves(idx)
        /\ idx \notin bound
    BY <1>1 DEF Listen
  <2>2. backlog[idx] = <<>> \/ backlog[idx] # <<>> OBVIOUS
  <2>3. \A y \in Party : Serves(y)' <=> Serves(y)
    BY <2>1 DEF Serves, Connecting
  <2>4. \A k \in Kinds, y \in Party : Filled(k, y)' = Filled(k, y)
    BY <2>1 DEF Filled
  <2>5. ConnectTypeOK' BY <1>a, <2>1, <2>3, <2>4 DEF ConnectTypeOK
  <2>6. RightEnds' BY <1>a, <2>1 DEF RightEnds
  <2>7. SetupAwaited' BY <1>a, <2>1 DEF SetupAwaited
  <2> QED BY <2>5, <2>6, <2>7 DEF SetupInv
<1>2. ASSUME NEW idx \in Party, Dial(idx) PROVE SetupInv'
  <2>1. PICK s \in bound :
          /\ CallPort(s) = CallPort(idx)
          /\ backlog' = [backlog EXCEPT ![s] = Append(@, End(idx))]
          /\ Return(idx, End(s))
    BY <1>2 DEF Dial
  <2>2. /\ Connecting(idx) /\ ~Serves(idx) /\ bound' = bound
        /\ s \in Party /\ Serves(s) /\ Connecting(s)
        /\ s # idx /\ idx \notin bound
    BY <1>2, <1>a DEF Dial, ConnectTypeOK, Serves
  <2>3. kind[idx] = kind[s] /\ idx = other[s] /\ s = other[idx]
    BY <1>a, <2>1, <2>2, SamePort
  <2>4. End(s) = [party |-> other[idx], kind |-> kind[idx]] BY <2>3 DEF End
  <2>5. /\ kind' \in [Party -> 0..2] /\ other' \in [Party -> Party]
        /\ other'[idx] # idx
        /\ \A y \in Party : y # idx => kind'[y] = kind[y] /\ other'[y] = other[y]
        /\ sockets' \in [Kinds -> [Party -> Seq(Ends)]]
        /\ \A k \in Kinds, y \in Party : Len(sockets'[k][y]) = Filled(k, y)'
        /\ RightEnds'
    BY <1>a, <2>1, <2>2, <2>4, ReturnStep
  <2>6. End(idx) = [party |-> other[s], kind |-> kind[s]] /\ End(idx) \in Ends
    BY <2>2, <2>3 DEF End, Ends, Connecting
  <2>7. ConnectTypeOK'
    <3>1. \A y \in bound : Serves(y)' <=> Serves(y)
      BY <1>a, <2>2, <2>5 DEF Serves, Connecting, ConnectTypeOK
    <3>2. backlog' \in [Party -> Seq(Ends)] BY <1>a, <2>1, <2>2, <2>6 DEF ConnectTypeOK
    <3>3. \A y \in Party : other'[y] # y BY <1>a, <2>5 DEF ConnectTypeOK
    <3> QED BY <1>a, <2>2, <2>5, <3>1, <3>2, <3>3 DEF ConnectTypeOK
  <2>8. SetupAwaited'
    <3>1. \A y \in bound : other'[y] = other[y] /\ kind'[y] = kind[y]
      BY <1>a, <2>2, <2>5 DEF ConnectTypeOK
    <3>2. backlog \in [Party -> Seq(Ends)] BY <1>a DEF ConnectTypeOK
    <3>3. ASSUME NEW y \in bound, NEW n \in 1..Len(backlog'[y])
          PROVE  backlog'[y][n] = [party |-> other'[y], kind |-> kind'[y]]
      <4>1. y \in Party BY <1>a DEF ConnectTypeOK
      <4>2. CASE y # s
        <5>1. backlog'[y] = backlog[y] BY <2>1, <3>2, <4>1, <4>2
        <5> QED BY <1>a, <3>1, <3>3, <5>1 DEF SetupAwaited
      <4>3. CASE y = s
        <5>1. backlog'[y] = Append(backlog[y], End(idx)) BY <2>1, <3>2, <4>1, <4>3
        <5>2. backlog[y] \in Seq(Ends) BY <3>2, <4>1
        <5>3. CASE n <= Len(backlog[y])
          <6>1. backlog'[y][n] = backlog[y][n]
            BY <2>6, <3>3, <5>1, <5>2, <5>3, AppendProperties
          <6> QED BY <1>a, <3>1, <5>2, <5>3, <6>1 DEF SetupAwaited
        <5>4. CASE ~(n <= Len(backlog[y]))
          <6>1. backlog'[y][n] = End(idx)
            BY <2>6, <3>3, <5>1, <5>2, <5>4, AppendProperties
          <6> QED BY <2>6, <3>1, <4>3, <6>1
        <5> QED BY <5>3, <5>4
      <4> QED BY <4>2, <4>3
    <3>4. \A y \in Party : y \notin bound => backlog'[y] = <<>>
      BY <1>a, <2>1, <3>2 DEF SetupAwaited
    <3> QED BY <2>2, <3>3, <3>4 DEF SetupAwaited
  <2> QED BY <2>5, <2>7, <2>8 DEF SetupInv
<1>3. ASSUME NEW idx \in Party, Accept(idx) PROVE SetupInv'
  <2>1. /\ idx \in bound /\ backlog[idx] # <<>> /\ bound' = bound \ {idx}
        /\ Return(idx, Head(backlog[idx]))
        /\ backlog' = [backlog EXCEPT ![idx] = <<>>]
    BY <1>3 DEF Accept
  <2>2. Connecting(idx) /\ backlog \in [Party -> Seq(Ends)]
    BY <1>a, <2>1 DEF ConnectTypeOK, Serves
  <2>3. Head(backlog[idx]) = [party |-> other[idx], kind |-> kind[idx]]
    <3>1. backlog[idx] \in Seq(Ends) BY <2>2
    <3>2. 1 \in 1..Len(backlog[idx]) /\ Head(backlog[idx]) = backlog[idx][1]
      BY <2>1, <3>1
    <3> QED BY <1>a, <2>1, <3>2 DEF SetupAwaited
  <2>5. /\ kind' \in [Party -> 0..2] /\ other' \in [Party -> Party]
        /\ other'[idx] # idx
        /\ \A y \in Party : y # idx => kind'[y] = kind[y] /\ other'[y] = other[y]
        /\ sockets' \in [Kinds -> [Party -> Seq(Ends)]]
        /\ \A k \in Kinds, y \in Party : Len(sockets'[k][y]) = Filled(k, y)'
        /\ RightEnds'
    BY <1>a, <2>1, <2>2, <2>3, ReturnStep
  <2>6. backlog' \in [Party -> Seq(Ends)] /\ backlog'[idx] = <<>>
        /\ \A y \in Party : y # idx => backlog'[y] = backlog[y]
    BY <2>1, <2>2
  <2>7. ConnectTypeOK'
    <3>1. \A y \in bound' : y \in Party /\ Serves(y)'
      BY <1>a, <2>1, <2>5 DEF Serves, Connecting, ConnectTypeOK
    <3>3. \A y \in Party : other'[y] # y BY <1>a, <2>5 DEF ConnectTypeOK
    <3> QED BY <1>a, <2>5, <2>6, <3>1, <3>3 DEF ConnectTypeOK
  <2>8. SetupAwaited'
    <3>1. \A y \in bound' : y \in bound /\ y \in Party /\ other'[y] = other[y]
                           /\ kind'[y] = kind[y] /\ backlog'[y] = backlog[y]
      BY <1>a, <2>1, <2>5, <2>6 DEF ConnectTypeOK
    <3>2. \A y \in Party : y \notin bound' => backlog'[y] = <<>>
      BY <1>a, <2>1, <2>6 DEF SetupAwaited
    <3> QED BY <1>a, <3>1, <3>2 DEF SetupAwaited
  <2> QED BY <2>5, <2>7, <2>8 DEF SetupInv
<1>4. CASE UNCHANGED connectVars
  <2>1. UNCHANGED <<kind, other, bound, backlog, sockets>> BY <1>4 DEF connectVars
  <2>2. \A y \in Party : Serves(y)' <=> Serves(y)
    BY <2>1 DEF Serves, Connecting
  <2>3. \A k \in Kinds, y \in Party : Filled(k, y)' = Filled(k, y)
    BY <2>1 DEF Filled
  <2>4. ConnectTypeOK' BY <1>a, <2>1, <2>2, <2>3 DEF ConnectTypeOK
  <2>5. SetupAwaited' BY <1>a, <2>1 DEF SetupAwaited
  <2>6. RightEnds' BY <1>a, <2>1 DEF RightEnds
  <2> QED BY <2>4, <2>5, <2>6 DEF SetupInv
<1> QED BY <1>1, <1>2, <1>3, <1>4 DEF ConnectNext, Connect, ConnectTerminated

\* With at most 14 parties the connection phase never meets a port in use, and
\* every socket ends at the vector of the party that will use it.
THEOREM SetupAlways == ASSUME tn <= 14 PROVE ConnectSpec => []SetupInv
<1>1. SetupInv /\ [ConnectNext]_connectVars => SetupInv' BY SetupStep
<1> QED BY <1>1, SetupInit, PTL DEF ConnectSpec

\* No bind of J_PEQT or JP_PEQT meets a port that another party listens on.
THEOREM PortsFree == ASSUME tn <= 14 PROVE ConnectSpec => []PortFree
<1>1. SetupInv => PortFree BY Free DEF SetupInv
<1> QED BY <1>1, SetupAlways, PTL

\* The socket at index j of chl_k is connected to the chl_k of the party that
\* the protocol addresses with index j.
THEOREM EndsRight == ASSUME tn <= 14 PROVE ConnectSpec => []RightEnds
<1>1. SetupInv => RightEnds BY DEF SetupInv
<1> QED BY <1>1, SetupAlways, PTL
=============================================================================
