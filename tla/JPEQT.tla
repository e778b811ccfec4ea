------------------------------- MODULE JPEQT -------------------------------
(***************************************************************************)
(* The joint private equality test of src/JPEQT/JPEQT.cpp: J_PEQT, and     *)
(* JP_PEQT when Permute is TRUE.                                           *)
(*                                                                         *)
(* Party 0 collects the public keys, publishes the joint key, collects     *)
(* from every party an encrypted row of shares, subtracts its own shares,  *)
(* and sends the differences round a chain 1, 2, ..., tn-1 and back.  On   *)
(* the way out each party multiplies every bin by a random scalar; on the  *)
(* way back it removes its key layer (and, in JP_PEQT, permutes the bins). *)
(* Party 0 tests every bin it gets back.                                   *)
(*                                                                         *)
(* A party is a process; one action is one blocking receive with the local *)
(* computation up to the next socket call, or one send.  The sockets are   *)
(* reliable FIFO byte streams, connected before the model starts (module   *)
(* JPEQTConnect).  A party whose input file cannot be opened, or that      *)
(* meets a closed socket or a buffer of the wrong length, stops with an    *)
(* exception, which closes its sockets.                                    *)
(***************************************************************************)
EXTENDS JPEQTParties, ElGamal, Sequences, FiniteSets, FiniteSetsExt

CONSTANTS
  bn,          \* number of big-set parties: 1..bn; the small ones are bn+1..tn-1
  numBins,     \* number of bins of every row of shares
  Permute,     \* FALSE: J_PEQT, TRUE: JP_PEQT
  Shares,      \* the values a share may take
  Secrets,     \* the secret keys KeyGen may return
  Rands,       \* encryption randomness
  Alphas,      \* the scalars GenRandomBigIntLessThan may return
  Unreadable,  \* the sets of parties whose input file may be missing
  NoResult     \* m_idx before party 0 has tested the bins

Others == 1..(tn - 1)
Bins   == 0..(numBins - 1)

ASSUME JPEQTAssumption ==
  /\ tn \in Nat /\ tn >= 2
  /\ bn \in 0..(tn - 1)
  /\ numBins \in Nat \ {0}
  /\ Permute \in BOOLEAN
  /\ Shares \subseteq Int /\ Secrets \subseteq Int
  /\ Rands \subseteq Int /\ Alphas \subseteq Int
  /\ Unreadable \subseteq SUBSET (0..(tn - 1))
  /\ \A S \in SUBSET (0..(numBins - 1)) : NoResult # S

VARIABLES
  files,       \* the rows the two MCRG stages left on disk, one per pair
  missing,     \* parties whose input file cannot be opened
  pc,          \* the socket call a party is at
  failed,      \* parties that an exception has ended, at their pc
  peer,        \* the loop index i of party 0's loops over its channels
  sk,          \* secret keys
  pk_HE,       \* joint public key, as far as the party knows it
  E,           \* party 0's sum of its own shares
  ct,          \* the ciphertext vector a party holds
  alpha,       \* the scalars a party drew
  chl_0, chl_1,\* bytes under way, per ordered pair of parties
  m_idx        \* the bins party 0 found equal

vars == <<files, missing, pc, failed, peer, sk, pk_HE, E, ct, alpha, chl_0, chl_1, m_idx>>

Row    == [Bins -> Shares]
CTs    == [Bins -> CT]
Perms  == {p \in [Bins -> Bins] : \A b, c \in Bins : p[b] = p[c] => b = c}

(***************************************************************************)
(* What a buffer on the wire is: one compressed point, or a vector of      *)
(* ciphertexts.  The wire has no tags: size stands for the buffer length,  *)
(* which is all the receiver can check.                                    *)
(***************************************************************************)
PointMsg(x) == [size |-> "point", body |-> x]
CTsMsg(v)   == [size |-> "cts", body |-> v]
Messages    == [size : {"point"}, body : Int] \cup [size : {"cts"}, body : CTs]

Inbox(chl, idx, j)    == chl[<<PeerOf(idx, j), idx>>]
Send(chl, idx, j, m)  == [chl EXCEPT ![<<idx, PeerOf(idx, j)>>] = Append(@, m)]
Recv(chl, idx, j)     == [chl EXCEPT ![<<PeerOf(idx, j), idx>>] = Tail(@)]
CanRecv(chl, idx, j, size) ==
  Inbox(chl, idx, j) # <<>> /\ Head(Inbox(chl, idx, j)).size = size

-----------------------------------------------------------------------------
(***************************************************************************)
(* The input files.  Party 0 reads sender_mcrg_i for the big-set parties   *)
(* and sender_result_i for the small-set ones; each other party reads the  *)
(* receiver's half of one of them.                                         *)
(***************************************************************************)
Files == [sender_mcrg     : [0..(bn - 1) -> Row],
          receiver_mcrg   : [0..(bn - 1) -> Row],
          sender_result   : [0..(tn - 2 - bn) -> Row],
          receiver_result : [0..(tn - 2 - bn) -> Row]]

read_mcrg_e(i) ==
  IF i < bn THEN files.sender_mcrg[i] ELSE files.sender_result[i - bn]

read_d(idx) ==
  IF idx < bn + 1 THEN files.receiver_mcrg[idx - 1]
                  ELSE files.receiver_result[idx - bn - 1]

Init ==
  /\ files \in Files
  /\ missing \in Unreadable
  /\ pc = [idx \in Party |-> IF idx = 0 THEN "recv_pk" ELSE "send_pk"]
  /\ failed = {}
  /\ peer = 0
  /\ sk \in [Party -> Secrets]
  /\ pk_HE = [idx \in Party |-> IF idx = 0 THEN sk[0] ELSE 0]
  /\ E = [b \in Bins |-> 0]
  /\ ct = [idx \in Party |-> [b \in Bins |-> ZeroCT]]
  /\ alpha = [idx \in Party |-> [b \in Bins |-> 1]]
  /\ chl_0 = [l \in Party \X Party |-> <<>>]
  /\ chl_1 = [l \in Party \X Party |-> <<>>]
  /\ m_idx = NoResult

\* Mutant (NextPeerNoReset): the loops share one index that is not reset.
\* The next iteration of a loop of party 0 over its tn-1 channels, or, after
\* the last one, the statement that follows the loop.
NextPeerNoReset(here, after) ==
  /\ peer' = peer + 1
  /\ pc' = [pc EXCEPT ![0] = IF peer < tn - 2 THEN here ELSE after]

NextPeer(here, after) ==
  IF peer < tn - 2
  THEN peer' = peer + 1 /\ pc' = [pc EXCEPT ![0] = here]
  ELSE peer' = 0 /\ pc' = [pc EXCEPT ![0] = after]

Goto(idx, from, to) == pc[idx] = from /\ pc' = [pc EXCEPT ![idx] = to]

-----------------------------------------------------------------------------
(* Party 0. *)

\* One round of the loop over pk_other, with that key added to the joint key.
P0RecvPk ==
  /\ pc[0] = "recv_pk"
  /\ CanRecv(chl_0, 0, peer, "point")
  /\ pk_HE' = [pk_HE EXCEPT ![0] = @ + Head(Inbox(chl_0, 0, peer)).body]
  /\ chl_0' = Recv(chl_0, 0, peer)
  /\ NextPeer("recv_pk", "send_pk_HE")
  /\ UNCHANGED <<files, missing, failed, sk, E, ct, alpha, chl_1, m_idx>>

\* Mutant: party 0 starts the chain without waiting for the rows.
P0SendPkHENoWait ==
  /\ pc[0] = "send_pk_HE"
  /\ chl_1' = Send(chl_1, 0, peer, PointMsg(pk_HE[0]))
  /\ NextPeer("send_pk_HE", "send_ct")
  /\ UNCHANGED <<files, missing, failed, sk, pk_HE, E, ct, alpha, chl_0, m_idx>>

P0SendPkHE ==
  /\ pc[0] = "send_pk_HE"
  /\ chl_1' = Send(chl_1, 0, peer, PointMsg(pk_HE[0]))
  /\ NextPeer("send_pk_HE", "recv_ct_d")
  /\ UNCHANGED <<files, missing, failed, sk, pk_HE, E, ct, alpha, chl_0, m_idx>>

\* Mutant: the received vector replaces the sum.
P0RecvCTdOverwrite ==
  /\ pc[0] = "recv_ct_d" /\ 0 \notin missing
  /\ CanRecv(chl_0, 0, peer, "cts")
  /\ E' = [b \in Bins |-> E[b] + read_mcrg_e(peer)[b]]
  /\ ct' = [ct EXCEPT ![0] = Head(Inbox(chl_0, 0, peer)).body]
  /\ chl_0' = Recv(chl_0, 0, peer)
  /\ NextPeer("recv_ct_d", "send_ct")
  /\ UNCHANGED <<files, missing, failed, sk, pk_HE, alpha, chl_1, m_idx>>

\* One round of the loops over i that sum the rows e[i] into E and the
\* received vectors CT_d[i] into D_HE.
P0RecvCTd ==
  /\ pc[0] = "recv_ct_d" /\ 0 \notin missing
  /\ CanRecv(chl_0, 0, peer, "cts")
  /\ E' = [b \in Bins |-> E[b] + read_mcrg_e(peer)[b]]
  /\ ct' = [ct EXCEPT ![0] =
              [b \in Bins |-> HomoAdd(@[b], Head(Inbox(chl_0, 0, peer)).body[b])]]
  /\ chl_0' = Recv(chl_0, 0, peer)
  /\ NextPeer("recv_ct_d", "send_ct")
  /\ UNCHANGED <<files, missing, failed, sk, pk_HE, alpha, chl_1, m_idx>>

\* D - E, re-randomised under the joint key, goes to party 1.
P0SendCT ==
  /\ Goto(0, "send_ct", "recv_ct")
  /\ \E r_new \in [Bins -> Rands] :
       ct' = [ct EXCEPT ![0] = [b \in Bins |->
                ReEnc(pk_HE[0], HomoSub(@[b], Enc(0, E[b], 0)), r_new[b])]]
  /\ chl_1' = Send(chl_1, 0, 0, CTsMsg(ct'[0]))
  /\ UNCHANGED <<files, missing, failed, peer, sk, pk_HE, E, alpha, chl_0, m_idx>>

\* The vector is back: test every bin (the sequential loop of the default
\* nt = 1; module Intersection has the parallel one).
P0RecvCT ==
  /\ Goto(0, "recv_ct", "done")
  /\ CanRecv(chl_0, 0, 0, "cts")
  /\ ct' = [ct EXCEPT ![0] = Head(Inbox(chl_0, 0, 0)).body]
  /\ chl_0' = Recv(chl_0, 0, 0)
  /\ m_idx' = {b \in Bins : Get_intersection(sk[0], ct'[0][b])}
  /\ UNCHANGED <<files, missing, failed, peer, sk, pk_HE, E, alpha, chl_1>>

-----------------------------------------------------------------------------
(* The other parties. *)

\* Mutant: a party does not wait for the joint key.
SendPkNoWait(idx) ==
  /\ Goto(idx, "send_pk", "send_ct_d")
  /\ chl_0' = Send(chl_0, idx, 0, PointMsg(sk[idx]))
  /\ UNCHANGED <<files, missing, failed, peer, sk, pk_HE, E, ct, alpha, chl_1, m_idx>>

\* KeyGen has happened in Init.
SendPk(idx) ==
  /\ Goto(idx, "send_pk", "recv_pk_HE")
  /\ chl_0' = Send(chl_0, idx, 0, PointMsg(sk[idx]))
  /\ UNCHANGED <<files, missing, failed, peer, sk, pk_HE, E, ct, alpha, chl_1, m_idx>>

RecvPkHE(idx) ==
  /\ Goto(idx, "recv_pk_HE", "send_ct_d")
  /\ CanRecv(chl_1, idx, 0, "point")
  /\ pk_HE' = [pk_HE EXCEPT ![idx] = Head(Inbox(chl_1, idx, 0)).body]
  /\ chl_1' = Recv(chl_1, idx, 0)
  /\ UNCHANGED <<files, missing, failed, peer, sk, E, ct, alpha, chl_0, m_idx>>

SendCTd(idx) ==
  /\ Goto(idx, "send_ct_d", "recv_ct") /\ idx \notin missing
  /\ \E r \in [Bins -> Rands] :
       ct' = [ct EXCEPT ![idx] =
                [b \in Bins |-> Enc(pk_HE[idx], read_d(idx)[b], r[b])]]
  /\ chl_0' = Send(chl_0, idx, 0, CTsMsg(ct'[idx]))
  /\ UNCHANGED <<files, missing, failed, peer, sk, pk_HE, E, alpha, chl_1, m_idx>>

\* Outward: receive from the predecessor, multiply every bin by a scalar.
RecvCT(idx) ==
  /\ Goto(idx, "recv_ct", IF idx = tn - 1 THEN "send_back" ELSE "send_on")
  /\ CanRecv(chl_1, idx, idx - 1, "cts")
  /\ \E a \in [Bins -> Alphas] :
       /\ alpha' = [alpha EXCEPT ![idx] = a]
       /\ ct' = [ct EXCEPT ![idx] = [b \in Bins |->
                   ScalarMul(Head(Inbox(chl_1, idx, idx - 1)).body[b], a[b])]]
  /\ chl_1' = Recv(chl_1, idx, idx - 1)
  /\ UNCHANGED <<files, missing, failed, peer, sk, pk_HE, E, chl_0, m_idx>>

\* Mutant: a party does not wait for the vector to come back.
SendOnNoWait(idx) ==
  /\ Goto(idx, "send_on", "send_back")
  /\ chl_1' = Send(chl_1, idx, idx, CTsMsg(ct[idx]))
  /\ UNCHANGED <<files, missing, failed, peer, sk, pk_HE, E, ct, alpha, chl_0, m_idx>>

SendOn(idx) ==
  /\ Goto(idx, "send_on", "recv_back")
  /\ chl_1' = Send(chl_1, idx, idx, CTsMsg(ct[idx]))
  /\ UNCHANGED <<files, missing, failed, peer, sk, pk_HE, E, ct, alpha, chl_0, m_idx>>

\* Mutant: the vector that comes back is dropped.
RecvBackStale(idx) ==
  /\ Goto(idx, "recv_back", "send_back")
  /\ CanRecv(chl_0, idx, idx, "cts")
  /\ chl_0' = Recv(chl_0, idx, idx)
  /\ UNCHANGED <<files, missing, failed, peer, sk, pk_HE, E, ct, alpha, chl_1, m_idx>>

RecvBack(idx) ==
  /\ Goto(idx, "recv_back", "send_back")
  /\ CanRecv(chl_0, idx, idx, "cts")
  /\ ct' = [ct EXCEPT ![idx] = Head(Inbox(chl_0, idx, idx)).body]
  /\ chl_0' = Recv(chl_0, idx, idx)
  /\ UNCHANGED <<files, missing, failed, peer, sk, pk_HE, E, alpha, chl_1, m_idx>>

\* Mutant: the permutation replaces the decryption instead of following it.
SendBackNoDec(idx) ==
  /\ Goto(idx, "send_back", "done")
  /\ \E pi \in IF Permute THEN Perms ELSE {[b \in Bins |-> b]} :
       ct' = [ct EXCEPT ![idx] =
                [b \in Bins |-> IF Permute THEN @[pi[b]] ELSE Dec(sk[idx], @[pi[b]])]]
  /\ chl_0' = Send(chl_0, idx, idx - 1, CTsMsg(ct'[idx]))
  /\ UNCHANGED <<files, missing, failed, peer, sk, pk_HE, E, alpha, chl_1, m_idx>>

\* Mutant: the bins are gathered with replacement, not permuted.
SendBackDup(idx) ==
  /\ Goto(idx, "send_back", "done")
  /\ \E pi \in IF Permute THEN [Bins -> Bins] ELSE {[b \in Bins |-> b]} :
       ct' = [ct EXCEPT ![idx] = [b \in Bins |-> Dec(sk[idx], @[pi[b]])]]
  /\ chl_0' = Send(chl_0, idx, idx - 1, CTsMsg(ct'[idx]))
  /\ UNCHANGED <<files, missing, failed, peer, sk, pk_HE, E, alpha, chl_1, m_idx>>

\* Inward: remove the own key layer, permute in JP_PEQT, hand back.
SendBack(idx) ==
  /\ Goto(idx, "send_back", "done")
  /\ \E pi \in IF Permute THEN Perms ELSE {[b \in Bins |-> b]} :
       ct' = [ct EXCEPT ![idx] = [b \in Bins |-> Dec(sk[idx], @[pi[b]])]]
  /\ chl_0' = Send(chl_0, idx, idx - 1, CTsMsg(ct'[idx]))
  /\ UNCHANGED <<files, missing, failed, peer, sk, pk_HE, E, alpha, chl_1, m_idx>>

-----------------------------------------------------------------------------
(***************************************************************************)
(* Failure.  A receive throws when the peer has closed the socket and      *)
(* nothing is left to read, or when the buffer has another length; a send  *)
(* may throw when the peer is gone.  A missing file leaves the party with  *)
(* an empty table, which it fails on at its next use.                      *)
(***************************************************************************)
Stopped(idx) == pc[idx] = "done" \/ idx \in failed

Receiving == {"recv_pk", "recv_ct_d", "recv_pk_HE", "recv_ct", "recv_back"}

\* The socket a party blocks on, the party at its other end and the length
\* of the buffer it expects.
Awaited(idx) ==
  CASE pc[idx] = "recv_pk"    -> [chl |-> chl_0, j |-> peer, size |-> "point"]
    [] pc[idx] = "recv_ct_d"  -> [chl |-> chl_0, j |-> peer, size |-> "cts"]
    [] pc[idx] = "recv_pk_HE" -> [chl |-> chl_1, j |-> 0, size |-> "point"]
    [] pc[idx] = "recv_ct"    -> IF idx = 0
                                 THEN [chl |-> chl_0, j |-> 0, size |-> "cts"]
                                 ELSE [chl |-> chl_1, j |-> idx - 1, size |-> "cts"]
    [] pc[idx] = "recv_back"  -> [chl |-> chl_0, j |-> idx, size |-> "cts"]

\* The party a pending send goes to.
Target(idx) ==
  CASE pc[idx] = "send_pk_HE" -> PeerOf(0, peer)
    [] pc[idx] = "send_ct"    -> 1
    [] pc[idx] \in {"send_pk", "send_ct_d"} -> 0
    [] pc[idx] = "send_on"    -> idx + 1
    [] pc[idx] = "send_back"  -> idx - 1

\* Mutant: a receive throws when nothing has arrived yet.
RecvThrowsEarly(idx) ==
  LET w == Awaited(idx)
      q == Inbox(w.chl, idx, w.j)
  IN  IF q = <<>> THEN TRUE ELSE Head(q).size # w.size

RecvThrows(idx) ==
  LET w == Awaited(idx)
      q == Inbox(w.chl, idx, w.j)
  IN  IF q = <<>> THEN Stopped(PeerOf(idx, w.j))
                  ELSE Head(q).size # w.size

NoFile(idx) ==
  idx \in missing /\ pc[idx] = IF idx = 0 THEN "recv_ct_d" ELSE "send_ct_d"

\* Mutant: the error is swallowed and the call made again.
FailRetry(idx) ==
  /\ ~Stopped(idx)
  /\ \/ NoFile(idx)
     \/ pc[idx] \in Receiving /\ RecvThrows(idx)
     \/ pc[idx] \notin Receiving /\ Target(idx) \in failed
  /\ UNCHANGED vars

Fail(idx) ==
  /\ ~Stopped(idx)
  /\ \/ NoFile(idx)
     \/ pc[idx] \in Receiving /\ RecvThrows(idx)
     \/ pc[idx] \notin Receiving /\ Target(idx) \in failed
  /\ failed' = failed \cup {idx}
  /\ UNCHANGED <<files, missing, pc, peer, sk, pk_HE, E, ct, alpha, chl_0, chl_1, m_idx>>

-----------------------------------------------------------------------------
P0Call == P0RecvPk \/ P0SendPkHE \/ P0RecvCTd \/ P0SendCT \/ P0RecvCT

Call(idx) ==
  \/ SendPk(idx) \/ RecvPkHE(idx) \/ SendCTd(idx) \/ RecvCT(idx)
  \/ SendOn(idx) \/ RecvBack(idx) \/ SendBack(idx)

P0Step         == 0 \notin failed /\ (P0Call \/ Fail(0))
PartyStep(idx) == idx \notin failed /\ (Call(idx) \/ Fail(idx))

AllStopped == \A idx \in Party : Stopped(idx)

\* Every process has returned from main.
Terminated == AllStopped /\ UNCHANGED vars

Next == P0Step \/ (\E idx \in Others : PartyStep(idx)) \/ Terminated

Spec == Init /\ [][Next]_vars

\* Every process keeps running until it blocks.
Fairness == WF_vars(P0Step) /\ \A idx \in Others : WF_vars(PartyStep(idx))

FairSpec == Spec /\ Fairness
-----------------------------------------------------------------------------
(***************************************************************************)
(* Properties.                                                             *)
(***************************************************************************)
PCs == {"recv_pk", "send_pk_HE", "recv_ct_d", "send_ct", "recv_ct", "send_pk",
        "recv_pk_HE", "send_ct_d", "send_on", "recv_back", "send_back", "done"}

\* Every variable keeps the type of its counterpart in J_PEQT; party 0 and
\* the other parties only ever stand at a statement of their own branch of
\* the function, and the loop index stays within the channel vectors.
TypeOK ==
  /\ files \in Files /\ missing \subseteq Party
  /\ pc \in [Party -> PCs] /\ failed \subseteq Party
  /\ pc[0] \in {"recv_pk", "send_pk_HE", "recv_ct_d", "send_ct", "recv_ct", "done"}
  /\ \A idx \in Others : pc[idx] \in {"send_pk", "recv_pk_HE", "send_ct_d", "recv_ct",
                                     "send_on", "recv_back", "send_back", "done"}
  /\ pc[tn - 1] \notin {"send_on", "recv_back"}
  /\ peer \in 0..(tn - 2)
  /\ sk \in [Party -> Secrets] /\ pk_HE \in [Party -> Int]
  /\ E \in [Bins -> Int] /\ ct \in [Party -> CTs] /\ alpha \in [Party -> [Bins -> Int]]
  /\ chl_0 \in [Party \X Party -> Seq(Messages)]
  /\ chl_1 \in [Party \X Party -> Seq(Messages)]
  /\ (m_idx = NoResult \/ m_idx \subseteq Bins)

\* A receive never meets a buffer of another length than the one it made
\* room for: keys and ciphertext vectors share the sockets chl_0 (party to
\* 0) and chl_1 (0 to 1), and only the order of the calls keeps them apart.
LengthsAgree ==
  \A idx \in Party : pc[idx] \in Receiving =>
    LET w == Awaited(idx) q == Inbox(w.chl, idx, w.j)
    IN  q # <<>> => Head(q).size = w.size

\* No send ever queues behind an unread buffer of the same socket, so no
\* process needs more socket memory than its largest message.
OneInFlight ==
  \A l \in Party \X Party : Len(chl_0[l]) <= 1 /\ Len(chl_1[l]) <= 1

\* A party that has handed the vector back has got it from a party that had
\* too: when party 0 tests the bins, everyone has removed its key layer.
ChainOrder ==
  \A idx \in Party : pc[idx] = "done" /\ idx + 1 \in Party => pc[idx + 1] = "done"

\* The test ends for everyone or for no one: after a missing file no party
\* returns normally and party 0 reports nothing.
AllOrNothing ==
  failed # {} =>
     m_idx = NoResult /\ \A idx \in Party : pc[idx] # "done"

KeySum(k) == SumFunctionOnSet(sk, 0..k)

\* The two rows of shares of party 0 and party idx: the two files that the
\* same session of uMCRG (big-set parties) or MCRG (small-set) has written.
Rows == [idx \in Others |->
  IF idx \in 1..bn
  THEN [e |-> files.sender_mcrg[idx - 1], d |-> files.receiver_mcrg[idx - 1]]
  ELSE [e |-> files.sender_result[idx - bn - 1], d |-> files.receiver_result[idx - bn - 1]]]

D(b)        == SumFunctionOnSet([idx \in Others |-> Rows[idx].d[b]], Others)
ESum(b)     == SumFunctionOnSet([idx \in Others |-> Rows[idx].e[b]], Others)
Blinding(b) == FoldFunctionOnSet(LAMBDA x, y : x * y, 1, [i \in Others |-> alpha[i][b]], Others)

\* On the way back the vector that party idx has sent is the blinded
\* difference of the shares under the keys of 0..idx-1 and no other, bin by
\* bin up to the permutations applied so far.
LayersPeeled ==
  \A idx \in Others : pc[idx] = "done" =>
    \E p \in IF Permute THEN Perms ELSE {[b \in Bins |-> b]} : \A b \in Bins :
      SamePoint(ct[idx][b].Y, Blinding(p[b]) * (D(p[b]) - ESum(p[b]))
                              + ct[idx][b].X * KeySum(idx - 1))

\* The bins whose shares agree over all parties, and those a zero scalar hides.
Matched == {b \in Bins : SamePoint(D(b), ESum(b))}
Zeroed  == {b \in Bins : \E idx \in Others : SamePoint(alpha[idx][b], 0)}

\* Party 0 reports the bins whose shares agree (J_PEQT) or as many bins as
\* there are such (JP_PEQT); the only false positives are zero scalars.
ResultExact ==
  m_idx # NoResult =>
    IF Permute THEN Cardinality(m_idx) = Cardinality(Matched \cup Zeroed)
               ELSE m_idx = Matched \cup Zeroed

\* Every party stops, whatever files are missing: nobody waits forever for a
\* party that has failed.
EveryoneStops == <>AllStopped

\* With every file in place party 0 gets its result.
ResultArrives == missing = {} ~> m_idx # NoResult

-----------------------------------------------------------------------------
(***************************************************************************)
(* The protocol implements the one-step test of JointPEQT.                 *)
(***************************************************************************)
Ideal == INSTANCE JointPEQT WITH
  rows    <- Rows,
  verdict <- IF m_idx = NoResult THEN NoResult
             ELSE IF Permute THEN Cardinality(m_idx) ELSE m_idx

\* Whatever the interleaving and whichever files are missing, what party 0
\* learns is what a trusted party computing on the rows would tell it.
ImplementsIdeal == Ideal!Spec
=============================================================================
