---------------------------- MODULE JPEQTConnect ----------------------------
(***************************************************************************)
(* How the parties of J_PEQT and JP_PEQT connect (src/JPEQT/JPEQT.cpp).    *)
(*                                                                         *)
(* Every party makes two loops over the other parties, in ascending order: *)
(* the first fills chl_0, where the higher of two parties is the server,   *)
(* the second fills chl_1, where the lower one is.  Every call blocks: a   *)
(* server call binds the port of the pair, listens and waits for one       *)
(* client; a client call retries until someone listens on the port.  A     *)
(* client is connected as soon as the listener has it in its backlog,      *)
(* which may be before the server's accept returns.                        *)
(***************************************************************************)
EXTENDS JPEQTParties, Sequences

Kinds == {0, 1}                 \* chl_0 and chl_1

PORT == 1212

VARIABLES
  kind,     \* the loop a party is in; 2 after the second one
  other,    \* its loop index
  bound,    \* the parties in a server call whose port is bound
  backlog,  \* the clients a listening party has not accepted yet
  sockets   \* sockets[k][idx]: what the sockets of chl_k of idx are connected to

connectVars == <<kind, other, bound, backlog, sockets>>

-----------------------------------------------------------------------------
(* The call a party is in. *)

Connecting(idx) == kind[idx] \in Kinds

\* The higher party of a pair is the server of its chl_0, the lower one of
\* its chl_1.
Serves(idx) ==
  Connecting(idx) /\ IF kind[idx] = 0 THEN other[idx] < idx ELSE other[idx] > idx

\* Mutant: the port names the higher party only.
PortNoLow(k, hi, lo) == PORT + hi * (IF k = 0 THEN 100 ELSE 155)

\* The port of a pair of parties, lo < hi, for chl_k.
Port(k, hi, lo) == PORT + hi * (IF k = 0 THEN 100 ELSE 155) + lo

CallPort(idx) ==
  IF other[idx] < idx THEN Port(kind[idx], idx, other[idx])
                      ELSE Port(kind[idx], other[idx], idx)

\* The first index of a loop: a party skips itself.
First(idx) == IF idx = 0 THEN 1 ELSE 0

ConnectInit ==
  /\ kind = [idx \in Party |-> 0]
  /\ other = [idx \in Party |-> First(idx)]
  /\ bound = {}
  /\ backlog = [idx \in Party |-> <<>>]
  /\ sockets = [k \in Kinds |-> [idx \in Party |-> <<>>]]

Follower(idx) == IF other[idx] + 1 = idx THEN other[idx] + 2 ELSE other[idx] + 1

\* The socket a call returns is appended to the vector of its loop; the other
\* end is the party and the vector it is made for there.
Return(idx, end) ==
  /\ sockets' = [sockets EXCEPT ![kind[idx]][idx] = Append(@, end)]
  /\ IF Follower(idx) < tn
     THEN other' = [other EXCEPT ![idx] = Follower(idx)] /\ kind' = kind
     ELSE other' = [other EXCEPT ![idx] = First(idx)] /\ kind' = [kind EXCEPT ![idx] = @ + 1]

End(idx) == [party |-> idx, kind |-> kind[idx]]

\* A server call binds its port; a port already in use would make it throw.
Listen(idx) ==
  /\ Serves(idx) /\ idx \notin bound
  /\ \A s \in bound : CallPort(s) # CallPort(idx)
  /\ bound' = bound \cup {idx}
  /\ UNCHANGED <<kind, other, backlog, sockets>>

\* Mutant: the client drops the connection and dials again.
DialAgain(idx) ==
  /\ Connecting(idx) /\ ~Serves(idx)
  /\ UNCHANGED connectVars

\* A client call finds a listener on its port, whoever that is.
Dial(idx) ==
  /\ Connecting(idx) /\ ~Serves(idx)
  /\ \E s \in bound :
       /\ CallPort(s) = CallPort(idx)
       /\ backlog' = [backlog EXCEPT ![s] = Append(@, End(idx))]
       /\ Return(idx, End(s))
  /\ UNCHANGED bound

\* The server takes one client and closes the listening socket.
Accept(idx) ==
  /\ idx \in bound /\ backlog[idx] # <<>>
  /\ Return(idx, Head(backlog[idx]))
  /\ backlog' = [backlog EXCEPT ![idx] = <<>>]
  /\ bound' = bound \ {idx}

Connect(idx) == Listen(idx) \/ Dial(idx) \/ Accept(idx)

Connected == \A idx \in Party : ~Connecting(idx)

ConnectTerminated == Connected /\ UNCHANGED connectVars

ConnectNext == (\E idx \in Party : Connect(idx)) \/ ConnectTerminated

ConnectSpec == ConnectInit /\ [][ConnectNext]_connectVars

\* Every process keeps running, and a client keeps retrying.
ConnectFairSpec == ConnectSpec /\ \A idx \in Party : WF_connectVars(Connect(idx))

-----------------------------------------------------------------------------
(* Properties. *)

Ends == [party : Party, kind : Kinds]

\* The index of the next socket of chl_k of a party.
Filled(k, idx) ==
  IF k < kind[idx] THEN tn - 1
  ELSE IF k > kind[idx] THEN 0
  ELSE IF other[idx] < idx THEN other[idx] ELSE other[idx] - 1

\* A party never calls itself or a party that does not exist, listens only in
\* a server call and has one socket for every call that has returned.
ConnectTypeOK ==
  /\ kind \in [Party -> 0..2] /\ other \in [Party -> Party]
  /\ \A idx \in Party : other[idx] # idx
  /\ bound \subseteq {idx \in Party : Serves(idx)}
  /\ backlog \in [Party -> Seq(Ends)]
  /\ sockets \in [Kinds -> [Party -> Seq(Ends)]]
  /\ \A k \in Kinds, idx \in Party : Len(sockets[k][idx]) = Filled(k, idx)

\* No bind ever meets a port that another party is listening on: the two port
\* formulas keep the pairs and the two loops apart.
PortFree ==
  \A s \in bound, idx \in Party :
    Serves(idx) /\ idx # s => CallPort(idx) # CallPort(s)

\* Every socket ends where the protocol will use it: the socket at index j of
\* chl_k is connected to the chl_k socket of the party that j stands for.
RightEnds ==
  \A k \in Kinds, idx \in Party : \A j \in 1..Len(sockets[k][idx]) :
    sockets[k][idx][j] = [party |-> PeerOf(idx, j - 1), kind |-> k]

\* The blocking calls, made in this order by every party, never wait in a
\* circle: all parties end up connected.
AllConnect == <>Connected
=============================================================================
