-------------------------- MODULE QueryExchange_proof --------------------------
(***************************************************************************)
(* Theorems about QueryExchange for every number of receivers, bundles,    *)
(* caches and workers, and every trouble: what the sender finds in its     *)
(* channel is what it waits for, and the matrix it writes for a receiver   *)
(* holds every package of that receiver, in its place.                     *)
(***************************************************************************)
EXTENDS QueryExchange, FoldTheorems, SequenceTheorems, TLAPS

(***************************************************************************)
(* What is said.                                                           *)
(***************************************************************************)
ParmsMsg == SendOperation(parameters.version, "rop_parms", ParmsRequest)
QueryMsg == SendOperation(parameters.version, "rop_query", CreateQuery(parameters))

Answer == AtDealer(SendResponse("asker", "rop_parms", ParmsResponse(Parameters)))
Response(r) ==
  AtDealer(SendResponse("sender", "rop_query", QueryResponse(PackageCount(r), AlphaMax(r))))

Masks == Int
Package(r, t, m) == ResultPackage(Context, t[2], t[1], [receiver |-> r, mask |-> m])
Packages(r) == {<<Package(r, t, m)>> : t \in Real(r), m \in Masks}

Letters == {ParmsMsg, QueryMsg}
Mail == {Answer} \cup {Response(r) : r \in Receivers} \cup UNION {Packages(r) : r \in Receivers}
Parts == {None} \cup UNION {{msg[1] : msg \in Packages(r)} : r \in Receivers}

\* The place of a package; a response has none.
Place(part) == <<part.cache_idx, part.bundle_idx>>
At(msg) == IF Len(msg) = 1 THEN Place(msg[1]) ELSE None

(***************************************************************************)
(* The types.                                                              *)
(***************************************************************************)
Stages == {"off", "load", "claim", "receive", "copy"}
Where == {"oprf", "bind", "listen", "query", "masks", "process", "returned", "unwound", "failed"}

SenderTypes ==
  /\ parameters \in SenderParameters
  /\ sender \in {"oprf", "response", "join", "returned", "threw"} /\ current \in Receivers
  /\ package_count \in Nat
  /\ worker \in [Workers -> [at : Stages, count : Nat, part : Parts]]

ReceiverTypes ==
  /\ receiver \in [Receivers -> Where] /\ client \in [Receivers -> {None} \cup Clients]
  /\ tasks \in [Receivers -> SUBSET (Nat \X Nat)]
  /\ masks = [r \in Receivers |-> masks[r]]
  /\ random_matrix = [r \in Receivers |-> random_matrix[r]]

ChannelTypes ==
  /\ requests \in [Receivers -> [Clients -> Seq(Letters)]]
  /\ queue \in [Receivers -> [Clients -> Seq(Mail)]]
  /\ file = [f \in Files |-> file[f]] /\ asker = [r \in Askers |-> asker[r]]

Types == SenderTypes /\ ReceiverTypes /\ ChannelTypes

\* What other clients ask and are answered; the sender sends nothing but queries.
Asking == \A r \in Receivers :
  /\ requests[r]["asker"] \in Seq({ParmsMsg}) /\ queue[r]["asker"] \in Seq({Answer})

(***************************************************************************)
(* Where a receiver is, as the sender sees it: not yet asked; asked, and   *)
(* silent; answering; done with, its channel empty; or ended before it was *)
(* asked.                                                                  *)
(***************************************************************************)
Quiet(r) == requests[r]["sender"] = <<>> /\ queue[r]["sender"] = <<>> /\ tasks[r] = {}

Untouched(r) == receiver[r] = "oprf" /\ Quiet(r)

Unanswered(r) ==
  /\ receiver[r] \in {"bind", "listen", "unwound", "failed"}
  /\ requests[r]["sender"] \in {<<>>, <<QueryMsg>>} /\ queue[r]["sender"] = <<>> /\ tasks[r] = {}

Queued(r) == {At(queue[r]["sender"][k]) : k \in DOMAIN queue[r]["sender"]}

Answering(r) ==
  /\ receiver[r] \in {"query", "masks", "process", "returned", "unwound", "failed"}
  /\ parameters = Parameters /\ client[r] = "sender" /\ requests[r]["sender"] = <<>>
  /\ receiver[r] = "query" => sender = "response" /\ queue[r]["sender"] = <<>>
  /\ tasks[r] # {} => receiver[r] \in {"process", "unwound"}
  /\ receiver[r] \in {"query", "masks"} => Queued(r) \subseteq {None}
  /\ (receiver[r] \in {"masks", "process", "returned"} \/ tasks[r] # {}) /\ sender = "response" =>
       queue[r]["sender"] # <<>>
  /\ \A k \in DOMAIN queue[r]["sender"] :
       IF k = 1 /\ sender = "response" THEN queue[r]["sender"][k] = Response(r)
                                       ELSE queue[r]["sender"][k] \in Packages(r)
  /\ \A j, k \in DOMAIN queue[r]["sender"] :
       At(queue[r]["sender"][j]) = At(queue[r]["sender"][k]) => j = k
  /\ tasks[r] \subseteq Real(r) /\ tasks[r] \cap Queued(r) = {}

Finished(r) ==
  /\ receiver[r] \in {"masks", "process", "returned", "unwound", "failed"} /\ Quiet(r)
  /\ receiver[r] = "masks" => Real(r) = {}

Phases ==
  /\ \A r \in Receivers : (r < current => Finished(r)) /\ (r > current => Untouched(r))
  /\ sender = "oprf" => Untouched(current)
  /\ sender = "response" => Unanswered(current) \/ Answering(current)
  /\ sender = "join" => Answering(current)
  /\ sender = "returned" => Finished(current)
  /\ sender = "threw" => receiver[current] = "failed" /\ Quiet(current)

(***************************************************************************)
(* Where a package of the current receiver is: not yet sent, in the        *)
(* channel, held by a worker, or in the matrix.                            *)
(***************************************************************************)
Spot(c, b, j) == (c * BundleCount + b) * ItemsPerBundle + j

Holders == {w \in Workers : worker[w].at = "copy"}
Waiting == {w \in Workers : worker[w].at = "receive"}
Held == {Place(worker[w].part) : w \in Holders}
Own(cell) == cell # None /\ cell.receiver = current
Stored == {t \in Real(current) : Spot(t[1], t[2], 0) \in DOMAIN matrix /\ Own(matrix[Spot(t[1], t[2], 0)])}

Cells ==
  /\ sender = "join" => DOMAIN matrix = 0..(AlphaMax(current) * BundleCount * ItemsPerBundle - 1)
  /\ \A k \in DOMAIN matrix : matrix[k] # None =>
       LET x == matrix[k]
       IN  /\ x.receiver \in Receivers /\ x.receiver <= current
           /\ x.receiver = current => sender \in {"join", "returned"}
           /\ <<x.cache, x.bundle>> \in Real(x.receiver) /\ x.item \in 0..(ItemsPerBundle - 1)
           /\ k = Spot(x.cache, x.bundle, x.item)

Ledger ==
  /\ \A v, w \in Holders : Place(worker[v].part) = Place(worker[w].part) => v = w
  /\ Held \cap Stored = {}
  /\ (tasks[current] \cup Queued(current)) \cap (Held \cup Stored) = {}
  /\ receiver[current] = "masks" => Held = {} /\ Stored = {}

Crew ==
  /\ sender # "join" => \A w \in Workers : worker[w].at = "off"
  /\ sender = "join" /\ package_count # 0 => worker[1].at # "off"
  /\ \A w \in Workers : worker[w].at = "claim" => worker[w].count # 0
  /\ \A w \in Workers : worker[w].at = "copy" => <<worker[w].part>> \in Packages(current)
  /\ sender = "join" =>
       Cardinality(Held \cup Stored) + Cardinality(Waiting) + package_count = PackageCount(current)

(***************************************************************************)
(* What has been written.                                                  *)
(***************************************************************************)
Complete(f, r) ==
  LET Cell(c, b, j) == f.cells[Spot(c, b, j)]
  IN  /\ \A c \in 0..(f.alpha - 1), b \in Bundles, j \in 0..(ItemsPerBundle - 1) :
           LET own == Cell(c, b, j) # None /\ Cell(c, b, j).receiver = r
           IN  own <=> (c < Caches[r][b] /\ Cell(c, b, j) # None
                        /\ Cell(c, b, j).cache = c /\ Cell(c, b, j).bundle = b
                        /\ Cell(c, b, j).item = j /\ Cell(c, b, j).receiver = r)
      /\ \A cb \in Real(r) : Cell(cb[1], cb[2], 0) # None /\ Cell(cb[1], cb[2], 0).receiver = r

Written == \A r \in Receivers : file[<<"sender", r>>] # None =>
  /\ r < current \/ (r = current /\ sender = "returned")
  /\ Complete(file[<<"sender", r>>], r)

IInv == Types /\ Asking /\ Phases /\ Cells /\ Ledger /\ Crew /\ Written

-----------------------------------------------------------------------------
(***************************************************************************)
(* The constants.                                                          *)
(***************************************************************************)
LEMMA Sizes ==
  /\ BundleCount \in Nat /\ BundleCount >= 1 /\ ItemsPerBundle \in Nat /\ ItemsPerBundle >= 1
  /\ Threads \in Nat /\ 1 \in Workers /\ Workers \subseteq Nat /\ IsFiniteSet(Workers)
  /\ Receivers \subseteq Nat /\ 1 \in Receivers /\ Bundles \subseteq Nat /\ 0 \in Bundles
  /\ \A r \in Receivers : r >= 1 /\ \A s \in Nat : 1 <= s /\ s <= r => s \in Receivers
<1>1. BundleCount \in Nat /\ BundleCount >= 1 /\ ItemsPerBundle \in Nat /\ ItemsPerBundle >= 1
      /\ Threads \in Nat /\ Threads >= 1 BY QueryAssumption
<1>2. 1 \in Workers /\ Workers \subseteq Nat /\ IsFiniteSet(Workers)
  BY <1>1, FS_Interval DEF Workers
<1> DEFINE n == Cardinality(Receivers)
<1>3. n \in Nat /\ Receivers = 1..n /\ Receivers # {} BY QueryAssumption, FS_CardinalityType
<1> HIDE DEF n
<1>4. n >= 1 BY ONLY <1>3
<1>5. Bundles \subseteq Nat /\ 0 \in Bundles BY <1>1 DEF Bundles
<1>6. ASSUME NEW r \in Receivers, NEW s \in Nat, 1 <= s, s <= r PROVE s \in Receivers
  BY ONLY <1>3, <1>6
<1>7. Receivers \subseteq Nat /\ 1 \in Receivers BY ONLY <1>3, <1>4
<1>8. \A r \in Receivers : r >= 1 BY ONLY <1>3
<1> QED BY <1>1, <1>2, <1>5, <1>6, <1>7, <1>8

\* The caches of a receiver are finitely many places.
LEMMA Places ==
  ASSUME NEW r \in Receivers
  PROVE  /\ AlphaMax(r) \in Nat /\ \A b \in Bundles : Caches[r][b] <= AlphaMax(r)
         /\ IsFiniteSet(Real(r)) /\ PackageCount(r) \in Nat
         /\ \A t \in Real(r) : /\ t[1] \in Nat /\ t[1] < AlphaMax(r) /\ t[2] \in Bundles
                               /\ t[1] < Caches[r][t[2]] /\ t = <<t[1], t[2]>>
                               /\ t \in Nat \X Nat
         /\ \A c \in Nat : \A b \in Bundles : c < Caches[r][b] => <<c, b>> \in Real(r)
<1> DEFINE S == {Caches[r][b] : b \in Bundles}
           n == AlphaMax(r)
<1>1. IsFiniteSet(Bundles) BY Sizes, FS_Interval DEF Bundles
<1>2. \A b \in Bundles : Caches[r][b] \in Nat BY QueryAssumption
<1>3. S \subseteq Nat /\ S # {} BY <1>2, Sizes
<1>4. IsFiniteSet(S)
  <2> DEFINE f == [b \in Bundles |-> Caches[r][b]]
  <2>1. f \in Surjection(Bundles, S) BY DEF Surjection
  <2> QED BY <1>1, <2>1, FS_Surjection
<1>5. n \in Nat /\ \A x \in S : x <= n
  <2> HIDE DEF S
  <2>1. n = Max(S) BY DEF AlphaMax, S
  <2>2. Max(S) \in S /\ \A x \in S : x <= Max(S) BY <1>3, <1>4, MaxIs
  <2> QED BY <2>1, <2>2, <1>3
<1> HIDE DEF n
<1>6. \A b \in Bundles : Caches[r][b] <= n BY <1>5
<1>7. Real(r) = {t \in (0..(n - 1)) \X Bundles : t[1] < Caches[r][t[2]]} BY DEF Real, n
<1>8. ASSUME NEW t \in Real(r)
      PROVE  /\ t[1] \in Nat /\ t[1] < n /\ t[2] \in Bundles /\ t[1] < Caches[r][t[2]]
             /\ t = <<t[1], t[2]>> /\ t \in Nat \X Nat
  BY <1>7, <1>5, Sizes
<1>9. ASSUME NEW c \in Nat, NEW b \in Bundles, c < Caches[r][b] PROVE <<c, b>> \in Real(r)
  <2>1. c \in 0..(n - 1) BY <1>9, <1>6, <1>5, <1>2
  <2> QED BY <2>1, <1>7, <1>9
<1>10. IsFiniteSet(Real(r))
  <2>1. IsFiniteSet((0..(n - 1)) \X Bundles)
    <3>1. IsFiniteSet(0..(n - 1)) BY <1>5, FS_Interval
    <3> QED BY <1>1, <3>1, FS_Product
  <2> QED BY <2>1, <1>7, FS_Subset
<1>11. PackageCount(r) \in Nat BY <1>10, FS_CardinalityType DEF PackageCount
<1> QED BY <1>5, <1>6, <1>8, <1>9, <1>10, <1>11 DEF n

\* A number has one quotient and one remainder, and they order it.
LEMMA Digits ==
  ASSUME NEW m \in Nat, NEW x \in Nat, NEW y \in Nat, NEW i \in Nat, NEW k \in Nat, i < m, k < m
  PROVE  /\ x < y => x * m + i < y * m + k
         /\ x * m + i = y * m + k => x = y /\ i = k
<1>1. \A u, v \in Nat, a, b \in Nat : a < m /\ b < m /\ u < v => u * m + a < v * m + b
  <2> TAKE u, v \in Nat, a, b \in Nat
  <2> HAVE a < m /\ b < m /\ u < v
  <2>1. PICK z \in Nat : v = u + 1 + z
    <3>1. v - u - 1 \in Nat /\ v = u + 1 + (v - u - 1) OBVIOUS
    <3> QED BY <3>1
  <2>2. v * m = u * m + m + z * m BY <2>1
  <2>3. z * m \in Nat /\ u * m \in Nat BY <2>1
  <2> QED BY <2>2, <2>3
<1>2. ASSUME x * m + i = y * m + k PROVE x = y /\ i = k
  <2>1. x * m \in Nat /\ y * m \in Nat OBVIOUS
  <2>2. ~(x < y) BY <1>1, <1>2, <2>1
  <2>3. ~(y < x) BY <1>1, <1>2, <2>1
  <2>4. x = y BY <2>2, <2>3
  <2> QED BY <2>4, <2>1, <1>2
<1> QED BY <1>1, <1>2

\* No two cells of a matrix have the same spot, and cells are in the matrix.
LEMMA Spots ==
  ASSUME NEW c \in Nat, NEW b \in Bundles, NEW j \in 0..(ItemsPerBundle - 1)
  PROVE  /\ Spot(c, b, j) \in Nat
         /\ \A d \in Nat : \A e \in Bundles : \A i \in 0..(ItemsPerBundle - 1) :
              Spot(c, b, j) = Spot(d, e, i) => c = d /\ b = e /\ j = i
         /\ \A n \in Nat : c < n => Spot(c, b, j) \in 0..(n * BundleCount * ItemsPerBundle - 1)
         /\ Spot(c, b, j) = Spot(c, b, 0) + j
<1> DEFINE B == BundleCount
           I == ItemsPerBundle
<1>1. B \in Nat /\ B >= 1 /\ I \in Nat /\ I >= 1 /\ b \in Nat /\ b < B /\ j \in Nat /\ j < I
  BY Sizes DEF Bundles
<1>2. \A m \in Nat, x, y, i, k \in Nat : i < m /\ k < m /\ x < y => x * m + i < y * m + k
  BY Digits
<1>3. \A m \in Nat, x, y, i, k \in Nat : i < m /\ k < m /\ x * m + i = y * m + k => x = y /\ i = k
  BY Digits
<1>4. c * B \in Nat /\ c * B + b \in Nat BY <1>1
<1>5. (c * B + b) * I \in Nat BY <1>1, <1>4
<1>6. ASSUME NEW d \in Nat, NEW e \in Bundles, NEW i \in 0..(I - 1), Spot(c, b, j) = Spot(d, e, i)
      PROVE  c = d /\ b = e /\ j = i
  <2>1. e \in Nat /\ e < B /\ i \in Nat /\ i < I BY Sizes DEF Bundles
  <2>2. d * B \in Nat /\ d * B + e \in Nat BY <1>1, <2>1
  <2>3. (c * B + b) * I + j = (d * B + e) * I + i BY <1>6 DEF Spot
  <2>4. c * B + b = d * B + e /\ j = i BY <1>1, <1>3, <1>4, <2>1, <2>2, <2>3
  <2>5. c = d /\ b = e BY <1>1, <1>3, <2>1, <2>4
  <2> QED BY <2>4, <2>5
<1>7. ASSUME NEW n \in Nat, c < n PROVE Spot(c, b, j) \in 0..(n * B * I - 1)
  <2>1. c * B + b < n * B + 0 BY <1>1, <1>2, <1>7
  <2>2. n * B \in Nat BY <1>1
  <2>3. c * B + b < n * B BY <2>1, <2>2
  <2>4. (c * B + b) * I + j < (n * B) * I + 0 BY <1>1, <1>2, <1>4, <2>2, <2>3
  <2>5. (n * B) * I \in Nat BY <2>2, <1>1
  <2> QED BY <2>4, <2>5, <1>5, <1>1 DEF Spot
<1> QED BY <1>1, <1>4, <1>5, <1>6, <1>7 DEF Spot
-----------------------------------------------------------------------------
(***************************************************************************)
(* What is made of a message.                                              *)
(***************************************************************************)
\* A part of a saved operation at the router.
LEMMA RoutedParts ==
  ASSUME NEW id, NEW version, NEW type, NEW rop
  PROVE  /\ AtRouter(id, SendOperation(version, type, rop))[1] = id
         /\ AtRouter(id, SendOperation(version, type, rop))[2] = Header(version, type)
         /\ AtRouter(id, SendOperation(version, type, rop))[3] = rop
BY DEF AtRouter, SendOperation

\* A request for the parameters is one, or is dropped.
LEMMA ParmsRead ==
  ASSUME NEW r, NEW c, Head(requests[r][c]) = ParmsMsg, Next_(r, c) # nullptr
  PROVE  Next_(r, c)[1].type = "rop_parms" /\ Next_(r, c)[1].client_id = c
<1> DEFINE msg == AtRouter(c, ParmsMsg)
<1>1. msg[1] = c /\ msg[2] = Header(parameters.version, "rop_parms") /\ msg[3] = ParmsRequest
  BY RoutedParts DEF ParmsMsg
<1>2. Next_(r, c) = ReceiveNetworkOperation(msg, <<Context>>) BY DEF Next_
<1> HIDE DEF msg
<1>3. Next_(r, c) = <<[client_id |-> msg[1], type |-> msg[2].type,
                       rop |-> LoadOperation(msg[2].type, msg[3], <<Context>>)[1]]>>
  BY <1>2 DEF ReceiveNetworkOperation
<1>4. msg[2].type = "rop_parms" BY <1>1 DEF Header
<1> QED BY <1>1, <1>3, <1>4

\* A query is the sender's, under the version and the modulus of the receiver.
LEMMA QueryRead ==
  ASSUME NEW r, NEW c, Head(requests[r][c]) = QueryMsg, Next_(r, c) # nullptr
  PROVE  /\ Next_(r, c)[1].type = "rop_query" /\ Next_(r, c)[1].client_id = c
         /\ Next_(r, c)[1].rop = CreateQuery(parameters)
         /\ parameters.version = apsu_serialization_version /\ parameters.context = Context
<1> DEFINE msg == AtRouter(c, QueryMsg)
           rop == CreateQuery(parameters)
           loaded == LoadOperation(msg[2].type, msg[3], <<Context>>)
<1>1. msg[1] = c /\ msg[2] = Header(parameters.version, "rop_query") /\ msg[3] = rop
  BY RoutedParts DEF QueryMsg
<1>2. Next_(r, c) = ReceiveNetworkOperation(msg, <<Context>>) BY DEF Next_
<1>3. rop.table = "QueryRequest" /\ rop.context = parameters.context /\ rop.relin_keys # nullptr
  BY DEF CreateQuery, QueryRequest, nullptr
<1> HIDE DEF msg, rop
<1>4. msg[2].type = "rop_query" /\ msg[2].version = parameters.version BY <1>1 DEF Header
<1>5. loaded = LoadQuery(rop, <<Context>>) BY <1>1, <1>4 DEF LoadOperation
<1> HIDE DEF loaded
<1>6. /\ AcceptableHeader(msg[2], apsu_serialization_version, DOMAIN TableOf) /\ loaded # nullptr
      /\ Next_(r, c) = <<[client_id |-> msg[1], type |-> msg[2].type, rop |-> loaded[1]]>>
  BY <1>2 DEF ReceiveNetworkOperation, loaded
<1>7. parameters.version = apsu_serialization_version BY <1>6, <1>4 DEF AcceptableHeader
<1>8. rop.context = Context /\ loaded = <<rop>> BY <1>5, <1>6 DEF LoadQuery
<1>9. Next_(r, c)[1] = [client_id |-> msg[1], type |-> msg[2].type, rop |-> loaded[1]] BY <1>6
<1> QED BY <1>1, <1>3, <1>4, <1>7, <1>8, <1>9 DEF rop

\* A query that is valid was made from the receiver's own parameters.
LEMMA QueryValid ==
  ASSUME parameters \in SenderParameters, parameters.version = apsu_serialization_version,
         parameters.context = Context, ValidQuery(CreateQuery(parameters))
  PROVE  parameters = Parameters
<1> DEFINE p == parameters
           bs == 0..(p.bundles - 1)
           data == [e \in p.powers |-> Cardinality({b \in bs : e \in p.powers})]
<1>1. p = [version |-> p.version, context |-> p.context, powers |-> p.powers, bundles |-> p.bundles]
      /\ IsFiniteSet(p.powers) /\ p.bundles \in Nat \ {0}
  BY ParametersAssumption
<1>2. CreateQuery(p).data = data
  <2>1. \A e \in p.powers : {b \in DOMAIN [x \in bs |-> p.powers] : e \in [x \in bs |-> p.powers][b]}
                             = {b \in bs : e \in p.powers} OBVIOUS
  <2> QED BY <2>1 DEF CreateQuery, QueryRequest
<1>3. ASSUME NEW e \in p.powers PROVE data[e] = p.bundles
  <2>1. {b \in bs : e \in p.powers} = bs OBVIOUS
  <2>2. Cardinality(bs) = p.bundles
    <3>1. ASSUME NEW n \in Nat, n # 0 PROVE Cardinality(0..(n - 1)) = n
      <4>1. n - 1 \in Int /\ ~(0 > n - 1) /\ (n - 1) - 0 + 1 = n BY <3>1
      <4> QED BY <4>1, FS_Interval
    <3> QED BY <1>1, <3>1
  <2> QED BY <2>1, <2>2
<1>4. /\ Cardinality(p.powers) = Cardinality(QueryPowers)
      /\ \A e \in p.powers : data[e] = BundleCount /\ e \in QueryPowers
  <2>1. DOMAIN data = p.powers OBVIOUS
  <2> HIDE DEF data
  <2> QED BY <1>2, <2>1 DEF ValidQuery
<1>5. p.powers \subseteq QueryPowers BY <1>4
<1>6. p.powers = QueryPowers BY <1>4, <1>5, ParametersAssumption, FS_Subset
<1>7. p.bundles = BundleCount BY <1>3, <1>4, <1>6, ParametersAssumption
<1> HIDE DEF p
<1>8. p = [version |-> apsu_serialization_version, context |-> Context, powers |-> QueryPowers,
           bundles |-> BundleCount]
  BY <1>1, <1>6, <1>7 DEF p
<1> QED BY <1>8 DEF Parameters, p

\* The answers.
LEMMA AnswerRead ==
  /\ ReceiveResponse(Answer, apsu_serialization_version) = <<ParmsResponse(Parameters)>>
  /\ Answer \in Mail
  /\ \A version : ReceiveResponse(Answer, version) \in {nullptr, <<ParmsResponse(Parameters)>>}
<1> DEFINE p == Parameters
<1>1. Answer = <<Header(apsu_serialization_version, "rop_parms"), ParmsResponse(p)>>
  BY DEF Answer, AtDealer, SendResponse
<1>2. Answer[1] = Header(apsu_serialization_version, "rop_parms") /\ Answer[2] = ParmsResponse(p)
  BY <1>1
<1>3. /\ Answer[1].table = "ReceiverOperationHeader" /\ Answer[1].type = "rop_parms"
      /\ Answer[1].version = apsu_serialization_version
  BY <1>2 DEF Header
<1>4. Answer[2].table = "ParmsResponse" BY <1>2 DEF ParmsResponse
<1>5. LoadResponse(Answer[2], "rop_parms") = <<ParmsResponse(p)>>
  BY <1>2, <1>4 DEF LoadResponse, ResponseTableOf
<1>6. LoadHeader(Answer[1]) # nullptr BY <1>3 DEF LoadHeader, nullptr
<1>7. "rop_parms" \in DOMAIN ResponseTableOf BY DEF ResponseTableOf
<1> HIDE DEF p
<1>8. ReceiveResponse(Answer, apsu_serialization_version) = <<ParmsResponse(p)>>
  BY <1>3, <1>5, <1>6, <1>7 DEF ReceiveResponse, AcceptableHeader
<1>9. \A version : ReceiveResponse(Answer, version) \in {nullptr, <<ParmsResponse(p)>>}
  BY <1>3, <1>5 DEF ReceiveResponse
<1> QED BY <1>8, <1>9 DEF p, Mail

LEMMA ResponseRead ==
  ASSUME NEW r \in Receivers
  PROVE  /\ ~InvalidMessage(Response(r), 2) /\ Response(r) \in Mail /\ At(Response(r)) = None
         /\ ToResponse(ReceiveResponse(Response(r), apsu_serialization_version), "rop_query")
              = <<QueryResponse(PackageCount(r), AlphaMax(r))>>
<1> DEFINE n == PackageCount(r)
           a == AlphaMax(r)
           msg == Response(r)
<1>1. msg = <<Header(apsu_serialization_version, "rop_query"), QueryResponse(n, a)>>
  BY DEF Response, AtDealer, SendResponse
<1>2. msg \in Mail BY DEF Mail
<1> HIDE DEF msg, n, a
<1>3. Len(msg) = 2 /\ msg[1] = Header(apsu_serialization_version, "rop_query")
      /\ msg[2] = QueryResponse(n, a)
  BY <1>1
<1>4. /\ msg[1].table = "ReceiverOperationHeader" /\ msg[1].type = "rop_query"
      /\ msg[1].version = apsu_serialization_version
  BY <1>3 DEF Header
<1>5. msg[2].table = "QueryResponse" /\ QueryResponse(n, a).table = "QueryResponse"
  BY <1>3 DEF QueryResponse
<1>6. LoadResponse(msg[2], "rop_query") = <<QueryResponse(n, a)>>
  BY <1>3, <1>5 DEF LoadResponse, ResponseTableOf
<1>7. LoadHeader(msg[1]) # nullptr BY <1>4 DEF LoadHeader, nullptr
<1>8. "rop_query" \in DOMAIN ResponseTableOf BY DEF ResponseTableOf
<1>9. ReceiveResponse(msg, apsu_serialization_version) = <<QueryResponse(n, a)>>
  BY <1>4, <1>6, <1>7, <1>8 DEF ReceiveResponse, AcceptableHeader
<1>10. ToResponse(<<QueryResponse(n, a)>>, "rop_query") = <<QueryResponse(n, a)>>
  BY <1>5 DEF ToResponse, ResponseTableOf, nullptr
<1>11. ~InvalidMessage(msg, 2) /\ At(msg) = None BY <1>3 DEF InvalidMessage, At
<1> QED BY <1>2, <1>9, <1>10, <1>11 DEF msg, n, a

\* A package, and what receiving and extracting it gives.
LEMMA PackageRead ==
  ASSUME NEW r \in Receivers, NEW t \in Real(r), NEW m \in Masks
  PROVE  LET part == Package(r, t, m)
         IN  /\ <<part>> \in Packages(r) /\ <<part>> \in Mail /\ part \in Parts
             /\ Place(part) = t /\ At(<<part>>) = t /\ ~InvalidMessage(<<part>>, 1)
             /\ ReceiveResult(<<part>>, <<Context>>) = <<part>>
             /\ part.cache_idx = t[1] /\ part.bundle_idx = t[2]
             /\ Extract(part).psu_result = [receiver |-> r, mask |-> m]
<1> DEFINE part == Package(r, t, m)
<1>1. t = <<t[1], t[2]>> BY Places
<1>2. <<part>> \in Packages(r) BY DEF Packages
<1>3. <<part>> \in Mail BY <1>2 DEF Mail
<1>4. part \in Parts
  <2>1. part = (<<part>>)[1] OBVIOUS
  <2> HIDE DEF part
  <2> QED BY <1>2, <2>1 DEF Parts
<1>5. /\ part.cache_idx = t[1] /\ part.bundle_idx = t[2] /\ part.table = "ResultPackage"
      /\ part.psu_result = [receiver |-> r, mask |-> m] /\ part.context = Context
      /\ part.label_byte_count = 0 /\ part.nonce_byte_count = 0
      /\ [part EXCEPT !.nonce_byte_count = IF part.label_byte_count = 0 THEN 0 ELSE @] = part
  BY DEF Package, ResultPackage
<1> HIDE DEF part
<1>6. Place(part) = t BY <1>1, <1>5 DEF Place
<1>7. Len(<<part>>) = 1 /\ (<<part>>)[1] = part OBVIOUS
<1>8. At(<<part>>) = t BY <1>6, <1>7 DEF At
<1>9. ~InvalidMessage(<<part>>, 1) BY <1>7 DEF InvalidMessage
<1>10. ReceiveResult(<<part>>, <<Context>>) = <<part>>
  <2>1. 0 <= max_label_byte_count /\ 0 <= max_nonce_byte_count BY LimitsAssumption
  <2>2. <<Context>> # nullptr /\ (<<Context>>)[1] = Context BY DEF nullptr
  <2> QED BY <1>5, <1>7, <2>1, <2>2 DEF ReceiveResult, LoadResultPackage
<1>11. Extract(part).psu_result = part.psu_result BY DEF Extract
<1> QED BY <1>2, <1>3, <1>4, <1>5, <1>6, <1>8, <1>9, <1>10, <1>11 DEF part
-----------------------------------------------------------------------------
(***************************************************************************)
(* The channels.                                                           *)
(***************************************************************************)
LEMMA Appended ==
  ASSUME NEW S, NEW q \in Seq(S), NEW msg \in S
  PROVE  /\ Append(q, msg) \in Seq(S) /\ Append(q, msg) # <<>>
         /\ DOMAIN Append(q, msg) = DOMAIN q \cup {Len(q) + 1}
         /\ Len(q) + 1 \notin DOMAIN q /\ (Len(q) + 1 = 1 <=> q = <<>>)
         /\ Append(q, msg)[Len(q) + 1] = msg
         /\ \A k \in DOMAIN q : Append(q, msg)[k] = q[k]
<1> DEFINE n == Len(q)
<1>1. n \in Nat /\ DOMAIN q = 1..n BY LenProperties
<1>2. /\ Append(q, msg) \in Seq(S) /\ Append(q, msg) # <<>> /\ Len(Append(q, msg)) = n + 1
      /\ \A k \in 1..n : Append(q, msg)[k] = q[k] /\ Append(q, msg)[n + 1] = msg
      /\ Append(q, msg)[n + 1] = msg
  OBVIOUS
<1>3. DOMAIN Append(q, msg) = 1..(n + 1) BY <1>2, LenProperties
<1>4. 1..(n + 1) = 1..n \cup {n + 1} /\ n + 1 \notin 1..n BY <1>1
<1>5. n = 0 <=> q = <<>> BY EmptySeq, <1>1
<1>6. n + 1 = 1 <=> n = 0 BY <1>1
<1> HIDE DEF n
<1>7. n + 1 = 1 <=> q = <<>> BY <1>5, <1>6
<1> QED BY <1>1, <1>2, <1>3, <1>4, <1>7 DEF n

LEMMA Taken ==
  ASSUME NEW S, NEW q \in Seq(S), q # <<>>
  PROVE  /\ Head(q) = q[1] /\ 1 \in DOMAIN q /\ Head(q) \in S /\ Tail(q) \in Seq(S)
         /\ \A k \in DOMAIN Tail(q) : /\ k \in Nat /\ k + 1 \in DOMAIN q /\ k + 1 # 1
                                      /\ Tail(q)[k] = q[k + 1]
<1> DEFINE n == Len(q)
<1>1. n \in Nat \ {0} /\ DOMAIN q = 1..n BY LenProperties, EmptySeq
<1>2. Head(q) = q[1] /\ Head(q) \in S /\ Tail(q) \in Seq(S) /\ Len(Tail(q)) = n - 1
  BY HeadTailProperties
<1>3. DOMAIN Tail(q) = 1..(n - 1) BY <1>2, LenProperties
<1>4. \A k \in 1..(n - 1) : Tail(q)[k] = q[k + 1] BY <1>1, TailIsSubSeq, SubSeqProperties
<1>5. 1 \in 1..n /\ \A k \in 1..(n - 1) : k \in Nat /\ k + 1 \in 1..n /\ k + 1 # 1 BY <1>1
<1> HIDE DEF n
<1> QED BY <1>1, <1>2, <1>3, <1>4, <1>5

\* A sequence of one kind of message.
LEMMA OneKind ==
  ASSUME NEW x, NEW q \in Seq({x})
  PROVE  /\ q # <<>> => Head(q) = x /\ Tail(q) \in Seq({x})
         /\ Append(q, x) \in Seq({x})
         /\ \A k \in DOMAIN q : q[k] = x
<1>1. q # <<>> => Head(q) \in {x} /\ Tail(q) \in Seq({x}) BY HeadTailProperties
<1>2. x \in {x} OBVIOUS
<1>3. Append(q, x) \in Seq({x}) BY <1>2, AppendProperties
<1>4. \A k \in DOMAIN q : q[k] \in {x} BY LenProperties
<1> QED BY <1>1, <1>3, <1>4

\* What Deliver does for a client.
LEMMA Delivered ==
  ASSUME ChannelTypes, NEW r \in Receivers, NEW c \in Clients, NEW msg, NEW letter \in Mail,
         msg[1] = c, AtDealer(msg) = letter, Deliver(r, msg)
  PROVE  /\ queue' \in [Receivers -> [Clients -> Seq(Mail)]]
         /\ queue'[r][c] = Append(queue[r][c], letter)
         /\ \A d \in Clients : d # c => queue'[r][d] = queue[r][d]
         /\ \A s \in Receivers : s # r => queue'[s] = queue[s]
<1>1. queue' = [queue EXCEPT ![r][c] = Append(@, letter)] BY DEF Deliver
<1>2. queue \in [Receivers -> [Clients -> Seq(Mail)]] BY DEF ChannelTypes
<1>3. Append(queue[r][c], letter) \in Seq(Mail) BY <1>2, AppendProperties
<1> QED BY <1>1, <1>2, <1>3

-----------------------------------------------------------------------------
(***************************************************************************)
(* What a step of a receiver leaves alone.                                 *)
(***************************************************************************)
Still == UNCHANGED <<parameters, sender, current, package_count, matrix, worker>>

Same(r) ==
  /\ receiver'[r] = receiver[r] /\ client'[r] = client[r] /\ tasks'[r] = tasks[r]
  /\ requests'[r]["sender"] = requests[r]["sender"] /\ queue'[r]["sender"] = queue[r]["sender"]

LEMMA SameKeeps ==
  ASSUME NEW r \in Receivers, Same(r), UNCHANGED <<parameters, sender>>
  PROVE  /\ Untouched(r)' <=> Untouched(r)
         /\ Unanswered(r)' <=> Unanswered(r)
         /\ Answering(r)' <=> Answering(r)
         /\ Finished(r)' <=> Finished(r)
         /\ Quiet(r)' <=> Quiet(r)
         /\ Queued(r)' = Queued(r)
<1>1. QueryMsg' = QueryMsg BY DEF QueryMsg
<1>2. Queued(r)' = Queued(r) BY DEF Queued, Same
<1>3. Quiet(r)' <=> Quiet(r) BY DEF Quiet, Same
<1>4. Untouched(r)' <=> Untouched(r) BY <1>3 DEF Untouched, Same
<1>5. Unanswered(r)' <=> Unanswered(r) BY <1>1 DEF Unanswered, Same
<1>6. Answering(r)' <=> Answering(r) BY <1>2 DEF Answering, Same
<1>7. Finished(r)' <=> Finished(r) BY <1>3 DEF Finished, Same
<1> QED BY <1>2, <1>3, <1>4, <1>5, <1>6, <1>7

LEMMA StillKeeps ==
  ASSUME Still
  PROVE  /\ SenderTypes <=> SenderTypes'
         /\ Cells <=> Cells'
         /\ Crew <=> Crew'
         /\ Held' = Held /\ Stored' = Stored /\ Holders' = Holders
         /\ Letters' = Letters /\ ParmsMsg' = ParmsMsg /\ QueryMsg' = QueryMsg
<1>1. SenderTypes <=> SenderTypes' BY DEF Still, SenderTypes
<1>2. Holders' = Holders /\ Waiting' = Waiting BY DEF Still, Holders, Waiting
<1>3. Held' = Held BY <1>2 DEF Still, Held
<1>4. Stored' = Stored BY DEF Still, Stored, Own
<1>5. Cells <=> Cells' BY DEF Still, Cells
<1>6. Crew <=> Crew' BY <1>2, <1>3, <1>4 DEF Still, Crew
<1>7. ParmsMsg' = ParmsMsg /\ QueryMsg' = QueryMsg BY DEF Still, ParmsMsg, QueryMsg
<1>8. Letters' = Letters BY <1>7 DEF Letters
<1> QED BY <1>1, <1>2, <1>3, <1>4, <1>5, <1>6, <1>7, <1>8

\* Nothing of the current receiver is stored before the packages are awaited.
LEMMA NothingStored ==
  ASSUME Types, Cells, Crew
  PROVE  /\ Stored \subseteq Real(current)
         /\ sender # "join" => Held = {}
         /\ sender \notin {"join", "returned"} => Stored = {}
<1>1. Stored \subseteq Real(current) BY DEF Stored
<1>2. sender # "join" => Held = {}
  <2>1. sender # "join" => Holders = {} BY DEF Crew, Holders
  <2> QED BY <2>1 DEF Held
<1>3. sender \notin {"join", "returned"} => Stored = {} BY DEF Stored, Own, Cells
<1> QED BY <1>1, <1>2, <1>3

\* A step of a receiver keeps the invariant if it keeps what the sender sees of it.
LEMMA ReceiverKeeps ==
  ASSUME IInv, NEW r \in Receivers, Still, ReceiverTypes', ChannelTypes', Asking',
         receiver[r] \in {"oprf", "failed"} => Same(r),
         \A s \in Receivers : s # r => Same(s),
         \A s \in Receivers : file'[<<"sender", s>>] = file[<<"sender", s>>],
         Finished(r) => Finished(r)',
         r = current /\ sender = "response" /\ Unanswered(r) => Unanswered(r)' \/ Answering(r)',
         r = current /\ sender \in {"response", "join"} /\ Answering(r) =>
           /\ Answering(r)'
           /\ (tasks'[r] \cup Queued(r)') \cap (Held \cup Stored) = {}
           /\ receiver'[r] = "masks" => Held = {} /\ Stored = {}
  PROVE  IInv'
<1>1. Types' BY StillKeeps DEF IInv, Types
<1>2. Cells' /\ Crew'
  <2>1. Cells /\ Crew BY DEF IInv
  <2> QED BY <2>1, StillKeeps
<1>3. sender' = sender /\ current' = current /\ parameters' = parameters BY DEF Still
<1>5. ASSUME NEW s \in Receivers, Same(s)
      PROVE  /\ Untouched(s)' <=> Untouched(s)
             /\ Unanswered(s)' <=> Unanswered(s)
             /\ Answering(s)' <=> Answering(s)
             /\ Finished(s)' <=> Finished(s)
             /\ Quiet(s)' <=> Quiet(s)
             /\ Queued(s)' = Queued(s)
  BY <1>3, <1>5, SameKeeps
<1>6. PICK c \in Receivers : c = current /\ c = current'
  BY <1>3 DEF IInv, Types, SenderTypes
<1>a. Phases /\ Ledger /\ Cells /\ Crew /\ Types /\ Written BY DEF IInv
<1>4. (Untouched(r) => Untouched(r)') /\ (sender = "threw" /\ r = c => Same(r))
  <2>1. Untouched(r) => Same(r) BY DEF Untouched
  <2>2. Untouched(r) => Untouched(r)' BY <2>1, <1>3, SameKeeps
  <2>3. sender = "threw" /\ r = c => Same(r) BY <1>6, <1>a DEF Phases
  <2> QED BY <2>2, <2>3
<1>7. Phases'
  <2>1. \A s \in Receivers : (s < c => Finished(s)') /\ (s > c => Untouched(s)')
    BY <1>4, <1>5, <1>a, <1>6 DEF Phases
  <2>2. sender = "oprf" => Untouched(c)' BY <1>4, <1>5, <1>6, <1>a DEF Phases
  <2>3. sender = "response" => Unanswered(c)' \/ Answering(c)' BY <1>5, <1>6, <1>a DEF Phases
  <2>4. sender = "join" => Answering(c)' BY <1>5, <1>6, <1>a DEF Phases
  <2>5. sender = "returned" => Finished(c)' BY <1>5, <1>6, <1>a DEF Phases
  <2>6. sender = "threw" => receiver'[c] = "failed" /\ Quiet(c)'
    <3>1. sender = "threw" => Same(c) BY <1>4, <1>6
    <3> QED BY <3>1, <1>5, <1>6, <1>a DEF Phases, Same
  <2> QED BY <2>1, <2>2, <2>3, <2>4, <2>5, <2>6, <1>3, <1>6 DEF Phases
<1>8. Ledger'
  <2>1. /\ \A v, w \in Holders : Place(worker[v].part) = Place(worker[w].part) => v = w
        /\ Held \cap Stored = {} BY <1>a DEF Ledger
  <2>2. /\ (tasks'[c] \cup Queued(c)') \cap (Held \cup Stored) = {}
        /\ receiver'[c] = "masks" => Held = {} /\ Stored = {}
    <3>1. CASE r # c
      <4>1. Same(c) /\ Queued(c)' = Queued(c) BY <3>1, <1>5
      <4>2. /\ (tasks[c] \cup Queued(c)) \cap (Held \cup Stored) = {}
            /\ receiver[c] = "masks" => Held = {} /\ Stored = {}
        BY <1>a, <1>6 DEF Ledger
      <4> QED BY <4>1, <4>2 DEF Same
    <3>2. CASE r = c
      <4>1. CASE Answering(r) /\ sender \in {"response", "join"} BY <3>2, <1>6, <4>1
      <4>2. CASE sender \notin {"join", "returned"}
        <5>1. Held = {} /\ Stored = {} BY <4>2, <1>a, NothingStored
        <5> QED BY <5>1
      <4>3. CASE sender = "returned"
        <5>1. Finished(r)' BY <4>3, <3>2, <1>6, <1>a DEF Phases
        <5>2. tasks'[r] = {} /\ Queued(r)' = {} BY <5>1 DEF Finished, Quiet, Queued
        <5>3. receiver'[r] = "masks" => Real(r) = {} BY <5>1 DEF Finished
        <5>4. Held = {} /\ Stored \subseteq Real(r) BY <3>2, <4>3, <1>6, <1>a, NothingStored
        <5> HIDE DEF Held, Stored
        <5> QED BY <3>2, <5>2, <5>3, <5>4
      <4>4. CASE sender = "join" /\ ~Answering(r) BY <3>2, <4>4, <1>6, <1>a DEF Phases
      <4> QED BY <4>1, <4>2, <4>3, <4>4
    <3> QED BY <3>1, <3>2
  <2>3. Held' = Held /\ Stored' = Stored /\ Holders' = Holders /\ worker' = worker
    BY StillKeeps DEF Still
  <2> QED BY <2>1, <2>2, <2>3, <1>6 DEF Ledger
<1>9. Written' BY <1>3, <1>a DEF Written
<1> QED BY <1>1, <1>2, <1>7, <1>8, <1>9 DEF IInv
-----------------------------------------------------------------------------
(***************************************************************************)
(* The initial state.                                                      *)
(***************************************************************************)
LEMMA Start == Init => IInv
<1> SUFFICES ASSUME Init PROVE IInv OBVIOUS
<1>1. SenderTypes
  <2>1. Idle \in [at : Stages, count : Nat, part : Parts] BY DEF Idle, Stages, Parts
  <2>2. worker \in [Workers -> [at : Stages, count : Nat, part : Parts]] BY <2>1 DEF Init
  <2> QED BY <2>2, Sizes DEF Init, SenderTypes
<1>2. ReceiverTypes BY DEF Init, ReceiverTypes, Where
<1>3. <<>> \in Seq(Letters) /\ <<>> \in Seq(Mail) /\ <<>> \in Seq({ParmsMsg}) /\ <<>> \in Seq({Answer})
  BY EmptySeq
<1>4. ChannelTypes BY <1>3 DEF Init, ChannelTypes
<1>5. "asker" \in Clients /\ "sender" \in Clients BY DEF Clients
<1>6. Asking BY <1>3, <1>5 DEF Init, Asking
<1>7. \A r \in Receivers : Untouched(r) BY <1>5 DEF Init, Untouched, Quiet
<1>8. Phases BY <1>7, Sizes DEF Init, Phases
<1>9. Cells BY DEF Init, Cells
<1>10. Crew BY DEF Init, Crew, Idle
<1>11. Ledger
  <2>1. Held = {} /\ Stored = {} BY <1>1, <1>2, <1>4, <1>9, <1>10, NothingStored DEF Types, Init
  <2>2. Holders = {} BY DEF Init, Idle, Holders
  <2> QED BY <2>1, <2>2 DEF Ledger
<1>12. Written
  <2>1. \A r \in Receivers : <<"sender", r>> \in Files BY DEF Files
  <2> QED BY <2>1 DEF Init, Written
<1> QED BY <1>1, <1>2, <1>4, <1>6, <1>8, <1>9, <1>10, <1>11, <1>12 DEF IInv, Types

-----------------------------------------------------------------------------
(***************************************************************************)
(* The dispatcher.                                                         *)
(***************************************************************************)
\* In which states of the sender a receiver is at work.
LEMMA AtWork ==
  ASSUME IInv, NEW r \in Receivers
  PROVE  /\ receiver[r] \in {"bind", "listen"} => r = current /\ sender = "response" /\ Unanswered(r)
         /\ receiver[r] \in {"query", "masks", "process", "unwound"} =>
              \/ Finished(r)
              \/ r = current /\ sender = "response" /\ Unanswered(r)
              \/ r = current /\ sender \in {"response", "join"} /\ Answering(r)
         /\ tasks[r] # {} => r = current /\ sender \in {"response", "join"} /\ Answering(r)
<1>1. Phases /\ SenderTypes BY DEF IInv, Types
<1>2. r \in Nat /\ current \in Nat BY <1>1, Sizes DEF SenderTypes
<1>3. \/ Finished(r)
      \/ Untouched(r)
      \/ receiver[r] = "failed" /\ Quiet(r)
      \/ r = current /\ sender = "response" /\ Unanswered(r)
      \/ r = current /\ sender \in {"response", "join"} /\ Answering(r)
  BY <1>1, <1>2 DEF Phases, SenderTypes
<1>4. Finished(r) => tasks[r] = {} /\ receiver[r] \notin {"bind", "listen"} BY DEF Finished, Quiet
<1>5. Untouched(r) => tasks[r] = {} /\ receiver[r] = "oprf" BY DEF Untouched, Quiet
<1>6. Unanswered(r) => tasks[r] = {} BY DEF Unanswered
<1>7. Answering(r) => receiver[r] \notin {"bind", "listen"} BY DEF Answering
<1>8. Quiet(r) => tasks[r] = {} BY DEF Quiet
<1> QED BY <1>3, <1>4, <1>5, <1>6, <1>7, <1>8

\* A step that changes where a receiver is, and nothing else of what it has.
LEMMA OnlyMoves ==
  ASSUME IInv, NEW r \in Receivers, NEW at \in Where, receiver' = [receiver EXCEPT ![r] = at],
         UNCHANGED <<parameters, client, masks, random_matrix, requests, queue, asker>>,
         tasks' \in [Receivers -> SUBSET (Nat \X Nat)],
         \A s \in Receivers : s # r => tasks'[s] = tasks[s]
  PROVE  /\ ReceiverTypes' /\ Asking' /\ (file' = [f \in Files |-> file'[f]] => ChannelTypes')
         /\ receiver'[r] = at /\ \A s \in Receivers : s # r => Same(s)
<1>1. ReceiverTypes /\ ChannelTypes /\ Asking BY DEF IInv, Types
<1>2. receiver' \in [Receivers -> Where] /\ receiver'[r] = at
      /\ \A s \in Receivers : s # r => receiver'[s] = receiver[s]
  BY <1>1 DEF ReceiverTypes
<1>3. ReceiverTypes' BY <1>1, <1>2 DEF ReceiverTypes
<1>4. ParmsMsg' = ParmsMsg /\ QueryMsg' = QueryMsg BY DEF ParmsMsg, QueryMsg
<1>5. Letters' = Letters BY <1>4 DEF Letters
<1>6. Asking' BY <1>1, <1>4 DEF Asking
<1>7. file' = [f \in Files |-> file'[f]] => ChannelTypes' BY <1>1, <1>5 DEF ChannelTypes
<1>8. \A s \in Receivers : s # r => Same(s) BY <1>2 DEF Same
<1> QED BY <1>2, <1>3, <1>6, <1>7, <1>8

LEMMA BindStep ==
  ASSUME IInv, NEW r \in Receivers, Bind(r)
  PROVE  IInv'
<1>1. Still /\ UNCHANGED <<client, masks, random_matrix, requests, queue, tasks, file, asker>>
      /\ receiver[r] = "bind" /\ receiver' = [receiver EXCEPT ![r] = "listen"]
  BY DEF Bind, Still, senderVars, chosen
<1>2. /\ ReceiverTypes /\ ChannelTypes /\ "listen" \in Where BY DEF IInv, Types, Where
<1>3. file' = [f \in Files |-> file'[f]] BY <1>1, <1>2 DEF ChannelTypes
<1>4. /\ ReceiverTypes' /\ Asking' /\ ChannelTypes'
      /\ receiver'[r] = "listen" /\ \A s \in Receivers : s # r => Same(s)
  BY <1>1, <1>2, <1>3, OnlyMoves DEF Still, ReceiverTypes
<1>5. ~Finished(r) /\ ~Answering(r) BY <1>1 DEF Finished, Answering
<1>6. Unanswered(r) => Unanswered(r)'
  <2>1. QueryMsg' = QueryMsg BY <1>1, StillKeeps
  <2> QED BY <1>1, <1>4, <2>1 DEF Unanswered
<1> QED BY <1>1, <1>4, <1>5, <1>6, ReceiverKeeps

\* What a receiver that polls takes from its socket.
LEMMA Polled ==
  ASSUME IInv, NEW r \in Receivers, NEW c \in Clients, Polls(r, c), UNCHANGED parameters
  PROVE  /\ r = current /\ sender = "response" /\ Unanswered(r) /\ ~Answering(r) /\ ~Finished(r)
         /\ requests' \in [Receivers -> [Clients -> Seq(Letters')]]
         /\ \A s \in Receivers : s # r => requests'[s] = requests[s]
         /\ c = "asker" => /\ Head(requests[r][c]) = ParmsMsg
                           /\ requests'[r]["sender"] = requests[r]["sender"]
         /\ c = "sender" => /\ Head(requests[r][c]) = QueryMsg
                            /\ requests'[r]["sender"] = <<>>
         /\ \A s \in Receivers : requests'[s]["asker"] \in Seq({ParmsMsg'})
<1>1. r = current /\ sender = "response" /\ Unanswered(r) BY AtWork DEF Polls
<1>2. ~Answering(r) /\ ~Finished(r) BY DEF Polls, Answering, Finished
<1>3. Letters' = Letters /\ ParmsMsg' = ParmsMsg BY DEF Letters, ParmsMsg, QueryMsg
<1>4. /\ requests \in [Receivers -> [Clients -> Seq(Letters)]]
      /\ \A s \in Receivers : requests[s]["asker"] \in Seq({ParmsMsg})
  BY DEF IInv, Types, ChannelTypes, Asking
<1>5. requests' = [requests EXCEPT ![r][c] = Tail(@)] /\ requests[r][c] # <<>> BY DEF Polls
<1>6. Tail(requests[r][c]) \in Seq(Letters)
  <2>1. requests[r][c] \in Seq(Letters) BY <1>4
  <2> QED BY <2>1, <1>5, Taken
<1>7. /\ requests' \in [Receivers -> [Clients -> Seq(Letters)]]
      /\ \A s \in Receivers : s # r => requests'[s] = requests[s]
      /\ requests'[r][c] = Tail(requests[r][c])
      /\ \A d \in Clients : d # c => requests'[r][d] = requests[r][d]
  BY <1>4, <1>5, <1>6
<1>8. "asker" \in Clients /\ "sender" \in Clients /\ "asker" # "sender" BY DEF Clients
<1>9. c = "asker" => /\ Head(requests[r][c]) = ParmsMsg
                     /\ requests'[r]["sender"] = requests[r]["sender"]
  BY <1>4, <1>5, <1>7, <1>8, OneKind
<1>10. c = "sender" => /\ Head(requests[r][c]) = QueryMsg
                       /\ requests'[r]["sender"] = <<>>
  <2>1. c = "sender" => requests[r][c] = <<QueryMsg>> BY <1>1, <1>5 DEF Unanswered
  <2>2. Head(<<QueryMsg>>) = QueryMsg /\ Tail(<<QueryMsg>>) = <<>> OBVIOUS
  <2> QED BY <2>1, <2>2, <1>7
<1>11. \A s \in Receivers : requests'[s]["asker"] \in Seq({ParmsMsg})
  <2>1. Tail(requests[r]["asker"]) \in Seq({ParmsMsg}) \/ requests[r]["asker"] = <<>>
    BY <1>4, OneKind
  <2>2. requests'[r]["asker"] \in Seq({ParmsMsg}) BY <2>1, <1>4, <1>5, <1>7, <1>8
  <2> QED BY <2>2, <1>4, <1>7
<1> QED BY <1>1, <1>2, <1>3, <1>7, <1>9, <1>10, <1>11

LEMMA DropStep ==
  ASSUME IInv, NEW r \in Receivers, NEW c \in Clients, Drop(r, c)
  PROVE  IInv'
<1>1. /\ Still /\ UNCHANGED <<client, masks, random_matrix, queue, tasks, file, receiver, asker>>
      /\ Polls(r, c)
  BY DEF Drop, Still, senderVars, receiverVars, chosen
<1>2. /\ ReceiverTypes /\ ChannelTypes /\ Asking BY DEF IInv, Types
<1>3. ReceiverTypes' BY <1>1, <1>2 DEF ReceiverTypes
<1>4. /\ ~Answering(r) /\ ~Finished(r) /\ Unanswered(r)
      /\ requests' \in [Receivers -> [Clients -> Seq(Letters')]]
      /\ \A s \in Receivers : s # r => requests'[s] = requests[s]
      /\ requests'[r]["sender"] \in {requests[r]["sender"], <<>>}
      /\ \A s \in Receivers : requests'[s]["asker"] \in Seq({ParmsMsg'})
  BY <1>1, Polled DEF Still, Clients
<1>5. ChannelTypes' BY <1>1, <1>2, <1>4 DEF ChannelTypes
<1>6. Asking' BY <1>1, <1>2, <1>4 DEF Asking
<1>7. \A s \in Receivers : s # r => Same(s) BY <1>1, <1>4 DEF Same
<1>8. Unanswered(r)'
  <2>1. QueryMsg' = QueryMsg BY <1>1, StillKeeps
  <2> QED BY <1>1, <1>4, <2>1 DEF Unanswered
<1>9. receiver[r] \notin {"oprf", "failed"} BY <1>1 DEF Polls
<1> QED BY <1>1, <1>3, <1>4, <1>5, <1>6, <1>7, <1>8, <1>9, ReceiverKeeps

\* The parameters go to the client that asks for them, which is not the sender.
LEMMA AnswersAsker ==
  ASSUME IInv, NEW r \in Receivers, NEW c \in Clients, DispatchParms(r, c)
  PROVE  /\ requests'[r]["sender"] = requests[r]["sender"]
         /\ queue' \in [Receivers -> [Clients -> Seq(Mail)]]
         /\ queue'[r]["asker"] = Append(queue[r]["asker"], Answer)
         /\ queue'[r]["sender"] = queue[r]["sender"]
         /\ \A s \in Receivers : s # r => queue'[s] = queue[s]
<1>1. /\ Polls(r, c) /\ Next_(r, c) # nullptr /\ Next_(r, c)[1].type = "rop_parms"
      /\ Deliver(r, RunParams(r, Next_(r, c)[1])) /\ UNCHANGED parameters
  BY DEF DispatchParms, chosen
<1>2. ChannelTypes BY DEF IInv, Types
<1>3. c = "asker"
  <2>1. c = "sender" => Head(requests[r][c]) = QueryMsg BY <1>1, Polled
  <2>2. c # "sender" BY <2>1, <1>1, QueryRead
  <2> QED BY <2>2 DEF Clients
<1>4. Head(requests[r][c]) = ParmsMsg /\ requests'[r]["sender"] = requests[r]["sender"]
  BY <1>1, <1>3, Polled
<1>5. RunParams(r, Next_(r, c)[1]) = SendResponse("asker", "rop_parms", ParmsResponse(Parameters))
  BY <1>1, <1>3, <1>4, ParmsRead DEF RunParams
<1> DEFINE msg == SendResponse("asker", "rop_parms", ParmsResponse(Parameters))
<1>6. msg[1] = "asker" BY DEF SendResponse
<1>7. AtDealer(msg) = Answer BY DEF Answer
<1>8. "asker" \in Clients /\ "sender" \in Clients BY DEF Clients
<1> HIDE DEF msg
<1>9. Deliver(r, msg) BY <1>1, <1>5 DEF msg
<1> QED BY <1>2, <1>4, <1>6, <1>7, <1>8, <1>9, AnswerRead, Delivered

LEMMA DispatchParmsStep ==
  ASSUME IInv, NEW r \in Receivers, NEW c \in Clients, DispatchParms(r, c)
  PROVE  IInv'
<1>1. /\ Still /\ UNCHANGED <<client, masks, random_matrix, tasks, file, receiver, asker>>
      /\ Polls(r, c)
  BY DEF DispatchParms, Still, senderVars, receiverVars, chosen
<1>2. /\ ReceiverTypes /\ ChannelTypes /\ Asking BY DEF IInv, Types
<1>3. ReceiverTypes' BY <1>1, <1>2 DEF ReceiverTypes
<1>4. /\ ~Answering(r) /\ ~Finished(r) /\ Unanswered(r)
      /\ requests' \in [Receivers -> [Clients -> Seq(Letters')]]
      /\ \A s \in Receivers : s # r => requests'[s] = requests[s]
      /\ \A s \in Receivers : requests'[s]["asker"] \in Seq({ParmsMsg'})
  BY <1>1, Polled DEF Still
<1>5. /\ requests'[r]["sender"] = requests[r]["sender"]
      /\ queue' \in [Receivers -> [Clients -> Seq(Mail)]]
      /\ queue'[r]["asker"] = Append(queue[r]["asker"], Answer)
      /\ queue'[r]["sender"] = queue[r]["sender"]
      /\ \A s \in Receivers : s # r => queue'[s] = queue[s]
  BY AnswersAsker
<1>6. ChannelTypes' BY <1>1, <1>2, <1>4, <1>5 DEF ChannelTypes
<1>7. Asking'
  <2>1. \A s \in Receivers : queue'[s]["asker"] \in Seq({Answer})
    <3>1. queue[r]["asker"] \in Seq({Answer}) BY <1>2 DEF Asking
    <3>2. queue'[r]["asker"] \in Seq({Answer}) BY <3>1, <1>5, OneKind
    <3> QED BY <1>2, <1>5, <3>2 DEF Asking
  <2> QED BY <1>4, <2>1 DEF Asking
<1>8. \A s \in Receivers : s # r => Same(s) BY <1>1, <1>4, <1>5 DEF Same
<1>9. Unanswered(r)'
  <2>1. QueryMsg' = QueryMsg BY <1>1, StillKeeps
  <2> QED BY <1>1, <1>4, <1>5, <2>1 DEF Unanswered
<1>10. receiver[r] \notin {"oprf", "failed"} BY <1>1 DEF Polls
<1> QED BY <1>1, <1>3, <1>4, <1>6, <1>7, <1>8, <1>9, <1>10, ReceiverKeeps

LEMMA DispatchQueryStep ==
  ASSUME IInv, NEW r \in Receivers, NEW c \in Clients, DispatchQuery(r, c)
  PROVE  IInv'
<1> DEFINE op == Next_(r, c)
           at == IF ValidQuery(op[1].rop) THEN "query" ELSE "unwound"
<1>1. /\ Still /\ UNCHANGED <<masks, random_matrix, queue, tasks, file, asker>>
      /\ Polls(r, c) /\ op # nullptr /\ op[1].type = "rop_query"
      /\ client' = [client EXCEPT ![r] = op[1].client_id]
      /\ receiver' = [receiver EXCEPT ![r] = at]
  BY DEF DispatchQuery, Still, senderVars, chosen
<1>2. /\ ReceiverTypes /\ ChannelTypes /\ Asking BY DEF IInv, Types
<1>3. /\ ~Answering(r) /\ ~Finished(r) /\ Unanswered(r) /\ sender = "response" /\ r = current
      /\ requests' \in [Receivers -> [Clients -> Seq(Letters')]]
      /\ \A s \in Receivers : s # r => requests'[s] = requests[s]
      /\ \A s \in Receivers : requests'[s]["asker"] \in Seq({ParmsMsg'})
  BY <1>1, Polled DEF Still
<1>4. c = "sender"
  <2>1. c = "asker" => Head(requests[r][c]) = ParmsMsg BY <1>1, Polled DEF Still
  <2>2. c # "asker" BY <2>1, <1>1, ParmsRead
  <2> QED BY <2>2 DEF Clients
<1>5. Head(requests[r][c]) = QueryMsg /\ requests'[r]["sender"] = <<>>
  BY <1>1, <1>4, Polled DEF Still
<1>6. /\ op[1].client_id = "sender" /\ op[1].rop = CreateQuery(parameters)
      /\ parameters.version = apsu_serialization_version /\ parameters.context = Context
  BY <1>1, <1>4, <1>5, QueryRead
<1>7. ValidQuery(op[1].rop) => parameters = Parameters
  <2>1. parameters \in SenderParameters BY DEF IInv, Types, SenderTypes
  <2> QED BY <1>6, <2>1, QueryValid
<1> HIDE DEF op
<1>8. at \in Where /\ (at = "query" => parameters = Parameters) /\ at \in {"query", "unwound"}
  BY <1>7 DEF Where
<1> HIDE DEF at
<1>9. /\ receiver' \in [Receivers -> Where] /\ receiver'[r] = at
      /\ client' \in [Receivers -> {None} \cup Clients] /\ client'[r] = "sender"
      /\ \A s \in Receivers : s # r => receiver'[s] = receiver[s] /\ client'[s] = client[s]
  BY <1>1, <1>2, <1>6, <1>8 DEF ReceiverTypes, Clients
<1>10. ReceiverTypes' BY <1>1, <1>2, <1>9 DEF ReceiverTypes
<1>11. ChannelTypes' BY <1>1, <1>2, <1>3 DEF ChannelTypes
<1>12. Asking' BY <1>1, <1>2, <1>3 DEF Asking
<1>13. \A s \in Receivers : s # r => Same(s) BY <1>1, <1>3, <1>9 DEF Same
<1>14. Unanswered(r)' \/ Answering(r)'
  <2>1. queue'[r]["sender"] = <<>> /\ tasks'[r] = {} BY <1>1, <1>3 DEF Unanswered
  <2>2. Queued(r)' = {} BY <2>1 DEF Queued
  <2>3. CASE at = "unwound" BY <2>1, <2>3, <1>5, <1>9 DEF Unanswered
  <2>4. CASE at = "query"
    <3>1. parameters' = Parameters /\ sender' = "response" BY <2>4, <1>1, <1>3, <1>8 DEF Still
    <3> QED BY <2>1, <2>2, <2>4, <3>1, <1>5, <1>9 DEF Answering
  <2> QED BY <2>3, <2>4, <1>8
<1>15. receiver[r] \notin {"oprf", "failed"} BY <1>1 DEF Polls
<1> QED BY <1>1, <1>3, <1>10, <1>11, <1>12, <1>13, <1>14, <1>15, ReceiverKeeps
-----------------------------------------------------------------------------
(***************************************************************************)
(* The query is run.                                                       *)
(***************************************************************************)
\* A message to the sender.
LEMMA Sent ==
  ASSUME ChannelTypes, Asking, NEW r \in Receivers, NEW msg, NEW letter \in Mail,
         msg[1] = "sender", AtDealer(msg) = letter, Deliver(r, msg), Still,
         UNCHANGED <<requests, file, asker>>
  PROVE  /\ ChannelTypes' /\ Asking'
         /\ queue[r]["sender"] \in Seq(Mail)
         /\ queue'[r]["sender"] = Append(queue[r]["sender"], letter)
         /\ \A s \in Receivers : s # r => queue'[s] = queue[s]
<1>1. "asker" \in Clients /\ "sender" \in Clients /\ "asker" # "sender" BY DEF Clients
<1>2. /\ queue' \in [Receivers -> [Clients -> Seq(Mail)]]
      /\ queue'[r]["sender"] = Append(queue[r]["sender"], letter)
      /\ queue'[r]["asker"] = queue[r]["asker"]
      /\ \A s \in Receivers : s # r => queue'[s] = queue[s]
  BY <1>1, Delivered
<1>3. queue[r]["sender"] \in Seq(Mail) BY <1>1 DEF ChannelTypes
<1>4. Letters' = Letters /\ ParmsMsg' = ParmsMsg BY StillKeeps
<1>5. ChannelTypes' BY <1>2, <1>4 DEF ChannelTypes
<1>6. Asking' BY <1>2, <1>4 DEF Asking
<1> QED BY <1>2, <1>3, <1>5, <1>6

LEMMA RespondStep ==
  ASSUME IInv, NEW r \in Receivers, Respond(r)
  PROVE  IInv'
<1> DEFINE msg == SendResponse("sender", "rop_query", QueryResponse(PackageCount(r), AlphaMax(r)))
<1>1. /\ Still /\ UNCHANGED <<client, masks, random_matrix, requests, tasks, file, asker>>
      /\ receiver[r] = "query" /\ receiver' = [receiver EXCEPT ![r] = "masks"]
      /\ Deliver(r, SendResponse(client[r], "rop_query",
                                 QueryResponse(PackageCount(r), AlphaMax(r))))
  BY DEF Respond, Still, senderVars, chosen
<1>2. ReceiverTypes /\ ChannelTypes /\ Asking /\ Cells /\ Crew /\ Types BY DEF IInv, Types
<1>3. r = current /\ Answering(r) /\ ~Unanswered(r) /\ ~Finished(r)
  <2>1. ~Unanswered(r) /\ ~Finished(r) BY <1>1 DEF Unanswered, Finished
  <2> QED BY <2>1, <1>1, AtWork
<1>4. /\ sender = "response" /\ queue[r]["sender"] = <<>> /\ client[r] = "sender"
      /\ tasks[r] = {} /\ parameters = Parameters /\ requests[r]["sender"] = <<>>
  BY <1>1, <1>3 DEF Answering
<1>5. msg[1] = "sender" /\ AtDealer(msg) = Response(r) /\ Deliver(r, msg)
  BY <1>1, <1>4 DEF SendResponse, Response
<1> HIDE DEF msg
<1>6. /\ ChannelTypes' /\ Asking'
      /\ queue'[r]["sender"] = Append(<<>>, Response(r))
      /\ \A s \in Receivers : s # r => queue'[s] = queue[s]
  BY <1>1, <1>2, <1>4, <1>5, ResponseRead, Sent
<1>7. queue'[r]["sender"] = <<Response(r)>> BY <1>6
<1>8. /\ receiver' \in [Receivers -> Where] /\ receiver'[r] = "masks"
      /\ \A s \in Receivers : s # r => receiver'[s] = receiver[s]
  BY <1>1, <1>2 DEF ReceiverTypes, Where
<1>9. ReceiverTypes' BY <1>1, <1>2, <1>8 DEF ReceiverTypes
<1>10. \A s \in Receivers : s # r => Same(s) BY <1>1, <1>6, <1>8 DEF Same
<1>11. /\ DOMAIN queue'[r]["sender"] = {1} /\ queue'[r]["sender"][1] = Response(r)
       /\ queue'[r]["sender"] # <<>>
  BY <1>7
<1>12. Queued(r)' = {None} BY <1>11, ResponseRead DEF Queued
<1>13. Answering(r)'
  <2>1. sender' = "response" /\ parameters' = Parameters BY <1>1, <1>4 DEF Still
  <2>2. tasks'[r] = {} /\ client'[r] = "sender" /\ requests'[r]["sender"] = <<>> BY <1>1, <1>4
  <2> QED BY <2>1, <2>2, <1>8, <1>11, <1>12 DEF Answering
<1>14. Held = {} /\ Stored = {} BY <1>2, <1>4, NothingStored
<1> QED BY <1>1, <1>3, <1>6, <1>9, <1>10, <1>13, <1>14, ReceiverKeeps

LEMMA DrawMasksStep ==
  ASSUME IInv, NEW r \in Receivers, DrawMasks(r)
  PROVE  IInv'
<1>1. /\ Still /\ UNCHANGED <<client, requests, queue, file, asker>>
      /\ receiver[r] = "masks" /\ receiver' = [receiver EXCEPT ![r] = "process"]
      /\ tasks' = [tasks EXCEPT ![r] = Real(r)]
      /\ masks' = [masks EXCEPT ![r] = masks'[r]]
      /\ random_matrix' = [random_matrix EXCEPT ![r] = random_matrix'[r]]
  BY DEF DrawMasks, Still, senderVars, chosen, IInv, Types, ReceiverTypes
<1>2. ReceiverTypes /\ ChannelTypes /\ Asking /\ Ledger BY DEF IInv, Types
<1>3. Real(r) \subseteq Nat \X Nat BY Places
<1>4. /\ receiver' \in [Receivers -> Where] /\ receiver'[r] = "process"
      /\ tasks' \in [Receivers -> SUBSET (Nat \X Nat)] /\ tasks'[r] = Real(r)
      /\ \A s \in Receivers : s # r => receiver'[s] = receiver[s] /\ tasks'[s] = tasks[s]
  BY <1>1, <1>2, <1>3 DEF ReceiverTypes, Where
<1>5. ReceiverTypes' BY <1>1, <1>2, <1>4 DEF ReceiverTypes
<1>6. /\ ChannelTypes' /\ Asking'
  <2>1. Letters' = Letters /\ ParmsMsg' = ParmsMsg BY <1>1, StillKeeps
  <2> QED BY <2>1, <1>1, <1>2 DEF ChannelTypes, Asking
<1>7. \A s \in Receivers : s # r => Same(s) BY <1>1, <1>4 DEF Same
<1>8. ~Unanswered(r) BY <1>1 DEF Unanswered
<1>9. Finished(r) => Finished(r)' BY <1>1, <1>4 DEF Finished, Quiet
<1>10. ASSUME r = current, Answering(r)
       PROVE  /\ Answering(r)' /\ (tasks'[r] \cup Queued(r)') \cap (Held \cup Stored) = {}
              /\ receiver'[r] # "masks"
  <2>1. Held = {} /\ Stored = {} BY <1>1, <1>2, <1>10 DEF Ledger
  <2>2. Queued(r)' = Queued(r) /\ Queued(r) \subseteq {None}
    BY <1>1, <1>10 DEF Answering, Queued
  <2>3. \A t \in Real(r) : t # None
    <3>1. \A t \in Real(r) : t = <<t[1], t[2]>> BY Places
    <3>2. \A x, y : <<x, y>> # <<>> OBVIOUS
    <3> QED BY <3>1, <3>2 DEF None
  <2>4. Real(r) \cap Queued(r) = {} BY <2>2, <2>3
  <2>5. sender' = sender /\ parameters' = parameters BY <1>1 DEF Still
  <2>6. Answering(r)' BY <2>2, <2>4, <2>5, <1>1, <1>4, <1>10 DEF Answering
  <2> QED BY <2>1, <2>6, <1>4
<1> QED BY <1>1, <1>5, <1>6, <1>7, <1>8, <1>9, <1>10, ReceiverKeeps

\* A package is sent, by a task of RunQuery or by one that outlives it.
LEMMA SendsPackage ==
  ASSUME IInv, NEW r \in Receivers, NEW t \in tasks[r], NEW m \in Masks, Still,
         UNCHANGED <<receiver, client, masks, random_matrix, requests, file, asker>>,
         tasks' = [tasks EXCEPT ![r] = @ \ {t}], Deliver(r, Part(r, t, m))
  PROVE  IInv'
<1> DEFINE q == queue[r]["sender"]
           part == Package(r, t, m)
           n == Len(q) + 1
<1>1. /\ Still /\ UNCHANGED <<receiver, client, masks, random_matrix, requests, file, asker>>
  OBVIOUS
<1>2. ReceiverTypes /\ ChannelTypes /\ Asking /\ Ledger BY DEF IInv, Types
<1>3. r = current /\ sender \in {"response", "join"} /\ Answering(r) BY AtWork
<1>4. t \in Real(r) /\ client[r] = "sender" /\ receiver[r] \notin {"query", "masks"}
      /\ t \notin Queued(r) /\ (sender = "response" => q # <<>>)
  BY <1>3 DEF Answering
<1>5. ~Unanswered(r) /\ ~Finished(r) BY DEF Unanswered, Finished, Quiet
<1>6. <<part>> \in Packages(r) /\ <<part>> \in Mail /\ At(<<part>>) = t BY <1>4, PackageRead
<1>7. Part(r, t, m)[1] = "sender" /\ AtDealer(Part(r, t, m)) = <<part>>
  BY <1>4 DEF Part, SendResult, AtDealer, Package
<1> HIDE DEF part
<1>8. /\ ChannelTypes' /\ Asking' /\ q \in Seq(Mail)
      /\ queue'[r]["sender"] = Append(q, <<part>>)
      /\ \A s \in Receivers : s # r => queue'[s] = queue[s]
  BY <1>1, <1>2, <1>6, <1>7, Sent
<1>9. /\ tasks' \in [Receivers -> SUBSET (Nat \X Nat)] /\ tasks'[r] = tasks[r] \ {t}
      /\ \A s \in Receivers : s # r => tasks'[s] = tasks[s]
  BY <1>2 DEF ReceiverTypes
<1>10. ReceiverTypes' BY <1>1, <1>2, <1>9 DEF ReceiverTypes
<1>11. \A s \in Receivers : s # r => Same(s) BY <1>1, <1>8, <1>9 DEF Same
<1> DEFINE p == queue'[r]["sender"]
<1>12. /\ p # <<>> /\ DOMAIN p = DOMAIN q \cup {n} /\ n \notin DOMAIN q /\ (n = 1 <=> q = <<>>)
       /\ p[n] = <<part>> /\ \A k \in DOMAIN q : p[k] = q[k]
  BY <1>6, <1>8, Appended
<1>13. Queued(r)' = Queued(r) \cup {t}
  <2>1. Queued(r) = {At(q[k]) : k \in DOMAIN q} BY DEF Queued
  <2>2. Queued(r)' = {At(p[k]) : k \in DOMAIN p} BY DEF Queued
  <2> HIDE DEF p, q, n
  <2> QED BY ONLY <2>1, <2>2, <1>6, <1>12
<1>14. Answering(r)'
  <2>1. sender' = sender /\ parameters' = parameters BY <1>1 DEF Still
  <2>2. \A k \in DOMAIN p : IF k = 1 /\ sender = "response" THEN p[k] = Response(r)
                                                           ELSE p[k] \in Packages(r)
    <3>1. \A k \in DOMAIN q : IF k = 1 /\ sender = "response" THEN q[k] = Response(r)
                                                              ELSE q[k] \in Packages(r)
      BY <1>3 DEF Answering
    <3> HIDE DEF p, q, n
    <3> QED BY <3>1, <1>4, <1>6, <1>12
  <2>3. \A j, k \in DOMAIN p : At(p[j]) = At(p[k]) => j = k
    <3>1. \A j, k \in DOMAIN q : At(q[j]) = At(q[k]) => j = k BY <1>3 DEF Answering
    <3>2. \A k \in DOMAIN q : At(q[k]) # t BY <1>4 DEF Queued
    <3> HIDE DEF p, q, n
    <3> QED BY <3>1, <3>2, <1>6, <1>12
  <2>4. tasks'[r] \subseteq Real(r) /\ tasks'[r] \cap Queued(r)' = {}
    BY <1>3, <1>9, <1>13 DEF Answering
  <2> HIDE DEF q
  <2>5. p = queue'[r]["sender"] OBVIOUS
  <2>6. /\ receiver[r] \in {"process", "unwound"} /\ parameters = Parameters
        /\ client[r] = "sender" /\ requests[r]["sender"] = <<>>
    BY <1>3, <1>4 DEF Answering
  <2> HIDE DEF p
  <2> QED BY <2>1, <2>2, <2>3, <2>4, <2>5, <2>6, <1>1, <1>12 DEF Answering
<1>15. (tasks'[r] \cup Queued(r)') \cap (Held \cup Stored) = {}
  <2>1. (tasks[r] \cup Queued(r)) \cap (Held \cup Stored) = {} BY <1>2, <1>3 DEF Ledger
  <2>2. tasks'[r] \cup Queued(r)' = tasks[r] \cup Queued(r) BY <1>9, <1>13
  <2> QED BY <2>1, <2>2
<1>16. receiver[r] \notin {"oprf", "failed"} BY <1>3 DEF Answering
<1> QED
  BY <1>1, <1>3, <1>4, <1>5, <1>8, <1>10, <1>11, <1>14, <1>15, <1>16, ReceiverKeeps

\* The tasks of the pool send what RunQuery stored; those that outlive it, anything.
LEMMA PackageSteps ==
  ASSUME IInv, NEW r \in Receivers, NEW t \in tasks[r], ProcessBinBundleCache(r, t) \/ StrayTask(r, t)
  PROVE  IInv'
<1>1. /\ Still /\ UNCHANGED <<receiver, client, masks, random_matrix, requests, file, asker>>
      /\ tasks' = [tasks EXCEPT ![r] = @ \ {t}]
  BY DEF ProcessBinBundleCache, StrayTask, Still, senderVars, chosen
<1>2. \E m \in Masks : Deliver(r, Part(r, t, m))
  <2> DEFINE idx == PackIdx(r, t[1], t[2])
  <2>1. t \in Real(r) BY AtWork DEF Answering
  <2>2. idx \in Masks
    <3>1. t[1] \in Nat /\ t[2] \in Nat /\ BundleCount \in Nat BY <2>1, Places, Sizes
    <3>2. t[1] * BundleCount \in Nat BY <3>1
    <3> QED BY <3>1, <3>2 DEF PackIdx, Masks
  <2>3. Anything \in Masks BY DEF Anything, Masks
  <2> HIDE DEF idx
  <2>4. (IF idx < masks[r] THEN idx ELSE Anything) \in Masks BY <2>2, <2>3
  <2>5. CASE StrayTask(r, t) BY <2>3, <2>5 DEF StrayTask
  <2>6. CASE ProcessBinBundleCache(r, t)
    <3>1. Deliver(r, Part(r, t, IF idx < masks[r] THEN idx ELSE Anything))
      BY <2>6 DEF ProcessBinBundleCache, idx
    <3> QED BY <2>4, <3>1
  <2> QED BY <2>5, <2>6
<1> QED BY <1>1, <1>2, SendsPackage

LEMMA WriteMasksStep ==
  ASSUME IInv, NEW r \in Receivers, WriteMasks(r)
  PROVE  IInv'
<1>1. /\ Still /\ UNCHANGED <<client, masks, random_matrix, requests, queue, tasks, asker>>
      /\ receiver[r] = "process" /\ tasks[r] = {}
      /\ receiver' = [receiver EXCEPT ![r] = "returned"]
      /\ \/ file' = file
         \/ file' = [file EXCEPT ![<<"receiver", r>>] =
                        [alpha |-> AlphaMax(r), cells |-> random_matrix[r]]]
  BY DEF WriteMasks, Still, senderVars, chosen
<1>2. ReceiverTypes /\ ChannelTypes /\ Ledger /\ "returned" \in Where BY DEF IInv, Types, Where
<1>3. /\ file' = [f \in Files |-> file'[f]]
      /\ \A s \in Receivers : file'[<<"sender", s>>] = file[<<"sender", s>>]
  BY <1>1, <1>2 DEF ChannelTypes, Files
<1>4. /\ ReceiverTypes' /\ Asking' /\ ChannelTypes'
      /\ receiver'[r] = "returned" /\ \A s \in Receivers : s # r => Same(s)
  BY <1>1, <1>2, <1>3, OnlyMoves DEF Still, ReceiverTypes
<1>5. ~Unanswered(r) BY <1>1 DEF Unanswered
<1>6. Finished(r) => Finished(r)' BY <1>1, <1>4 DEF Finished, Quiet
<1>7. Queued(r)' = Queued(r) BY <1>1 DEF Queued
<1>8. Answering(r) => Answering(r)' BY <1>1, <1>4, <1>7 DEF Answering, Still
<1>9. r = current => (tasks'[r] \cup Queued(r)') \cap (Held \cup Stored) = {}
  BY <1>1, <1>2, <1>7 DEF Ledger
<1> QED BY <1>1, <1>3, <1>4, <1>5, <1>6, <1>8, <1>9, ReceiverKeeps

LEMMA ThrowsStep ==
  ASSUME IInv, NEW r \in Receivers, Throws(r)
  PROVE  IInv'
<1>1. /\ Still /\ UNCHANGED <<client, masks, random_matrix, requests, queue, tasks, file, asker>>
      /\ receiver[r] \in {"bind", "query", "masks", "process"}
      /\ receiver' = [receiver EXCEPT ![r] = "unwound"]
  BY DEF Throws, Still, senderVars, chosen
<1>2. ReceiverTypes /\ ChannelTypes /\ Ledger /\ "unwound" \in Where BY DEF IInv, Types, Where
<1>3. /\ file' = [f \in Files |-> file'[f]] BY <1>1, <1>2 DEF ChannelTypes
<1>4. /\ ReceiverTypes' /\ Asking' /\ ChannelTypes'
      /\ receiver'[r] = "unwound" /\ \A s \in Receivers : s # r => Same(s)
  BY <1>1, <1>2, <1>3, OnlyMoves DEF Still, ReceiverTypes
<1>5. Finished(r) => Finished(r)' BY <1>1, <1>4 DEF Finished, Quiet
<1>6. Queued(r)' = Queued(r) BY <1>1 DEF Queued
<1>7. Unanswered(r) => Unanswered(r)'
  <2>1. QueryMsg' = QueryMsg BY <1>1, StillKeeps
  <2> QED BY <2>1, <1>1, <1>4 DEF Unanswered
<1>8. Answering(r) => Answering(r)' BY <1>1, <1>4, <1>6 DEF Answering, Still
<1>9. r = current => (tasks'[r] \cup Queued(r)') \cap (Held \cup Stored) = {}
  BY <1>1, <1>2, <1>6 DEF Ledger
<1> QED BY <1>1, <1>4, <1>5, <1>7, <1>8, <1>9, ReceiverKeeps

LEMMA ExitsStep ==
  ASSUME IInv, NEW r \in Receivers, Exits(r)
  PROVE  IInv'
<1>1. /\ Still /\ UNCHANGED <<client, masks, random_matrix, requests, queue, file, asker>>
      /\ receiver[r] \in {"unwound", "process"}
      /\ receiver' = [receiver EXCEPT ![r] = "failed"] /\ tasks' = [tasks EXCEPT ![r] = {}]
  BY DEF Exits, ReadsBeyond, Still, senderVars, chosen
<1>2. ReceiverTypes /\ ChannelTypes /\ Ledger /\ "failed" \in Where BY DEF IInv, Types, Where
<1>3. /\ file' = [f \in Files |-> file'[f]] BY <1>1, <1>2 DEF ChannelTypes
<1>4. /\ tasks' \in [Receivers -> SUBSET (Nat \X Nat)] /\ tasks'[r] = {}
      /\ \A s \in Receivers : s # r => tasks'[s] = tasks[s]
  BY <1>1, <1>2 DEF ReceiverTypes
<1>5. /\ ReceiverTypes' /\ Asking' /\ ChannelTypes'
      /\ receiver'[r] = "failed" /\ \A s \in Receivers : s # r => Same(s)
  BY <1>1, <1>2, <1>3, <1>4, OnlyMoves DEF Still
<1>6. Finished(r) => Finished(r)' BY <1>1, <1>4, <1>5 DEF Finished, Quiet
<1>7. Queued(r)' = Queued(r) BY <1>1 DEF Queued
<1>8. Unanswered(r) => Unanswered(r)'
  <2>1. QueryMsg' = QueryMsg BY <1>1, StillKeeps
  <2> QED BY <2>1, <1>1, <1>4, <1>5 DEF Unanswered
<1>9. Answering(r) => Answering(r)' BY <1>1, <1>4, <1>5, <1>7 DEF Answering, Still
<1>10. r = current => (tasks'[r] \cup Queued(r)') \cap (Held \cup Stored) = {}
  BY <1>1, <1>2, <1>4, <1>7 DEF Ledger
<1> QED BY <1>1, <1>5, <1>6, <1>8, <1>9, <1>10, ReceiverKeeps

-----------------------------------------------------------------------------
(***************************************************************************)
(* Another client asks for the parameters.                                 *)
(***************************************************************************)
LEMMA AskerSteps ==
  ASSUME IInv, NEW r \in Askers, RequestParams(r) \/ GetParams(r)
  PROVE  IInv'
<1>1. /\ Still /\ UNCHANGED <<receiver, client, masks, random_matrix, tasks, file>>
      /\ \/ RequestParams(r)
         \/ GetParams(r)
      /\ asker' = [asker EXCEPT ![r] = asker'[r]] \/ asker' = asker
  BY DEF RequestParams, GetParams, Still, senderVars, receiverVars, chosen, IInv, Types, ChannelTypes
<1>2. ReceiverTypes /\ ChannelTypes /\ Asking /\ r \in Receivers
  BY QueryAssumption DEF IInv, Types
<1>3. "asker" \in Clients /\ "sender" \in Clients /\ "asker" # "sender" BY DEF Clients
<1>4. /\ requests' \in [Receivers -> [Clients -> Seq(Letters)]]
      /\ queue' \in [Receivers -> [Clients -> Seq(Mail)]]
      /\ \A s \in Receivers : /\ requests'[s]["sender"] = requests[s]["sender"]
                              /\ queue'[s]["sender"] = queue[s]["sender"]
                              /\ requests'[s]["asker"] \in Seq({ParmsMsg})
                              /\ queue'[s]["asker"] \in Seq({Answer})
  <2>1. CASE RequestParams(r)
    <3>1. requests' = [requests EXCEPT ![r]["asker"] = Append(@, ParmsMsg)] /\ queue' = queue
      BY <2>1 DEF RequestParams, ParmsMsg
    <3>2. Append(requests[r]["asker"], ParmsMsg) \in Seq({ParmsMsg}) BY <1>2, OneKind DEF Asking
    <3>3. Append(requests[r]["asker"], ParmsMsg) \in Seq(Letters)
      <4>1. requests[r]["asker"] \in Seq(Letters) /\ ParmsMsg \in Letters
        BY <1>2, <1>3 DEF ChannelTypes, Letters
      <4> QED BY <4>1, AppendProperties
    <3> HIDE DEF ParmsMsg
    <3> QED BY <3>1, <3>2, <3>3, <1>2, <1>3 DEF ChannelTypes, Asking
  <2>2. CASE GetParams(r)
    <3>1. /\ queue' = [queue EXCEPT ![r]["asker"] = Tail(@)] /\ requests' = requests
          /\ queue[r]["asker"] # <<>>
      BY <2>2 DEF GetParams
    <3>2. Tail(queue[r]["asker"]) \in Seq({Answer}) BY <3>1, <1>2, OneKind DEF Asking
    <3>3. Tail(queue[r]["asker"]) \in Seq(Mail)
      <4>1. queue[r]["asker"] \in Seq(Mail) BY <1>2, <1>3 DEF ChannelTypes
      <4> QED BY <4>1, <3>1, HeadTailProperties
    <3> QED BY <3>1, <3>2, <3>3, <1>2, <1>3 DEF ChannelTypes, Asking
  <2> QED BY <1>1, <2>1, <2>2
<1>5. Letters' = Letters /\ ParmsMsg' = ParmsMsg BY <1>1, StillKeeps
<1>6. asker' = [s \in Askers |-> asker'[s]] /\ file' = [f \in Files |-> file'[f]]
  BY <1>1, <1>2 DEF ChannelTypes
<1>7. ReceiverTypes' BY <1>1, <1>2 DEF ReceiverTypes
<1>8. ChannelTypes' BY <1>4, <1>5, <1>6 DEF ChannelTypes
<1>9. Asking' BY <1>4, <1>5 DEF Asking
<1>10. \A s \in Receivers : Same(s) BY <1>1, <1>4 DEF Same
<1>11. /\ Finished(r) => Finished(r)'
       /\ Unanswered(r) => Unanswered(r)'
       /\ Answering(r) => Answering(r)'
       /\ Queued(r)' = Queued(r)
  BY <1>2, <1>10, <1>1, SameKeeps DEF Still
<1>12. r = current => /\ (tasks'[r] \cup Queued(r)') \cap (Held \cup Stored) = {}
                      /\ receiver'[r] = "masks" => Held = {} /\ Stored = {}
  BY <1>1, <1>11 DEF IInv, Ledger
<1> QED BY <1>1, <1>2, <1>7, <1>8, <1>9, <1>10, <1>11, <1>12, ReceiverKeeps
-----------------------------------------------------------------------------
(***************************************************************************)
(* The sender before it has its answer.                                    *)
(***************************************************************************)
\* What a step of the sender leaves alone.
LEMMA Unmoved ==
  ASSUME NEW r \in Receivers, Same(r), UNCHANGED parameters
  PROVE  /\ Untouched(r) => Untouched(r)'
         /\ Finished(r) => Finished(r)'
<1>1. Quiet(r)' <=> Quiet(r) BY DEF Quiet, Same
<1> QED BY <1>1 DEF Untouched, Finished, Same

LEMMA BeforeAnswer ==
  ASSUME IInv, UNCHANGED <<parameters, current, package_count, matrix, worker, file>>,
         sender = "oprf", sender' \in {"response", "threw"},
         ReceiverTypes', ChannelTypes', Asking', \A s \in Receivers : s # current => Same(s),
         NEW c \in Receivers, c = current, c = current',
         sender' = "response" => Unanswered(c)',
         sender' = "threw" => receiver'[c] = "failed" /\ Quiet(c)'
  PROVE  IInv'
<1>1. Types /\ Phases /\ Cells /\ Crew /\ Ledger /\ Written BY DEF IInv
<1>2. Types' BY <1>1 DEF Types, SenderTypes
<1>3. Phases'
  <2>1. \A s \in Receivers : (s < c => Finished(s)') /\ (s > c => Untouched(s)')
    <3>1. ASSUME NEW s \in Receivers PROVE (s < c => Finished(s)') /\ (s > c => Untouched(s)')
      <4>1. (s < c => Finished(s)) /\ (s > c => Untouched(s)) BY <1>1 DEF Phases
      <4>2. s < c \/ s > c => s # c BY Sizes
      <4> QED BY <4>1, <4>2, Unmoved
    <3> QED BY <3>1
  <2> QED BY <2>1 DEF Phases
<1>4. Cells' BY <1>1 DEF Cells
<1>5. Held' = {} /\ Stored' = {} /\ Holders' = {}
  <2>1. Held = {} /\ Stored = {} BY <1>1, NothingStored
  <2>2. Holders = {} BY <1>1 DEF Crew, Holders
  <2>3. Holders' = Holders BY DEF Holders
  <2>4. Held' = Held BY <2>3 DEF Held
  <2>5. Stored' = Stored BY DEF Stored, Own
  <2> QED BY <2>1, <2>2, <2>3, <2>4, <2>5
<1>6. Crew' BY <1>1 DEF Crew
<1>7. Ledger' BY <1>5 DEF Ledger
<1>8. Written' BY <1>1 DEF Written
<1> QED BY <1>2, <1>3, <1>4, <1>6, <1>7, <1>8 DEF IInv

LEMMA QueryStep ==
  ASSUME IInv, Query
  PROVE  IInv'
<1>1. PICK c \in Receivers : c = current BY DEF IInv, Types, SenderTypes
<1>2. /\ UNCHANGED <<parameters, current, package_count, matrix, worker, file>>
      /\ UNCHANGED <<client, random_matrix, masks, tasks, asker, queue>>
      /\ sender = "oprf" /\ sender' = "response" /\ c = current'
      /\ receiver' = [receiver EXCEPT ![c] = "bind"]
      /\ requests' = [requests EXCEPT ![c]["sender"] = Append(@, QueryMsg)]
  BY <1>1 DEF Query, chosen, QueryMsg
<1>3. ReceiverTypes /\ ChannelTypes /\ Asking /\ Phases BY DEF IInv, Types
<1>4. "asker" \in Clients /\ "sender" \in Clients /\ "asker" # "sender" BY DEF Clients
<1>5. Letters' = Letters /\ ParmsMsg' = ParmsMsg /\ QueryMsg' = QueryMsg
  BY <1>2 DEF Letters, ParmsMsg, QueryMsg
<1>6. Untouched(c) BY <1>1, <1>2, <1>3 DEF Phases
<1>7. requests[c]["sender"] = <<>> /\ queue[c]["sender"] = <<>> /\ tasks[c] = {}
  BY <1>6 DEF Untouched, Quiet
<1>8. Append(requests[c]["sender"], QueryMsg) = <<QueryMsg>> /\ <<QueryMsg>> \in Seq(Letters)
  <2>1. QueryMsg \in Letters BY DEF Letters
  <2> HIDE DEF QueryMsg, Letters
  <2> QED BY <1>7, <2>1
<1> HIDE DEF QueryMsg
<1>9. /\ requests' \in [Receivers -> [Clients -> Seq(Letters)]]
      /\ requests'[c]["sender"] = <<QueryMsg>>
      /\ requests'[c]["asker"] = requests[c]["asker"]
      /\ \A s \in Receivers : s # c => requests'[s] = requests[s]
  BY <1>2, <1>3, <1>4, <1>8 DEF ChannelTypes
<1>10. /\ receiver' \in [Receivers -> Where] /\ receiver'[c] = "bind"
       /\ \A s \in Receivers : s # c => receiver'[s] = receiver[s]
  BY <1>2, <1>3 DEF ReceiverTypes, Where
<1>11. ReceiverTypes' BY <1>2, <1>3, <1>10 DEF ReceiverTypes
<1>12. ChannelTypes' BY <1>2, <1>3, <1>5, <1>9 DEF ChannelTypes
<1>13. Asking' BY <1>2, <1>3, <1>5, <1>9 DEF Asking
<1>14. \A s \in Receivers : s # current => Same(s) BY <1>1, <1>2, <1>9, <1>10 DEF Same
<1>15. Unanswered(c)' BY <1>2, <1>5, <1>7, <1>9, <1>10 DEF Unanswered
<1> QED BY <1>1, <1>2, <1>11, <1>12, <1>13, <1>14, <1>15, BeforeAnswer

LEMMA OprfThrowsStep ==
  ASSUME IInv, OprfThrows
  PROVE  IInv'
<1>1. PICK c \in Receivers : c = current BY DEF IInv, Types, SenderTypes
<1>2. /\ UNCHANGED <<parameters, current, package_count, matrix, worker, file>>
      /\ UNCHANGED <<client, random_matrix, masks, tasks, asker, queue, requests>>
      /\ sender = "oprf" /\ sender' = "threw" /\ c = current'
      /\ receiver' = [receiver EXCEPT ![c] = "failed"]
  BY <1>1 DEF OprfThrows, chosen
<1>3. ReceiverTypes /\ ChannelTypes /\ Phases /\ "failed" \in Where BY DEF IInv, Types, Where
<1>4. file' = [f \in Files |-> file'[f]] BY <1>2, <1>3 DEF ChannelTypes
<1>5. /\ ReceiverTypes' /\ Asking' /\ ChannelTypes'
      /\ receiver'[c] = "failed" /\ \A s \in Receivers : s # c => Same(s)
  BY <1>2, <1>3, <1>4, OnlyMoves DEF ReceiverTypes
<1>6. Quiet(c)'
  <2>1. Quiet(c) BY <1>1, <1>2, <1>3 DEF Phases, Untouched
  <2> QED BY <2>1, <1>2 DEF Quiet
<1> QED BY <1>1, <1>2, <1>5, <1>6, BeforeAnswer

-----------------------------------------------------------------------------
(***************************************************************************)
(* The sender takes a message from its channel.                            *)
(***************************************************************************)
LEMMA TakesMessage ==
  ASSUME IInv, NEW c \in Receivers, Answering(c), queue[c]["sender"] # <<>>,
         sender' = "join", UNCHANGED <<parameters, receiver, client, tasks, requests, asker, file>>,
         queue' = [queue EXCEPT ![c]["sender"] = Tail(@)]
  PROVE  /\ Answering(c)' /\ ChannelTypes' /\ Asking'
         /\ Queued(c)' \subseteq Queued(c)
         /\ At(Head(queue[c]["sender"])) \in Queued(c)
         /\ At(Head(queue[c]["sender"])) \notin Queued(c)'
         /\ IF sender = "response" THEN Head(queue[c]["sender"]) = Response(c)
                                   ELSE Head(queue[c]["sender"]) \in Packages(c)
         /\ \A s \in Receivers : s # c => Same(s)
<1>1. ChannelTypes /\ Asking BY DEF IInv, Types
<1>2. "asker" \in Clients /\ "sender" \in Clients /\ "asker" # "sender" BY DEF Clients
<1> DEFINE q == queue[c]["sender"]
           p == queue'[c]["sender"]
<1>3. q \in Seq(Mail) /\ q # <<>> BY <1>1, <1>2 DEF ChannelTypes
<1>4. /\ Head(q) = q[1] /\ 1 \in DOMAIN q /\ Tail(q) \in Seq(Mail)
      /\ \A k \in DOMAIN Tail(q) : /\ k \in Nat /\ k + 1 \in DOMAIN q /\ k + 1 # 1
                                   /\ Tail(q)[k] = q[k + 1]
  <2> HIDE DEF q
  <2> QED BY <1>3, Taken
<1>5. /\ queue' \in [Receivers -> [Clients -> Seq(Mail)]] /\ p = Tail(q)
      /\ queue'[c]["asker"] = queue[c]["asker"]
      /\ \A s \in Receivers : s # c => queue'[s] = queue[s]
  BY <1>1, <1>2, <1>4 DEF ChannelTypes
<1>6. Letters' = Letters /\ ParmsMsg' = ParmsMsg BY DEF Letters, ParmsMsg, QueryMsg
<1>7. ChannelTypes' BY <1>1, <1>5, <1>6 DEF ChannelTypes
<1>8. Asking' BY <1>1, <1>5, <1>6 DEF Asking
<1>9. \A s \in Receivers : s # c => Same(s) BY <1>5 DEF Same
<1>10. /\ \A k \in DOMAIN q : IF k = 1 /\ sender = "response" THEN q[k] = Response(c)
                                                             ELSE q[k] \in Packages(c)
       /\ \A j, k \in DOMAIN q : At(q[j]) = At(q[k]) => j = k
       /\ Queued(c) = {At(q[k]) : k \in DOMAIN q}
       /\ tasks[c] \subseteq Real(c) /\ tasks[c] \cap Queued(c) = {}
  BY DEF Answering, Queued
<1>11. Queued(c)' = {At(p[k]) : k \in DOMAIN p} BY DEF Queued
<1>12. /\ receiver[c] \in {"masks", "process", "returned", "unwound", "failed"}
       /\ parameters = Parameters /\ client[c] = "sender" /\ requests[c]["sender"] = <<>>
       /\ tasks[c] # {} => receiver[c] \in {"process", "unwound"}
       /\ receiver[c] = "masks" => Queued(c) \subseteq {None}
  BY DEF Answering
<1>13. p = queue'[c]["sender"] /\ q = queue[c]["sender"] OBVIOUS
<1> HIDE DEF p, q
<1>14. Queued(c)' \subseteq Queued(c) BY ONLY <1>4, <1>5, <1>10, <1>11
<1>15. At(Head(q)) \in Queued(c) /\ At(Head(q)) \notin Queued(c)'
  BY ONLY <1>4, <1>5, <1>10, <1>11
<1>16. IF sender = "response" THEN Head(q) = Response(c) ELSE Head(q) \in Packages(c)
  BY <1>4, <1>10
<1>17. Answering(c)'
  <2>1. \A k \in DOMAIN p : p[k] \in Packages(c) BY <1>4, <1>5, <1>10
  <2>2. \A j, k \in DOMAIN p : At(p[j]) = At(p[k]) => j = k
    <3>1. ASSUME NEW j \in DOMAIN p, NEW k \in DOMAIN p, At(p[j]) = At(p[k]) PROVE j = k
      <4>1. j \in Nat /\ k \in Nat /\ j + 1 \in DOMAIN q /\ k + 1 \in DOMAIN q
            /\ p[j] = q[j + 1] /\ p[k] = q[k + 1] BY <1>4, <1>5
      <4>2. j + 1 = k + 1 BY <4>1, <3>1, <1>10
      <4> QED BY <4>1, <4>2
    <3> QED BY <3>1
  <2>3. tasks'[c] \subseteq Real(c) /\ tasks'[c] \cap Queued(c)' = {} BY <1>10, <1>14
  <2> QED BY <2>1, <2>2, <2>3, <1>12, <1>13, <1>14 DEF Answering
<1> QED BY <1>7, <1>8, <1>9, <1>13, <1>14, <1>15, <1>16, <1>17
-----------------------------------------------------------------------------
(***************************************************************************)
(* The sender and its workers on the answer.                               *)
(***************************************************************************)
LEMMA WhileJoining ==
  ASSUME IInv, sender \in {"response", "join"}, sender' = "join",
         UNCHANGED <<parameters, current, file, receiver, client, tasks, masks, random_matrix>>,
         NEW c \in Receivers, c = current, c = current',
         Answering(c)', \A s \in Receivers : s # c => Same(s),
         SenderTypes', ChannelTypes', Asking', Cells', Ledger', Crew'
  PROVE  IInv'
<1>1. Types /\ Phases /\ Written BY DEF IInv
<1>2. Types' BY <1>1 DEF Types, ReceiverTypes
<1>3. Phases'
  <2>1. \A s \in Receivers : (s < c => Finished(s)') /\ (s > c => Untouched(s)')
    <3>1. ASSUME NEW s \in Receivers PROVE (s < c => Finished(s)') /\ (s > c => Untouched(s)')
      <4>1. (s < c => Finished(s)) /\ (s > c => Untouched(s)) BY <1>1 DEF Phases
      <4>2. s < c \/ s > c => s # c BY Sizes
      <4> QED BY <4>1, <4>2, Unmoved
    <3> QED BY <3>1
  <2> QED BY <2>1 DEF Phases
<1>4. Written' BY <1>1 DEF Written
<1> QED BY <1>2, <1>3, <1>4 DEF IInv

LEMMA MinIs ==
  ASSUME NEW a \in Nat, NEW b \in Nat
  PROVE  Min({a, b}) \in {a, b} /\ Min({a, b}) <= a /\ Min({a, b}) <= b
<1> DEFINE S == {a, b}
<1>1. \E x \in S : \A y \in S : x <= y
  <2>1. CASE a <= b BY <2>1
  <2>2. CASE b <= a BY <2>2
  <2> QED BY <2>1, <2>2
<1>2. Min(S) \in S /\ \A y \in S : Min(S) <= y BY <1>1 DEF Min
<1> QED BY <1>2

LEMMA ReceiveQueryResponseStep ==
  ASSUME IInv, ReceiveQueryResponse
  PROVE  IInv'
<1>1. PICK c \in Receivers : c = current BY DEF IInv, Types, SenderTypes
<1>2. Types /\ Phases /\ Cells /\ Crew /\ Ledger BY DEF IInv
<1> DEFINE msg == Head(queue[c]["sender"])
           n == PackageCount(c)
           a == AlphaMax(c)
           size == a * parameters.bundles * ItemsPerBundle
<1>3. /\ sender = "response" /\ queue[c]["sender"] # <<>> /\ c = current'
      /\ queue' = [queue EXCEPT ![c]["sender"] = Tail(@)]
      /\ UNCHANGED <<parameters, current, receiver, client, tasks, masks, random_matrix>>
      /\ UNCHANGED <<requests, asker, file>>
  BY <1>1 DEF ReceiveQueryResponse, Arrived, receiverVars, chosen
<1>4. Answering(c) BY <1>1, <1>2, <1>3 DEF Phases, Unanswered
<1>5. msg = Response(c) /\ parameters = Parameters
  <2>1. 1 \in DOMAIN queue[c]["sender"] /\ msg = queue[c]["sender"][1]
    <3>1. queue[c]["sender"] \in Seq(Mail) BY <1>2 DEF Types, ChannelTypes, Clients
    <3> QED BY <3>1, <1>3, Taken
  <2> QED BY <2>1, <1>3, <1>4 DEF Answering
<1>6. parameters.version = apsu_serialization_version /\ parameters.bundles = BundleCount
  BY <1>5 DEF Parameters
<1>7. /\ ~InvalidMessage(msg, 2)
      /\ ToResponse(ReceiveResponse(msg, parameters.version), "rop_query") = <<QueryResponse(n, a)>>
  BY <1>5, <1>6, ResponseRead
<1>8. /\ QueryResponse(n, a).package_count = n /\ QueryResponse(n, a).alpha_max_cache_count = a
      /\ <<QueryResponse(n, a)>> # nullptr /\ (<<QueryResponse(n, a)>>)[1] = QueryResponse(n, a)
  BY DEF QueryResponse, nullptr
<1> HIDE DEF msg, n, a, size
<1>9. /\ sender' = "join" /\ package_count' = n /\ matrix' = Resize(matrix, size)
      /\ worker' = [w \in Workers |-> IF w <= Min({Threads, n})
                                      THEN [Idle EXCEPT !.at = "load"] ELSE Idle]
  BY <1>1, <1>7, <1>8 DEF ReceiveQueryResponse, Arrived, msg, size
<1>10. /\ Answering(c)' /\ ChannelTypes' /\ Asking' /\ \A s \in Receivers : s # c => Same(s)
       /\ Queued(c)' \subseteq Queued(c)
  BY <1>3, <1>4, <1>9, TakesMessage
<1>11. n \in Nat /\ a \in Nat BY Places DEF n, a
<1>12. \A w \in Workers : worker'[w] \in {[Idle EXCEPT !.at = "load"], Idle} BY <1>9
<1>13. SenderTypes'
  <2>1. {[Idle EXCEPT !.at = "load"], Idle} \subseteq [at : Stages, count : Nat, part : Parts]
    BY DEF Idle, Stages, Parts
  <2>2. worker' \in [Workers -> [at : Stages, count : Nat, part : Parts]]
    BY <2>1, <1>9, <1>12
  <2> QED BY <2>2, <1>2, <1>3, <1>9, <1>11 DEF Types, SenderTypes
<1>14. \A w \in Workers : worker'[w].at \in {"load", "off"} BY <1>12 DEF Idle
<1>15. Holders' = {} /\ Waiting' = {} BY <1>14 DEF Holders, Waiting
<1>16. Held' = {} BY <1>15 DEF Held
<1>17. DOMAIN matrix' = 0..(size - 1)
       /\ \A k \in DOMAIN matrix' : matrix'[k] # None =>
                                      k \in DOMAIN matrix /\ matrix'[k] = matrix[k]
  BY <1>9 DEF Resize
<1>18. \A k \in DOMAIN matrix : matrix[k] # None =>
         /\ matrix[k].receiver # c /\ matrix[k].receiver \in Receivers /\ matrix[k].receiver <= c
         /\ <<matrix[k].cache, matrix[k].bundle>> \in Real(matrix[k].receiver)
         /\ matrix[k].item \in 0..(ItemsPerBundle - 1)
         /\ k = Spot(matrix[k].cache, matrix[k].bundle, matrix[k].item)
  BY <1>1, <1>2, <1>3 DEF Cells
<1>19. Stored' = {}
  <2>1. \A t \in Real(c) : ~ /\ Spot(t[1], t[2], 0) \in DOMAIN matrix'
                             /\ matrix'[Spot(t[1], t[2], 0)] # None
                             /\ matrix'[Spot(t[1], t[2], 0)].receiver = c
    BY <1>17, <1>18
  <2> QED BY <2>1, <1>3 DEF Stored, Own
<1>20. Cells'
  <2>1. size = AlphaMax(current') * BundleCount * ItemsPerBundle BY <1>3, <1>6 DEF size, a
  <2> QED BY <2>1, <1>3, <1>9, <1>17, <1>18 DEF Cells
<1>21. Ledger' BY <1>15, <1>16, <1>19 DEF Ledger
<1>22. Crew'
  <2>1. n # 0 => worker'[1].at # "off"
    <3>1. Min({Threads, n}) \in {Threads, n} BY <1>11, MinIs, Sizes
    <3>2. n # 0 => 1 <= n BY <1>11
    <3>3. n # 0 => 1 <= Min({Threads, n})
      <4> HIDE DEF n
      <4>1. 1 <= Threads BY QueryAssumption
      <4> QED BY <3>1, <3>2, <4>1
    <3> QED BY <3>3, <1>9, Sizes DEF Idle
  <2>2. Cardinality(Held' \cup Stored') + Cardinality(Waiting') + n = n
    <3>1. Held' \cup Stored' = {} BY <1>16, <1>19
    <3>2. Cardinality(Held' \cup Stored') = 0 /\ Cardinality(Waiting') = 0
      BY <3>1, <1>15, FS_EmptySet
    <3> QED BY <3>2, <1>11
  <2>3. n = PackageCount(current') BY <1>3 DEF n
  <2> QED BY <2>1, <2>2, <2>3, <1>9, <1>14 DEF Crew
<1> QED BY <1>1, <1>3, <1>9, <1>10, <1>13, <1>20, <1>21, <1>22, WhileJoining

\* Who holds packages, and how many there are, when one worker moves on.
LEMMA Moves ==
  ASSUME IInv, NEW w \in Workers, NEW x, worker' = [worker EXCEPT ![w] = x]
  PROVE  /\ worker'[w] = x /\ \A v \in Workers : v # w => worker'[v] = worker[v]
         /\ Holders \ {w} = Holders' \ {w} /\ Waiting \ {w} = Waiting' \ {w}
         /\ x \in [at : Stages, count : Nat, part : Parts] =>
              worker' \in [Workers -> [at : Stages, count : Nat, part : Parts]]
         /\ w \in Holders' <=> x.at = "copy"
         /\ w \in Waiting' <=> x.at = "receive"
         /\ w \in Holders <=> worker[w].at = "copy"
         /\ w \in Waiting <=> worker[w].at = "receive"
<1>1. worker \in [Workers -> [at : Stages, count : Nat, part : Parts]]
  BY DEF IInv, Types, SenderTypes
<1>2. worker'[w] = x /\ \A v \in Workers : v # w => worker'[v] = worker[v] BY <1>1
<1>3. /\ w \in Holders' <=> x.at = "copy"
      /\ w \in Waiting' <=> x.at = "receive"
      /\ w \in Holders <=> worker[w].at = "copy"
      /\ w \in Waiting <=> worker[w].at = "receive"
  BY <1>2 DEF Holders, Waiting
<1>4. Holders \ {w} = Holders' \ {w} /\ Waiting \ {w} = Waiting' \ {w}
  BY <1>2 DEF Holders, Waiting
<1>5. x \in [at : Stages, count : Nat, part : Parts] =>
        worker' \in [Workers -> [at : Stages, count : Nat, part : Parts]]
  BY <1>1
<1> QED BY <1>2, <1>3, <1>4, <1>5

\* The sender is joining while a worker works, and the sets counted are finite.
LEMMA AtWorkers ==
  ASSUME IInv, NEW w \in Workers, worker[w].at # "off"
  PROVE  /\ sender = "join" /\ Answering(current) /\ parameters = Parameters
         /\ Held \subseteq Real(current) /\ Stored \subseteq Real(current)
         /\ IsFiniteSet(Held \cup Stored) /\ IsFiniteSet(Waiting)
         /\ Cardinality(Held \cup Stored) \in Nat /\ Cardinality(Waiting) \in Nat
<1>1. Crew /\ Phases /\ Types BY DEF IInv
<1>2. sender = "join" BY <1>1 DEF Crew
<1>3. Answering(current) BY <1>1, <1>2 DEF Phases
<1>4. parameters = Parameters BY <1>3 DEF Answering
<1>5. PICK c \in Receivers : c = current BY <1>1 DEF Types, SenderTypes
<1>6. Held \subseteq Real(c)
  <2>1. ASSUME NEW v \in Holders PROVE Place(worker[v].part) \in Real(c)
    <3>1. <<worker[v].part>> \in Packages(c) BY <1>1, <1>5 DEF Holders, Crew
    <3>2. PICK t \in Real(c), m \in Masks : <<worker[v].part>> = <<Package(c, t, m)>>
      BY <3>1 DEF Packages
    <3>3. worker[v].part = Package(c, t, m) BY <3>2
    <3>4. Place(Package(c, t, m)) = t BY PackageRead
    <3> QED BY <3>3, <3>4
  <2> QED BY <2>1 DEF Held
<1>7. Stored \subseteq Real(c) BY <1>5 DEF Stored
<1>8. IsFiniteSet(Held \cup Stored)
  <2>1. Held \cup Stored \subseteq Real(c) BY <1>6, <1>7
  <2> HIDE DEF Held, Stored
  <2> QED BY <2>1, Places, FS_Subset
<1>9. IsFiniteSet(Waiting)
  <2>1. Waiting \subseteq Workers BY DEF Waiting
  <2> QED BY <2>1, Sizes, FS_Subset
<1> QED BY <1>2, <1>3, <1>4, <1>5, <1>6, <1>7, <1>8, <1>9, FS_CardinalityType

\* Looking at the counter and claiming leave the packages where they are.
LEMMA CountingKeeps ==
  ASSUME IInv, NEW w \in Workers, NEW x \in [at : Stages, count : Nat, part : Parts],
         worker[w].at \in {"load", "claim"}, x.at \in {"off", "load", "claim", "receive"},
         worker' = [worker EXCEPT ![w] = x], package_count' \in Nat,
         UNCHANGED <<sender, current, matrix, receiverVars, asker, requests, queue, file, chosen>>,
         package_count' # 0 => x.at # "off" /\ package_count # 0,
         x.at = "claim" => x.count # 0,
         IF x.at = "receive" THEN package_count = package_count' + 1
                             ELSE package_count' = package_count
  PROVE  IInv'
<1>1. /\ UNCHANGED <<parameters, current, file, receiver, client, tasks, masks, random_matrix>>
      /\ UNCHANGED <<matrix, asker, requests, queue, sender>>
  BY DEF receiverVars, chosen
<1>2. PICK c \in Receivers : c = current /\ c = current' BY <1>1 DEF IInv, Types, SenderTypes
<1>3. /\ sender = "join" /\ Answering(c)
      /\ IsFiniteSet(Waiting) /\ Cardinality(Waiting) \in Nat
      /\ Cardinality(Held \cup Stored) \in Nat
  BY <1>2, AtWorkers
<1>4. Types /\ Cells /\ Crew /\ Ledger /\ Asking BY DEF IInv
<1>5. /\ worker'[w] = x /\ \A v \in Workers : v # w => worker'[v] = worker[v]
      /\ Holders \ {w} = Holders' \ {w} /\ Waiting \ {w} = Waiting' \ {w}
      /\ worker' \in [Workers -> [at : Stages, count : Nat, part : Parts]]
      /\ w \notin Holders' /\ w \notin Holders /\ w \notin Waiting
      /\ w \in Waiting' <=> x.at = "receive"
  BY Moves
<1>6. Holders' = Holders /\ \A v \in Holders : worker'[v] = worker[v]
  BY <1>5 DEF Holders
<1>7. Held' = Held BY <1>6 DEF Held
<1>8. Stored' = Stored BY <1>1 DEF Stored, Own
<1>9. \A s \in Receivers : Same(s) BY <1>1 DEF Same
<1>10. Answering(c)' /\ Queued(c)' = Queued(c)
  <2>1. Answering(c)' <=> Answering(c) BY <1>1, <1>9, SameKeeps
  <2> QED BY <2>1, <1>3, <1>1, <1>9, SameKeeps
<1>11. SenderTypes' BY <1>1, <1>4, <1>5 DEF Types, SenderTypes
<1>12. ParmsMsg' = ParmsMsg /\ Letters' = Letters BY <1>1 DEF ParmsMsg, QueryMsg, Letters
<1>13. ChannelTypes' /\ Asking' BY <1>1, <1>4, <1>12 DEF Types, ChannelTypes, Asking
<1>14. Cells' BY <1>1, <1>4 DEF Cells
<1>15. Ledger'
  <2>1. /\ \A v, u \in Holders : Place(worker[v].part) = Place(worker[u].part) => v = u
        /\ Held \cap Stored = {}
        /\ (tasks[c] \cup Queued(c)) \cap (Held \cup Stored) = {}
        /\ receiver[c] = "masks" => Held = {} /\ Stored = {}
    BY <1>2, <1>4 DEF Ledger
  <2>2. \A v, u \in Holders : Place(worker'[v].part) = Place(worker'[u].part) => v = u
    BY <2>1, <1>6
  <2>3. Queued(current)' = Queued(c) /\ tasks'[current'] = tasks[c] BY <1>2, <1>1 DEF Queued
  <2> HIDE DEF Held, Stored, Holders, Queued
  <2> QED BY <2>1, <2>2, <2>3, <1>1, <1>2, <1>6, <1>7, <1>8 DEF Ledger
<1>16. Crew'
  <2>1. package_count' # 0 => worker'[1].at # "off"
    <3>1. package_count # 0 => worker[1].at # "off" BY <1>3, <1>4 DEF Crew
    <3> QED BY <3>1, <1>5, Sizes
  <2>2. \A v \in Workers : worker'[v].at = "claim" => worker'[v].count # 0
    BY <1>4, <1>5 DEF Crew
  <2>3. \A v \in Workers : worker'[v].at = "copy" => <<worker'[v].part>> \in Packages(c)
    BY <1>2, <1>4, <1>5 DEF Crew
  <2>4. Cardinality(Held' \cup Stored') + Cardinality(Waiting') + package_count'
          = PackageCount(c)
    <3> DEFINE h == Cardinality(Held \cup Stored)
               n == Cardinality(Waiting)
               k == Cardinality(Waiting')
    <3>1. Held' \cup Stored' = Held \cup Stored BY <1>7, <1>8
    <3>2. h + n + package_count = PackageCount(c) BY <1>2, <1>3, <1>4 DEF Crew
    <3>3. IF x.at = "receive" THEN Cardinality(Waiting') = n + 1 ELSE Cardinality(Waiting') = n
      <4>1. CASE x.at = "receive"
        <5>1. Waiting' = Waiting \cup {w} /\ w \notin Waiting BY <4>1, <1>5
        <5> HIDE DEF Waiting
        <5> QED BY <5>1, <1>3, <4>1, FS_AddElement
      <4>2. CASE x.at # "receive"
        <5>0. w \notin Waiting /\ w \notin Waiting' /\ Waiting \ {w} = Waiting' \ {w} BY <4>2, <1>5
        <5>1. Waiting' = Waiting
          <6> HIDE DEF Waiting
          <6> QED BY ONLY <5>0
        <5> QED BY <5>1, <4>2
      <4> QED BY <4>1, <4>2
    <3>4. Cardinality(Held' \cup Stored') = h BY <3>1
    <3>5. package_count \in Nat BY <1>4 DEF Types, SenderTypes
    <3>6. h \in Nat /\ n \in Nat BY <1>3
    <3>8. IF x.at = "receive" THEN k = n + 1 ELSE k = n BY <3>3
    <3> HIDE DEF h, n, k
    <3>7. h + k + package_count' = h + n + package_count
      <4>1. CASE x.at = "receive"
        <5>1. k = n + 1 /\ package_count = package_count' + 1 BY <4>1, <3>8
        <5> QED BY ONLY <5>1, <3>5, <3>6, package_count' \in Nat
      <4>2. CASE x.at # "receive"
        <5>1. k = n /\ package_count = package_count' BY <4>2, <3>8
        <5> QED BY ONLY <5>1
      <4> QED BY <4>1, <4>2
    <3> QED BY <3>2, <3>4, <3>7 DEF k
  <2> QED BY <2>1, <2>2, <2>3, <2>4, <1>1, <1>2, <1>3 DEF Crew
<1> QED BY <1>1, <1>2, <1>3, <1>9, <1>10, <1>11, <1>13, <1>14, <1>15, <1>16, WhileJoining

LEMMA LoadStep ==
  ASSUME IInv, NEW w \in Workers, Load(w)
  PROVE  IInv'
<1> DEFINE x == [worker[w] EXCEPT !.at = IF package_count = 0 THEN "off" ELSE "claim",
                                  !.count = package_count]
<1>1. /\ worker[w].at = "load" /\ worker' = [worker EXCEPT ![w] = x]
      /\ UNCHANGED <<sender, current, matrix, receiverVars, asker, requests, queue, file, chosen>>
      /\ package_count' = package_count
  BY DEF Load, IInv, Types, SenderTypes
<1>2. worker[w] \in [at : Stages, count : Nat, part : Parts] /\ package_count \in Nat
  BY DEF IInv, Types, SenderTypes
<1>3. /\ x \in [at : Stages, count : Nat, part : Parts]
      /\ x.at = (IF package_count = 0 THEN "off" ELSE "claim") /\ x.count = package_count
  BY <1>2 DEF Stages
<1> HIDE DEF x
<1> QED BY <1>1, <1>2, <1>3, CountingKeeps

LEMMA ClaimStep ==
  ASSUME IInv, NEW w \in Workers, Claim(w)
  PROVE  IInv'
<1> DEFINE x == [worker[w] EXCEPT !.at = IF package_count = worker[w].count
                                         THEN "receive" ELSE "load"]
<1>1. /\ worker[w].at = "claim" /\ worker' = [worker EXCEPT ![w] = x]
      /\ UNCHANGED <<sender, current, matrix, receiverVars, asker, requests, queue, file, chosen>>
      /\ IF package_count = worker[w].count THEN package_count' = package_count - 1
                                            ELSE package_count' = package_count
  BY DEF Claim, IInv, Types, SenderTypes
<1>2. worker[w] \in [at : Stages, count : Nat, part : Parts] /\ package_count \in Nat
  BY DEF IInv, Types, SenderTypes
<1>3. worker[w].count # 0 /\ worker[w].count \in Nat BY <1>1, <1>2 DEF IInv, Crew
<1>4. /\ x \in [at : Stages, count : Nat, part : Parts]
      /\ x.at = (IF package_count = worker[w].count THEN "receive" ELSE "load")
  BY <1>2 DEF Stages
<1> HIDE DEF x
<1>5. /\ package_count' \in Nat /\ (package_count' # 0 => package_count # 0)
      /\ x.at \in {"load", "receive"}
      /\ IF x.at = "receive" THEN package_count = package_count' + 1
                             ELSE package_count' = package_count
  BY <1>1, <1>2, <1>3, <1>4
<1> QED BY <1>1, <1>4, <1>5, CountingKeeps

\* A package leaves the channel for a worker.
LEMMA ReceivePackageStep ==
  ASSUME IInv, NEW w \in Workers, ReceivePackage(w)
  PROVE  IInv'
<1>1. PICK c \in Receivers : c = current BY DEF IInv, Types, SenderTypes
<1> DEFINE q == queue[c]["sender"]
           rp == ReceiveResult(Head(q), <<parameters.context>>)
<1>2. /\ worker[w].at = "receive" /\ q # <<>> /\ c = current'
      /\ queue' = [queue EXCEPT ![c]["sender"] = Tail(@)]
      /\ worker' = IF rp = nullptr THEN worker
                   ELSE [worker EXCEPT ![w].at = "copy", ![w].part = rp[1]]
      /\ UNCHANGED <<parameters, current, receiver, client, tasks, masks, random_matrix>>
      /\ UNCHANGED <<requests, asker, file, sender, package_count, matrix>>
  BY <1>1 DEF ReceivePackage, Arrived, receiverVars, chosen
<1>3. /\ sender = "join" /\ Answering(c) /\ parameters = Parameters
      /\ Held \subseteq Real(c) /\ Stored \subseteq Real(c)
      /\ IsFiniteSet(Held \cup Stored) /\ IsFiniteSet(Waiting)
      /\ Cardinality(Held \cup Stored) \in Nat /\ Cardinality(Waiting) \in Nat
  BY <1>1, <1>2, AtWorkers
<1>4. Types /\ Cells /\ Crew /\ Ledger BY DEF IInv
<1>5. /\ Answering(c)' /\ ChannelTypes' /\ Asking' /\ \A s \in Receivers : s # c => Same(s)
      /\ Queued(c)' \subseteq Queued(c)
      /\ At(Head(q)) \in Queued(c) /\ At(Head(q)) \notin Queued(c)'
      /\ Head(q) \in Packages(c)
  BY <1>2, <1>3, TakesMessage
<1>6. PICK t \in Real(c), m \in Masks : Head(q) = <<Package(c, t, m)>>
  BY <1>5 DEF Packages
<1> DEFINE part == Package(c, t, m)
<1>7. /\ <<part>> \in Packages(c) /\ part \in Parts /\ Place(part) = t /\ At(<<part>>) = t
      /\ ReceiveResult(<<part>>, <<Context>>) = <<part>>
  BY PackageRead
<1>8. parameters.context = Context BY <1>3 DEF Parameters
<1> HIDE DEF part
<1>9. rp = <<part>> /\ rp # nullptr /\ rp[1] = part
  <2>1. rp = <<part>> BY <1>6, <1>7, <1>8 DEF part
  <2> HIDE DEF rp
  <2> QED BY <2>1 DEF nullptr
<1>10. At(Head(q)) = t BY <1>6, <1>7 DEF part
<1> HIDE DEF q, rp
<1> DEFINE x == [worker[w] EXCEPT !.at = "copy", !.part = part]
<1>11. worker' = [worker EXCEPT ![w] = x] BY <1>2, <1>9, <1>4 DEF Types, SenderTypes
<1>12. /\ x \in [at : Stages, count : Nat, part : Parts] /\ x.at = "copy" /\ x.part = part
  <2>1. worker[w] \in [at : Stages, count : Nat, part : Parts] BY <1>4 DEF Types, SenderTypes
  <2> QED BY <2>1, <1>7 DEF Stages
<1> HIDE DEF x
<1>13. /\ worker'[w] = x /\ \A v \in Workers : v # w => worker'[v] = worker[v]
       /\ Holders \ {w} = Holders' \ {w} /\ Waiting \ {w} = Waiting' \ {w}
       /\ worker' \in [Workers -> [at : Stages, count : Nat, part : Parts]]
       /\ w \in Holders' /\ w \notin Holders /\ w \in Waiting /\ w \notin Waiting'
  BY <1>2, <1>11, <1>12, Moves
<1>14. Holders' = Holders \cup {w} /\ Waiting' = Waiting \ {w}
  <2> HIDE DEF Holders, Waiting
  <2> QED BY <1>13
<1>15. \A v \in Holders : v # w /\ worker'[v] = worker[v] BY <1>13 DEF Holders
<1>16. Held' = Held \cup {t}
  <2>1. Held' = {Place(worker'[v].part) : v \in Holders'} BY DEF Held
  <2>2. Held = {Place(worker[v].part) : v \in Holders} BY DEF Held
  <2>3. Place(worker'[w].part) = t BY <1>7, <1>12, <1>13
  <2> HIDE DEF Held, Holders
  <2> QED BY <2>1, <2>2, <2>3, <1>14, <1>15
<1>17. Stored' = Stored BY <1>1, <1>2 DEF Stored, Own
<1>18. /\ \A v, u \in Holders : Place(worker[v].part) = Place(worker[u].part) => v = u
       /\ Held \cap Stored = {}
       /\ (tasks[c] \cup Queued(c)) \cap (Held \cup Stored) = {}
       /\ receiver[c] = "masks" => Held = {} /\ Stored = {}
  BY <1>1, <1>4 DEF Ledger
<1>19. t \in Queued(c) /\ t \notin Queued(c)' /\ t \notin Held \cup Stored /\ t \notin tasks[c]
       /\ receiver[c] # "masks"
  <2>1. t \in Queued(c) /\ t \notin Queued(c)' BY <1>5, <1>10
  <2>2. tasks[c] \cap Queued(c) = {} BY <1>3 DEF Answering
  <2>3. t # None
    <3>1. t = <<t[1], t[2]>> BY Places
    <3>2. \A a, b : <<a, b>> # <<>> OBVIOUS
    <3> QED BY <3>1, <3>2 DEF None
  <2>4. receiver[c] = "masks" => Queued(c) \subseteq {None} BY <1>3 DEF Answering
  <2> HIDE DEF Queued, Held, Stored
  <2> QED BY <2>1, <2>2, <2>3, <2>4, <1>18
<1>20. SenderTypes' BY <1>2, <1>4, <1>13 DEF Types, SenderTypes
<1>21. Cells' BY <1>2, <1>4 DEF Cells
<1>22. Ledger'
  <2>1. \A v, u \in Holders' : Place(worker'[v].part) = Place(worker'[u].part) => v = u
    <3>1. \A v \in Holders : Place(worker'[v].part) \in Held BY <1>15 DEF Held
    <3>2. Place(worker'[w].part) = t BY <1>7, <1>12, <1>13
    <3> HIDE DEF Holders, Held
    <3> QED BY <3>1, <3>2, <1>14, <1>15, <1>18, <1>19
  <2>2. tasks'[current'] = tasks[c] /\ Queued(current)' = Queued(c)' /\ receiver'[current'] = receiver[c]
    BY <1>1, <1>2 DEF Queued
  <2>3. (tasks[c] \cup Queued(c)') \cap (Held' \cup Stored') = {} /\ Held' \cap Stored' = {}
    <3> HIDE DEF Queued, Held, Stored
    <3> QED BY <1>5, <1>16, <1>17, <1>18, <1>19
  <2> HIDE DEF Holders, Held, Stored, Queued
  <2> QED BY <2>1, <2>2, <2>3, <1>19 DEF Ledger
<1>23. Crew'
  <2>1. package_count' # 0 => worker'[1].at # "off"
    <3>1. package_count # 0 => worker[1].at # "off" BY <1>3, <1>4 DEF Crew
    <3> QED BY <3>1, <1>2, <1>12, <1>13, Sizes
  <2>2. \A v \in Workers : worker'[v].at = "claim" => worker'[v].count # 0
    BY <1>4, <1>12, <1>13 DEF Crew
  <2>3. \A v \in Workers : worker'[v].at = "copy" => <<worker'[v].part>> \in Packages(c)
    <3>1. \A v \in Workers : worker[v].at = "copy" => <<worker[v].part>> \in Packages(c)
      BY <1>1, <1>4 DEF Crew
    <3> QED BY <3>1, <1>7, <1>12, <1>13
  <2>4. Cardinality(Held' \cup Stored') + Cardinality(Waiting') + package_count'
          = PackageCount(c)
    <3> DEFINE h == Cardinality(Held \cup Stored)
               n == Cardinality(Waiting)
               h1 == Cardinality(Held' \cup Stored')
               n1 == Cardinality(Waiting')
    <3>1. Held' \cup Stored' = (Held \cup Stored) \cup {t} BY <1>16, <1>17
    <3>2. h + n + package_count = PackageCount(c) BY <1>1, <1>3, <1>4 DEF Crew
    <3>3. h1 = h + 1
      <4> HIDE DEF Held, Stored
      <4> QED BY <3>1, <1>3, <1>19, FS_AddElement
    <3>4. n1 = n - 1
      <4> HIDE DEF Waiting
      <4> QED BY <1>3, <1>13, <1>14, FS_RemoveElement
    <3>5. package_count \in Nat /\ package_count' = package_count
      BY <1>2, <1>4 DEF Types, SenderTypes
    <3>6. h \in Nat /\ n \in Nat BY <1>3
    <3> HIDE DEF h, n, h1, n1
    <3>7. h1 + n1 + package_count = h + n + package_count BY ONLY <3>3, <3>4, <3>5, <3>6
    <3> QED BY <3>2, <3>5, <3>7 DEF h1, n1
  <2> QED BY <2>1, <2>2, <2>3, <2>4, <1>1, <1>2, <1>3 DEF Crew
<1> QED BY <1>1, <1>2, <1>3, <1>5, <1>20, <1>21, <1>22, <1>23, WhileJoining

\* A package leaves a worker for the matrix.
LEMMA CopyStep ==
  ASSUME IInv, NEW w \in Workers, Copy(w)
  PROVE  IInv'
<1>1. PICK c \in Receivers : c = current BY DEF IInv, Types, SenderTypes
<1>2. Types /\ Cells /\ Crew /\ Ledger /\ Asking BY DEF IInv
<1> DEFINE part == worker[w].part
           x == [Idle EXCEPT !.at = "load"]
<1>3. /\ worker[w].at = "copy" /\ c = current' /\ worker' = [worker EXCEPT ![w] = x]
      /\ UNCHANGED <<parameters, current, receiver, client, tasks, masks, random_matrix>>
      /\ UNCHANGED <<requests, queue, asker, file, sender, package_count>>
  BY <1>1 DEF Copy, receiverVars, chosen
<1>4. /\ sender = "join" /\ Answering(c) /\ parameters = Parameters
      /\ Held \subseteq Real(c) /\ Stored \subseteq Real(c)
  BY <1>1, <1>3, AtWorkers
<1>5. PICK t \in Real(c), m \in Masks : part = Package(c, t, m)
  <2>1. <<part>> \in Packages(c) BY <1>1, <1>2, <1>3 DEF Crew
  <2>2. PICK t \in Real(c), m \in Masks : <<part>> = <<Package(c, t, m)>> BY <2>1 DEF Packages
  <2>3. part = Package(c, t, m) BY <2>2
  <2> QED BY <2>3
<1>6. /\ part.cache_idx = t[1] /\ part.bundle_idx = t[2] /\ Place(part) = t
      /\ Extract(part).psu_result = [receiver |-> c, mask |-> m]
  <2> HIDE DEF part
  <2> QED BY <1>5, PackageRead
<1>7. /\ t[1] \in Nat /\ t[2] \in Bundles /\ t[2] \in Nat /\ t[1] < AlphaMax(c) /\ t = <<t[1], t[2]>>
      /\ AlphaMax(c) \in Nat /\ BundleCount \in Nat
      /\ ItemsPerBundle \in Nat /\ ItemsPerBundle >= 1
  BY Places, Sizes
<1> DEFINE first == Spot(t[1], t[2], 0)
           Cell(k) == [receiver |-> c, cache |-> t[1], bundle |-> t[2], mask |-> m,
                       item |-> k - first]
<1>8. Offset(current, part.cache_idx, part.bundle_idx) = first
  <2>1. parameters.bundles = BundleCount BY <1>4 DEF Parameters
  <2>2. Offset(current, part.cache_idx, part.bundle_idx)
          = t[1] * ItemsPerBundle * BundleCount + t[2] * ItemsPerBundle
    BY <1>6, <2>1 DEF Offset
  <2>3. t[1] * ItemsPerBundle * BundleCount + t[2] * ItemsPerBundle
          = (t[1] * BundleCount + t[2]) * ItemsPerBundle + 0
    BY ONLY <1>7
  <2> QED BY <2>2, <2>3 DEF Spot
<1>9. matrix' = [k \in DOMAIN matrix |->
                   IF k \in first..(first + ItemsPerBundle - 1) THEN Cell(k) ELSE matrix[k]]
  <2> HIDE DEF first, part
  <2>1. /\ [receiver |-> c, mask |-> m].receiver = c /\ [receiver |-> c, mask |-> m].mask = m
    OBVIOUS
  <2>2. matrix' = [k \in DOMAIN matrix |->
                     IF k \in first..(first + ItemsPerBundle - 1)
                     THEN [receiver |-> Extract(part).psu_result.receiver, cache |-> part.cache_idx,
                           bundle |-> part.bundle_idx, mask |-> Extract(part).psu_result.mask,
                           item |-> k - first]
                     ELSE matrix[k]]
    BY <1>8 DEF Copy, part
  <2> QED BY <2>1, <2>2, <1>6
<1>10. first \in Nat /\ first \in DOMAIN matrix
       /\ DOMAIN matrix = 0..(AlphaMax(c) * BundleCount * ItemsPerBundle - 1)
  <2>1. DOMAIN matrix = 0..(AlphaMax(c) * BundleCount * ItemsPerBundle - 1)
    BY <1>1, <1>2, <1>4 DEF Cells
  <2>2. 0 \in 0..(ItemsPerBundle - 1) BY ONLY <1>7
  <2>3. /\ Spot(t[1], t[2], 0) \in Nat
        /\ \A n \in Nat : t[1] < n => Spot(t[1], t[2], 0) \in 0..(n * BundleCount * ItemsPerBundle - 1)
    BY ONLY <1>7, <2>2, Spots
  <2>4. Spot(t[1], t[2], 0) \in 0..(AlphaMax(c) * BundleCount * ItemsPerBundle - 1)
    BY ONLY <1>7, <2>3, Zenon
  <2>5. Spot(t[1], t[2], 0) \in DOMAIN matrix BY ONLY <2>1, <2>4, Zenon
  <2> QED BY ONLY <2>1, <2>3, <2>5
<1>11. \A j \in 0..(ItemsPerBundle - 1) : Spot(t[1], t[2], j) = first + j BY <1>7, Spots
<1> HIDE DEF first, x
<1>12. \A k \in DOMAIN matrix :
         IF k \in first..(first + ItemsPerBundle - 1) THEN matrix'[k] = Cell(k)
                                                      ELSE matrix'[k] = matrix[k]
  BY <1>9
<1>13. \A k : /\ Cell(k).receiver = c /\ Cell(k).cache = t[1] /\ Cell(k).bundle = t[2]
              /\ Cell(k).item = k - first /\ Cell(k) # None
  <2>1. \A k : DOMAIN Cell(k) # {} OBVIOUS
  <2>2. DOMAIN None = {} BY DEF None
  <2>3. \A k : Cell(k) # None BY <2>1, <2>2
  <2> QED BY <2>3
<1> HIDE DEF Cell
<1>14. DOMAIN matrix' = DOMAIN matrix BY <1>9
<1>15. Stored' = Stored \cup {t}
  <2>1. \A s \in Real(c) : Spot(s[1], s[2], 0) \in first..(first + ItemsPerBundle - 1) => s = t
    <3> SUFFICES ASSUME NEW s \in Real(c), Spot(s[1], s[2], 0) \in first..(first + ItemsPerBundle - 1)
                 PROVE  s = t
      OBVIOUS
    <3>1. s[1] \in Nat /\ s[2] \in Bundles /\ s = <<s[1], s[2]>> BY Places
    <3>2. 0 \in 0..(ItemsPerBundle - 1) BY <1>7
    <3>3. Spot(s[1], s[2], 0) \in Nat BY <3>1, <3>2, Spots
    <3>4. PICK j \in 0..(ItemsPerBundle - 1) : Spot(s[1], s[2], 0) = first + j
      <4> DEFINE y == Spot(s[1], s[2], 0)
      <4>1. y \in Nat /\ y \in first..(first + ItemsPerBundle - 1) BY <3>3
      <4> HIDE DEF y
      <4>2. y - first \in 0..(ItemsPerBundle - 1) /\ y = first + (y - first)
        BY ONLY <4>1, <1>7, <1>10
      <4> QED BY <4>2 DEF y
    <3>5. Spot(t[1], t[2], j) = Spot(s[1], s[2], 0) BY <3>4, <1>11
    <3>6. t[1] = s[1] /\ t[2] = s[2]
      <4>1. PICK a \in Nat, b \in Bundles, d \in Nat, e \in Bundles :
              a = t[1] /\ b = t[2] /\ d = s[1] /\ e = s[2]
        BY <1>7, <3>1
      <4>2. Spot(a, b, j) = Spot(d, e, 0) BY <4>1, <3>5
      <4>3. a = d /\ b = e BY <4>2, <3>2, Spots
      <4> QED BY <4>1, <4>3
    <3> QED BY <3>6, <3>1, <1>7
  <2>2. Own(matrix[first])' /\ matrix'[first] = Cell(first)
    <3>1. first \in first..(first + ItemsPerBundle - 1) BY <1>7, <1>10
    <3> QED BY <3>1, <1>3, <1>10, <1>12, <1>13 DEF Own
  <2>3. \A s \in Real(c) : s # t /\ Spot(s[1], s[2], 0) \in DOMAIN matrix =>
                             matrix'[Spot(s[1], s[2], 0)] = matrix[Spot(s[1], s[2], 0)]
    BY <2>1, <1>12
  <2>4. Stored' = {s \in Real(c) : Spot(s[1], s[2], 0) \in DOMAIN matrix
                                   /\ matrix'[Spot(s[1], s[2], 0)] # None
                                   /\ matrix'[Spot(s[1], s[2], 0)].receiver = c}
    BY <1>3, <1>14 DEF Stored, Own
  <2>5. Stored = {s \in Real(c) : Spot(s[1], s[2], 0) \in DOMAIN matrix
                                  /\ matrix[Spot(s[1], s[2], 0)] # None
                                  /\ matrix[Spot(s[1], s[2], 0)].receiver = c}
    BY <1>1 DEF Stored, Own
  <2>6. Spot(t[1], t[2], 0) = first BY DEF first
  <2>7. matrix'[first] # None /\ matrix'[first].receiver = c BY <2>2, <1>13
  <2> HIDE DEF Stored
  <2> QED BY ONLY <2>3, <2>4, <2>5, <2>6, <2>7, <1>10
<1>16. Idle = [at |-> "off", count |-> 0, part |-> None] BY DEF Idle
<1>17. x \in [at : Stages, count : Nat, part : Parts] /\ x.at = "load"
  BY <1>16 DEF x, Stages, Parts
<1>18. /\ worker'[w] = x /\ \A v \in Workers : v # w => worker'[v] = worker[v]
       /\ Holders \ {w} = Holders' \ {w} /\ Waiting \ {w} = Waiting' \ {w}
       /\ worker' \in [Workers -> [at : Stages, count : Nat, part : Parts]]
       /\ w \notin Holders' /\ w \in Holders /\ w \notin Waiting /\ w \notin Waiting'
  BY <1>3, <1>17, Moves
<1>19. Holders' = Holders \ {w} /\ Waiting' = Waiting
  <2>1. Holders \ {w} = Holders' \ {w} /\ w \notin Holders' BY <1>18
  <2>2. Waiting \ {w} = Waiting' \ {w} /\ w \notin Waiting /\ w \notin Waiting' BY <1>18
  <2> HIDE DEF Holders, Waiting
  <2>3. Holders' = Holders \ {w} BY ONLY <2>1
  <2>4. Waiting' = Waiting BY ONLY <2>2
  <2> QED BY <2>3, <2>4
<1>20. \A v \in Holders : v # w => worker'[v] = worker[v] BY <1>18 DEF Holders
<1>21. /\ \A v, u \in Holders : Place(worker[v].part) = Place(worker[u].part) => v = u
       /\ Held \cap Stored = {}
       /\ (tasks[c] \cup Queued(c)) \cap (Held \cup Stored) = {}
       /\ receiver[c] = "masks" => Held = {} /\ Stored = {}
  BY <1>1, <1>2 DEF Ledger
<1>22. Held' = Held \ {t} /\ t \in Held
  <2>1. Held' = {Place(worker'[v].part) : v \in Holders'} BY DEF Held
  <2>2. Held = {Place(worker[v].part) : v \in Holders} BY DEF Held
  <2>3. Place(worker[w].part) = t BY <1>6
  <2> HIDE DEF Held, Holders
  <2>4. t \in Held BY <2>2, <2>3, <1>18
  <2>5. \A v \in Holders : v # w => Place(worker[v].part) # t BY <2>3, <1>18, <1>21
  <2>6. Held' = {Place(worker[v].part) : v \in Holders \ {w}} BY <2>1, <1>19, <1>20
  <2> QED BY <2>2, <2>3, <2>4, <2>5, <2>6
<1> HIDE DEF part
<1>23. \A s \in Receivers : Same(s) BY <1>3 DEF Same
<1>24. Answering(c)' /\ Queued(c)' = Queued(c)
  <2>1. Answering(c)' <=> Answering(c) BY <1>3, <1>23, SameKeeps
  <2> QED BY <2>1, <1>4, <1>3, <1>23, SameKeeps
<1>25. SenderTypes' BY <1>2, <1>3, <1>18 DEF Types, SenderTypes
<1>26. ParmsMsg' = ParmsMsg /\ Letters' = Letters BY <1>3 DEF ParmsMsg, QueryMsg, Letters
<1>27. ChannelTypes' /\ Asking' BY <1>2, <1>3, <1>26 DEF Types, ChannelTypes, Asking
<1>28. Cells'
  <2>1. \A k \in DOMAIN matrix : matrix[k] # None =>
          /\ matrix[k].receiver \in Receivers /\ matrix[k].receiver <= c
          /\ <<matrix[k].cache, matrix[k].bundle>> \in Real(matrix[k].receiver)
          /\ matrix[k].item \in 0..(ItemsPerBundle - 1)
          /\ k = Spot(matrix[k].cache, matrix[k].bundle, matrix[k].item)
    BY <1>1, <1>2 DEF Cells
  <2>2. \A k \in DOMAIN matrix' : matrix'[k] # None =>
          /\ matrix'[k].receiver \in Receivers /\ matrix'[k].receiver <= c
          /\ <<matrix'[k].cache, matrix'[k].bundle>> \in Real(matrix'[k].receiver)
          /\ matrix'[k].item \in 0..(ItemsPerBundle - 1)
          /\ k = Spot(matrix'[k].cache, matrix'[k].bundle, matrix'[k].item)
    <3> SUFFICES ASSUME NEW k \in DOMAIN matrix, matrix'[k] # None
                 PROVE  /\ matrix'[k].receiver \in Receivers /\ matrix'[k].receiver <= c
                        /\ <<matrix'[k].cache, matrix'[k].bundle>> \in Real(matrix'[k].receiver)
                        /\ matrix'[k].item \in 0..(ItemsPerBundle - 1)
                        /\ k = Spot(matrix'[k].cache, matrix'[k].bundle, matrix'[k].item)
      BY <1>14
    <3>1. CASE k \in first..(first + ItemsPerBundle - 1)
      <4>1. /\ matrix'[k].receiver = c /\ matrix'[k].cache = t[1] /\ matrix'[k].bundle = t[2]
            /\ matrix'[k].item = k - first
        BY <3>1, <1>12, <1>13
      <4>2. k \in Int /\ k - first \in 0..(ItemsPerBundle - 1) /\ first + (k - first) = k
        BY ONLY <3>1, <1>7, <1>10
      <4>3. Spot(t[1], t[2], k - first) = k BY <4>2, <1>11
      <4>4. c <= c BY Sizes
      <4> QED BY <4>1, <4>2, <4>3, <4>4, <1>7
    <3>2. CASE k \notin first..(first + ItemsPerBundle - 1)
      <4>1. matrix'[k] = matrix[k] BY <3>2, <1>12
      <4> QED BY <4>1, <2>1
    <3> QED BY <3>1, <3>2
  <2> QED BY <2>2, <1>3, <1>4, <1>10, <1>14 DEF Cells
<1>29. Ledger'
  <2>1. \A v, u \in Holders' : Place(worker'[v].part) = Place(worker'[u].part) => v = u
    <3> HIDE DEF Holders
    <3> QED BY <1>19, <1>20, <1>21
  <2>2. tasks'[current'] = tasks[c] /\ Queued(current)' = Queued(c) /\ receiver'[current'] = receiver[c]
    BY <1>1, <1>3 DEF Queued
  <2>3. /\ (tasks[c] \cup Queued(c)) \cap (Held' \cup Stored') = {} /\ Held' \cap Stored' = {}
        /\ receiver[c] # "masks"
    <3> HIDE DEF Queued, Held, Stored
    <3> QED BY <1>15, <1>21, <1>22
  <2> HIDE DEF Holders, Held, Stored, Queued
  <2> QED BY <2>1, <2>2, <2>3 DEF Ledger
<1>30. Crew'
  <2>1. package_count' # 0 => worker'[1].at # "off"
    <3>1. package_count # 0 => worker[1].at # "off" BY <1>2, <1>4 DEF Crew
    <3> QED BY <3>1, <1>3, <1>17, <1>18, Sizes
  <2>2. \A v \in Workers : worker'[v].at = "claim" => worker'[v].count # 0
    BY <1>2, <1>17, <1>18 DEF Crew
  <2>3. \A v \in Workers : worker'[v].at = "copy" => <<worker'[v].part>> \in Packages(c)
    BY <1>1, <1>2, <1>17, <1>18 DEF Crew
  <2>4. Cardinality(Held' \cup Stored') + Cardinality(Waiting') + package_count'
          = PackageCount(c)
    <3>1. Held' \cup Stored' = Held \cup Stored
      <4> HIDE DEF Held, Stored
      <4> QED BY <1>15, <1>22
    <3>2. Cardinality(Held \cup Stored) + Cardinality(Waiting) + package_count = PackageCount(c)
      BY <1>1, <1>2, <1>4 DEF Crew
    <3> HIDE DEF Held, Stored, Waiting
    <3> QED BY <3>1, <3>2, <1>3, <1>19
  <2> QED BY <2>1, <2>2, <2>3, <2>4, <1>3, <1>4 DEF Crew
<1> QED BY <1>1, <1>3, <1>4, <1>23, <1>24, <1>25, <1>27, <1>28, <1>29, <1>30, WhileJoining

-----------------------------------------------------------------------------
(***************************************************************************)
(* The workers have returned: every package is in the matrix.              *)
(***************************************************************************)
LEMMA AllStored ==
  ASSUME IInv, sender = "join", Joined, NEW c \in Receivers, c = current
  PROVE  Stored = Real(c) /\ Held = {} /\ Holders = {} /\ Finished(c)
<1>1. Types /\ Phases /\ Crew /\ Ledger BY DEF IInv
<1>2. Answering(c) BY <1>1 DEF Phases
<1>3. \A w \in Workers : worker[w].at = "off" BY DEF Joined
<1>4. Holders = {} /\ Waiting = {} BY <1>3 DEF Holders, Waiting
<1>5. Held = {} BY <1>4 DEF Held
<1>6. package_count = 0 BY <1>1, <1>3, Sizes DEF Crew
<1>7. Cardinality(Held \cup Stored) + Cardinality(Waiting) + package_count = PackageCount(c)
  BY <1>1 DEF Crew
<1>8. Stored \subseteq Real(c) BY DEF Stored
<1>9. Cardinality(Stored) = Cardinality(Real(c))
  <2> DEFINE n == Cardinality(Stored)
             k == PackageCount(c)
  <2>1. Cardinality(Waiting) = 0 BY <1>4, FS_EmptySet
  <2>2. Held \cup Stored = Stored BY <1>5
  <2>3. n \in Nat
    <3>1. IsFiniteSet(Stored)
      <4> HIDE DEF Stored
      <4> QED BY <1>8, Places, FS_Subset
    <3> QED BY <3>1, FS_CardinalityType
  <2>4. n + 0 + 0 = k BY <2>1, <2>2, <1>6, <1>7
  <2>5. n = k
    <3> HIDE DEF n, k
    <3> QED BY <2>3, <2>4
  <2> QED BY <2>5 DEF PackageCount
<1> HIDE DEF Stored
<1>10. Stored = Real(c) BY <1>8, <1>9, Places, FS_Subset
<1>11. tasks[c] = {} /\ Queued(c) = {}
  <2>1. (tasks[c] \cup Queued(c)) \cap (Held \cup Stored) = {} BY <1>1 DEF Ledger
  <2>2. tasks[c] \subseteq Real(c) BY <1>2 DEF Answering
  <2>3. Queued(c) \subseteq Real(c)
    <3>1. \A k \in DOMAIN queue[c]["sender"] : queue[c]["sender"][k] \in Packages(c)
      BY <1>2 DEF Answering
    <3>2. \A letter \in Packages(c) : At(letter) \in Real(c)
      <4>1. \A t \in Real(c), m \in Masks : At(<<Package(c, t, m)>>) = t BY PackageRead
      <4> QED BY <4>1 DEF Packages
    <3> QED BY <3>1, <3>2 DEF Queued
  <2> HIDE DEF Queued
  <2> QED BY <2>1, <2>2, <2>3, <1>10
<1>12. queue[c]["sender"] = <<>>
  <2>1. queue[c]["sender"] \in Seq(Mail) BY <1>1 DEF Types, ChannelTypes, Clients
  <2>2. DOMAIN queue[c]["sender"] = {} BY <1>11 DEF Queued
  <2>3. queue[c]["sender"] # <<>> => 1 \in DOMAIN queue[c]["sender"] BY <2>1, Taken
  <2> QED BY <2>2, <2>3
<1>13. receiver[c] = "masks" => Real(c) = {} BY <1>1, <1>10 DEF Ledger
<1>14. Finished(c) BY <1>2, <1>11, <1>12, <1>13 DEF Finished, Quiet, Answering
<1> QED BY <1>4, <1>5, <1>10, <1>14

\* What the matrix says of the receiver then.
LEMMA MatrixComplete ==
  ASSUME IInv, sender = "join", Joined, NEW c \in Receivers, c = current
  PROVE  Complete([alpha |-> AlphaMax(c), cells |-> matrix], c)
<1> DEFINE f == [alpha |-> AlphaMax(c), cells |-> matrix]
           Cell(d, b, j) == matrix[Spot(d, b, j)]
<1>1. Cells /\ Stored = Real(c) BY AllStored DEF IInv
<1>2. f.alpha = AlphaMax(c) /\ f.cells = matrix OBVIOUS
<1>3. AlphaMax(c) \in Nat BY Places
<1>4. ASSUME NEW d \in 0..(AlphaMax(c) - 1), NEW b \in Bundles, NEW j \in 0..(ItemsPerBundle - 1),
             Cell(d, b, j) # None, Cell(d, b, j).receiver = c
      PROVE  /\ d < Caches[c][b] /\ Cell(d, b, j).cache = d /\ Cell(d, b, j).bundle = b
             /\ Cell(d, b, j).item = j
  <2> DEFINE k == Spot(d, b, j)
             x == matrix[k]
  <2>1. d \in Nat /\ d < AlphaMax(c) BY <1>3
  <2>2. k \in DOMAIN matrix
    <3>1. DOMAIN matrix = 0..(AlphaMax(c) * BundleCount * ItemsPerBundle - 1)
      BY <1>1 DEF Cells
    <3> QED BY <3>1, <2>1, <1>3, Spots
  <2> HIDE DEF k
  <2>3. /\ <<x.cache, x.bundle>> \in Real(c) /\ x.item \in 0..(ItemsPerBundle - 1)
        /\ k = Spot(x.cache, x.bundle, x.item)
    BY <1>1, <1>4, <2>2 DEF Cells, k
  <2> DEFINE t == <<x.cache, x.bundle>>
  <2>4. /\ t[1] \in Nat /\ t[2] \in Bundles /\ t[1] < Caches[c][t[2]] BY <2>3, Places
  <2>5. t[1] = x.cache /\ t[2] = x.bundle OBVIOUS
  <2> HIDE DEF t
  <2>6. PICK y \in Nat, z \in Bundles, i \in 0..(ItemsPerBundle - 1) :
          y = x.cache /\ z = x.bundle /\ i = x.item
    BY <2>3, <2>4, <2>5
  <2>7. Spot(d, b, j) = Spot(y, z, i) BY <2>3, <2>6 DEF k
  <2>8. d = y /\ b = z /\ j = i BY <2>1, <2>7, Spots
  <2> QED BY <2>4, <2>5, <2>6, <2>8 DEF k
<1>5. \A cb \in Real(c) : Cell(cb[1], cb[2], 0) # None /\ Cell(cb[1], cb[2], 0).receiver = c
  BY <1>1 DEF Stored, Own
<1> HIDE DEF f
<1> QED BY <1>2, <1>4, <1>5 DEF Complete

LEMMA WriteResultsStep ==
  ASSUME IInv, WriteResults
  PROVE  IInv'
<1>1. PICK c \in Receivers : c = current BY DEF IInv, Types, SenderTypes
<1> DEFINE f == [alpha |-> AlphaMax(c), cells |-> matrix]
<1>2. /\ sender = "join" /\ Joined
      /\ file' = [file EXCEPT ![<<"sender", c>>] = f]
      /\ IF c + 1 \in Receivers THEN sender' = "oprf" /\ current' = c + 1
                                ELSE sender' = "returned" /\ current' = c
      /\ UNCHANGED <<parameters, package_count, matrix, worker, asker, requests, queue>>
      /\ UNCHANGED <<receiver, client, tasks, masks, random_matrix>>
  BY <1>1 DEF WriteResults, receiverVars, chosen
<1>3. Types /\ Asking /\ Phases /\ Cells /\ Crew /\ Ledger /\ Written BY DEF IInv
<1>4. Stored = Real(c) /\ Held = {} /\ Holders = {} /\ Finished(c) BY <1>1, <1>2, AllStored
<1>5. Complete(f, c) BY <1>1, <1>2, MatrixComplete
<1> HIDE DEF f
<1>6. PICK d \in Receivers : /\ d = current' /\ c <= d
                             /\ \/ d = c + 1 /\ sender' = "oprf"
                                \/ d = c /\ sender' = "returned"
  BY <1>2, Sizes
<1>7. \A s \in Receivers : Same(s) BY <1>2 DEF Same
<1>8. Finished(c)' /\ \A s \in Receivers : (s < c => Finished(s)') /\ (s > c => Untouched(s)')
  <2>1. \A s \in Receivers : (s < c => Finished(s)) /\ (s > c => Untouched(s))
    BY <1>1, <1>3 DEF Phases
  <2>2. \A s \in Receivers : (Finished(s) => Finished(s)') /\ (Untouched(s) => Untouched(s)')
    BY <1>2, <1>7, Unmoved
  <2> QED BY <2>1, <2>2, <1>4
<1>9. Phases'
  <2>1. \A s \in Receivers : (s < d => Finished(s)') /\ (s > d => Untouched(s)')
    <3>1. \A s \in Receivers : s < d => s < c \/ s = c BY <1>6, Sizes
    <3>2. \A s \in Receivers : s > d => s > c BY <1>6, Sizes
    <3> QED BY <3>1, <3>2, <1>8
  <2>2. d = c + 1 => Untouched(d)' BY <1>8, Sizes
  <2> QED BY <2>1, <2>2, <1>6, <1>8 DEF Phases
<1>10. SenderTypes' BY <1>2, <1>3, <1>6 DEF Types, SenderTypes
<1>11. ReceiverTypes' BY <1>2, <1>3 DEF Types, ReceiverTypes
<1>12. ParmsMsg' = ParmsMsg /\ Letters' = Letters BY <1>2 DEF ParmsMsg, QueryMsg, Letters
<1>13. ChannelTypes'
  <2>1. file' = [g \in Files |-> file'[g]] BY <1>2, <1>3 DEF Types, ChannelTypes
  <2> QED BY <2>1, <1>2, <1>3, <1>12 DEF Types, ChannelTypes
<1>14. Asking' BY <1>2, <1>3, <1>12 DEF Asking
<1>15. \A k \in DOMAIN matrix : matrix[k] # None =>
         /\ matrix[k].receiver \in Receivers /\ matrix[k].receiver <= c
         /\ <<matrix[k].cache, matrix[k].bundle>> \in Real(matrix[k].receiver)
         /\ matrix[k].item \in 0..(ItemsPerBundle - 1)
         /\ k = Spot(matrix[k].cache, matrix[k].bundle, matrix[k].item)
  BY <1>1, <1>3 DEF Cells
<1>16. Cells'
  <2>1. \A r \in Receivers : r <= c => r <= d /\ (r = d => sender' = "returned")
    BY <1>6, Sizes
  <2> QED BY <2>1, <1>2, <1>6, <1>15 DEF Cells
<1>17. Holders' = {} /\ Held' = {}
  <2>1. Holders' = Holders BY <1>2 DEF Holders
  <2> QED BY <2>1, <1>4 DEF Held
<1>18. Crew'
  <2>1. \A w \in Workers : worker'[w].at = "off" BY <1>2 DEF Joined
  <2> QED BY <2>1, <1>6 DEF Crew
<1>19. Ledger'
  <2>1. CASE d = c + 1 /\ sender' = "oprf"
    <3>1. Stored' = {}
      <4>1. \A k \in DOMAIN matrix' : matrix'[k] # None => matrix'[k].receiver # current'
        BY <1>16, <1>6, <2>1 DEF Cells
      <4> QED BY <4>1 DEF Stored, Own
    <3> QED BY <3>1, <1>17 DEF Ledger
  <2>2. CASE d = c /\ sender' = "returned"
    <3>1. Stored' = Stored BY <2>2, <1>1, <1>2, <1>6 DEF Stored, Own
    <3>2. tasks'[c] = {} /\ Queued(c)' = {} BY <1>8 DEF Finished, Quiet, Queued
    <3>3. receiver'[c] = "masks" => Stored' = {} BY <3>1, <1>4, <1>8 DEF Finished
    <3>4. tasks'[current'] = tasks'[c] /\ Queued(current)' = Queued(c)' /\ receiver'[current'] = receiver'[c]
      BY <2>2, <1>6 DEF Queued
    <3> HIDE DEF Stored, Queued, Held, Holders
    <3> QED BY <3>2, <3>3, <3>4, <1>17 DEF Ledger
  <2> QED BY <2>1, <2>2, <1>6
<1>20. Written'
  <2>1. <<"sender", c>> \in Files BY DEF Files
  <2>2. file'[<<"sender", c>>] = f
        /\ \A s \in Receivers : s # c => file'[<<"sender", s>>] = file[<<"sender", s>>]
    <3>1. \A s \in Receivers : s # c => <<"sender", s>> \in Files /\ <<"sender", s>> # <<"sender", c>>
      BY DEF Files
    <3> QED BY <3>1, <2>1, <1>2, <1>3 DEF Types, ChannelTypes
  <2>3. \A s \in Receivers : s # c /\ file[<<"sender", s>>] # None =>
                               s < c /\ Complete(file[<<"sender", s>>], s)
    BY <1>1, <1>2, <1>3 DEF Written
  <2>4. \A s \in Receivers : s < c => s < d BY <1>6, Sizes
  <2>5. c < d \/ (c = d /\ sender' = "returned") BY <1>6, Sizes
  <2>6. ASSUME NEW s \in Receivers, file'[<<"sender", s>>] # None
        PROVE  /\ s < d \/ (s = d /\ sender' = "returned")
               /\ Complete(file'[<<"sender", s>>], s)
    <3>1. CASE s = c BY <3>1, <2>2, <2>5, <1>5
    <3>2. CASE s # c BY <3>2, <2>2, <2>3, <2>4, <2>6
    <3> QED BY <3>1, <3>2
  <2> HIDE DEF Complete
  <2> QED BY <2>6, <1>6 DEF Written
<1> QED
  BY <1>9, <1>10, <1>11, <1>13, <1>14, <1>16, <1>18, <1>19, <1>20 DEF IInv, Types

LEMMA GivesUpStep ==
  ASSUME IInv, GivesUp
  PROVE  IInv'
<1>1. PICK c \in Receivers : c = current BY DEF IInv, Types, SenderTypes
<1>2. /\ sender = "join" /\ Joined /\ sender' = "returned" /\ c = current'
      /\ UNCHANGED <<parameters, current, package_count, matrix, worker, asker, requests, queue, file>>
      /\ UNCHANGED <<receiver, client, tasks, masks, random_matrix>>
  BY <1>1 DEF GivesUp, receiverVars, chosen
<1>3. Types /\ Asking /\ Phases /\ Cells /\ Crew /\ Ledger /\ Written BY DEF IInv
<1>4. Stored = Real(c) /\ Held = {} /\ Holders = {} /\ Finished(c) BY <1>1, <1>2, AllStored
<1>5. \A s \in Receivers : Same(s) BY <1>2 DEF Same
<1>6. Finished(c)' /\ \A s \in Receivers : (s < c => Finished(s)') /\ (s > c => Untouched(s)')
  <2>1. \A s \in Receivers : (s < c => Finished(s)) /\ (s > c => Untouched(s))
    BY <1>1, <1>3 DEF Phases
  <2>2. \A s \in Receivers : (Finished(s) => Finished(s)') /\ (Untouched(s) => Untouched(s)')
    BY <1>2, <1>5, Unmoved
  <2> QED BY <2>1, <2>2, <1>4
<1>7. Phases' BY <1>1, <1>2, <1>6 DEF Phases
<1>8. SenderTypes' /\ ReceiverTypes' BY <1>2, <1>3 DEF Types, SenderTypes, ReceiverTypes
<1>9. ParmsMsg' = ParmsMsg /\ Letters' = Letters BY <1>2 DEF ParmsMsg, QueryMsg, Letters
<1>10. ChannelTypes' /\ Asking' BY <1>2, <1>3, <1>9 DEF Types, ChannelTypes, Asking
<1>11. Cells' BY <1>2, <1>3 DEF Cells
<1>12. Crew'
  <2>1. \A w \in Workers : worker'[w].at = "off" BY <1>2 DEF Joined
  <2> QED BY <2>1, <1>2 DEF Crew
<1>13. Ledger'
  <2>1. Holders' = Holders /\ Held' = Held /\ Stored' = Stored
    <3>1. Holders' = Holders BY <1>2 DEF Holders
    <3>2. Held' = Held BY <3>1, <1>2 DEF Held
    <3>3. Stored' = Stored BY <1>2 DEF Stored, Own
    <3> QED BY <3>1, <3>2, <3>3
  <2>2. Queued(current)' = Queued(current) BY <1>2 DEF Queued
  <2> HIDE DEF Held, Stored, Holders, Queued
  <2> QED BY <2>1, <2>2, <1>2, <1>3 DEF Ledger
<1>14. Written' BY <1>2, <1>3 DEF Written
<1> QED BY <1>7, <1>8, <1>10, <1>11, <1>12, <1>13, <1>14 DEF IInv, Types

-----------------------------------------------------------------------------
(***************************************************************************)
(* The masks.  Package c of bundle b takes place b + c * BundleCount of    *)
(* the receiver's list, which has no entries for padded caches: that place *)
(* is the package's own only if no padded cache comes before a real one.   *)
(***************************************************************************)
CachesInOrder(r) == \A b, d \in Bundles : b < d =>
  Caches[r][d] <= Caches[r][b] /\ Caches[r][b] <= Caches[r][d] + 1

RightPart(r, part) == part.psu_result.mask = PackIdx(r, part.cache_idx, part.bundle_idx)
RightMessage(r, msg) == Len(msg) = 1 => RightPart(r, msg[1])
RightQueue(r, q) == \A k \in DOMAIN q : RightMessage(r, q[k])
RightCell(cell) == cell.mask = PackIdx(cell.receiver, cell.cache, cell.bundle)

Early == {"oprf", "bind", "listen", "query", "masks"}
Late == {"process", "returned"}
Faithful(r) == receiver[r] \in Early \cup Late

\* What RunQuery has drawn once it has.
Stocked(r, rows, n) == \A t \in Real(r) :
  /\ PackIdx(r, t[1], t[2]) < n
  /\ \A j \in 0..(ItemsPerBundle - 1) :
       rows[Spot(t[1], t[2], j) + 1] = [mask |-> PackIdx(r, t[1], t[2]), item |-> j]

QueueMarked == \A r \in Receivers : Faithful(r) => RightQueue(r, queue[r]["sender"])
HoldersMarked == Faithful(current) => \A w \in Holders : RightPart(current, worker[w].part)
MatrixMarked == \A k \in DOMAIN matrix : matrix[k] # None /\ Faithful(matrix[k].receiver) =>
                                           RightCell(matrix[k])
ListsDrawn == \A r \in Receivers :
  /\ receiver[r] \in Early => random_matrix[r] = <<>>
  /\ receiver[r] \in Late => Stocked(r, random_matrix[r], masks[r])

Marked == QueueMarked /\ HoldersMarked /\ MatrixMarked /\ ListsDrawn

-----------------------------------------------------------------------------
(***************************************************************************)
(* The list and the matrix as RunQuery draws them, cell by cell: FoldLeft  *)
(* is a recursive function on the sets of visits, of which only the        *)
(* initial segments matter.                                                *)
(***************************************************************************)
DrawRound(h, s, r, rows) ==
  IF s = {} THEN [rows |-> rows, size |-> 0] ELSE Draw(r, h[s \ {Max(s)}], Visits(r)[Max(s)])

IsDrawing(h, n, r, rows) == h = [s \in SUBSET (1..n) |-> DrawRound(h, s, r, rows)]

\* The recursion has a solution.
LEMMA DrawingExists ==
  ASSUME NEW n \in Nat, NEW r, NEW rows
  PROVE  \E h : IsDrawing(h, n, r, rows)
<1> DEFINE Within(m) == {s \in SUBSET (1..n) : s \subseteq 1..m}
           Good(m, h) == \A s \in Within(m) : h[s] = DrawRound(h, s, r, rows)
           U == {m \in Nat : \E h : Good(m, h)}
<1>1. 0 \in U
  <2> DEFINE h == [s \in SUBSET (1..n) |-> [rows |-> rows, size |-> 0]]
  <2>1. \A s \in Within(0) : s = {} OBVIOUS
  <2>2. Good(0, h) BY <2>1 DEF DrawRound
  <2> QED BY <2>2
<1>2. ASSUME NEW m \in U PROVE m + 1 \in U
  <2>0. m \in Nat BY <1>2
  <2>1. PICK g : Good(m, g) BY <1>2
  <2> DEFINE h == [s \in SUBSET (1..n) |-> IF s \in Within(m) THEN g[s]
                                           ELSE DrawRound(g, s, r, rows)]
  <2>2. ASSUME NEW s \in Within(m + 1) PROVE h[s] = DrawRound(h, s, r, rows)
    <3>1. h[s] = DrawRound(g, s, r, rows) BY <2>1
    <3>2. CASE s = {} BY <3>1, <3>2 DEF DrawRound
    <3>3. CASE s # {}
      <4>1. s \ {Max(s)} \in Within(m) BY <2>0, <3>3, LastPlace
      <4>2. h[s \ {Max(s)}] = g[s \ {Max(s)}] BY <4>1
      <4> QED BY <3>1, <3>3, <4>2 DEF DrawRound
    <3> QED BY <3>2, <3>3
  <2> HIDE DEF h
  <2>3. Good(m + 1, h) BY <2>2
  <2> HIDE DEF Good
  <2> QED BY <2>0, <2>3
<1> HIDE DEF Good
<1>3. U = Nat BY <1>1, <1>2, InductionOnNat
<1> USE DEF Good
<1>4. PICK g : Good(n, g) BY <1>3
<1> DEFINE h == [s \in SUBSET (1..n) |-> g[s]]
<1>5. \A s \in SUBSET (1..n) : h[s] = DrawRound(g, s, r, rows) BY <1>4
<1>6. \A s \in SUBSET (1..n) : DrawRound(g, s, r, rows) = DrawRound(h, s, r, rows)
  <2> SUFFICES ASSUME NEW s \in SUBSET (1..n)
               PROVE  DrawRound(g, s, r, rows) = DrawRound(h, s, r, rows)
    OBVIOUS
  <2>1. CASE s = {} BY <2>1 DEF DrawRound
  <2>2. CASE s # {}
    <3>1. s \ {Max(s)} \in SUBSET (1..n) OBVIOUS
    <3>2. h[s \ {Max(s)}] = g[s \ {Max(s)}] BY <3>1
    <3> QED BY <2>2, <3>2 DEF DrawRound
  <2> QED BY <2>1, <2>2
<1>7. h = [s \in SUBSET (1..n) |-> DrawRound(h, s, r, rows)] BY <1>5, <1>6
<1> QED BY <1>7 DEF IsDrawing

\* What any solution is at the initial segments.
LEMMA DrawingSteps ==
  ASSUME NEW n \in Nat, NEW r, NEW rows, NEW h, IsDrawing(h, n, r, rows)
  PROVE  /\ h[1..0] = [rows |-> rows, size |-> 0]
         /\ \A k \in 1..n : h[1..k] = Draw(r, h[1..(k - 1)], Visits(r)[k])
<1>1. \A s \in SUBSET (1..n) : h[s] = DrawRound(h, s, r, rows) BY DEF IsDrawing
<1>2. h[1..0] = [rows |-> rows, size |-> 0]
  <2>1. 1..0 = {} OBVIOUS
  <2> QED BY <2>1, <1>1 DEF DrawRound
<1>3. ASSUME NEW k \in 1..n PROVE h[1..k] = Draw(r, h[1..(k - 1)], Visits(r)[k])
  <2>1. k \in Nat /\ 1..k \in SUBSET (1..n) /\ k \in 1..k OBVIOUS
  <2>2. IsFiniteSet(1..k) /\ 1..k \in SUBSET Nat BY <2>1, FS_Interval
  <2>3. Max(1..k) \in 1..k /\ \A x \in 1..k : x <= Max(1..k) BY <2>1, <2>2, MaxIs
  <2>4. Max(1..k) = k
    <3> DEFINE x == Max(1..k)
    <3>1. x \in 1..k /\ k <= x BY <2>1, <2>3
    <3> HIDE DEF x
    <3> QED BY <2>1, <3>1 DEF x
  <2>5. (1..k) \ {k} = 1..(k - 1) BY <2>1
  <2> QED BY <2>1, <2>4, <2>5, <1>1 DEF DrawRound
<1> QED BY <1>2, <1>3

\* What is drawn before the first cell, after each, and after the last.
LEMMA Drawing ==
  ASSUME NEW r \in Receivers, NEW rows, NEW n \in Nat, n = AlphaMax(r) * BundleCount
  PROVE  \E g : /\ g[0] = [rows |-> rows, size |-> 0] /\ g[n] = AllDrawn(r, rows)
                /\ \A k \in 0..(n - 1) :
                     g[k + 1] = Draw(r, g[k], <<k \div BundleCount, k % BundleCount>>)
<1> DEFINE h == CHOOSE h : IsDrawing(h, n, r, rows)
           g == [k \in 0..n |-> h[1..k]]
<1>1. IsDrawing(h, n, r, rows) BY DrawingExists
<1>2. DOMAIN Visits(r) = 1..n BY DEF Visits
<1>3. AllDrawn(r, rows) = h[1..n]
  BY <1>2 DEF AllDrawn, FoldLeft, MapThenFoldSet, IsDrawing, DrawRound
<1> HIDE DEF h
<1>4. /\ h[1..0] = [rows |-> rows, size |-> 0]
      /\ \A k \in 1..n : h[1..k] = Draw(r, h[1..(k - 1)], Visits(r)[k])
  <2>1. PICK f : f = h /\ IsDrawing(f, n, r, rows) BY <1>1
  <2>2. /\ f[1..0] = [rows |-> rows, size |-> 0]
        /\ \A k \in 1..n : f[1..k] = Draw(r, f[1..(k - 1)], Visits(r)[k])
    BY ONLY n \in Nat, <2>1, DrawingSteps
  <2> QED BY <2>1, <2>2
<1>5. g[0] = [rows |-> rows, size |-> 0] /\ g[n] = AllDrawn(r, rows) BY <1>3, <1>4
<1>6. ASSUME NEW k \in 0..(n - 1)
      PROVE  g[k + 1] = Draw(r, g[k], <<k \div BundleCount, k % BundleCount>>)
  <2>1. k \in 0..n /\ k + 1 \in 0..n /\ k + 1 \in 1..n /\ (k + 1) - 1 = k OBVIOUS
  <2>2. g[k + 1] = h[1..(k + 1)] /\ g[k] = h[1..k] BY <2>1
  <2>3. Visits(r)[k + 1] = <<((k + 1) - 1) \div BundleCount, ((k + 1) - 1) % BundleCount>>
    BY <2>1, <1>2 DEF Visits
  <2>4. h[1..(k + 1)] = Draw(r, h[1..((k + 1) - 1)], Visits(r)[k + 1]) BY <2>1, <1>4
  <2> QED BY <2>1, <2>2, <2>3, <2>4
<1> QED BY <1>5, <1>6

\* The cells are visited in the order of their places in the list.
LEMMA Numbered ==
  ASSUME NEW k \in Nat
  PROVE  /\ k \div BundleCount \in Nat /\ k % BundleCount \in Bundles
         /\ \A n \in Nat : k < n * BundleCount => k \div BundleCount < n
         /\ \A c \in Nat : \A b \in Bundles :
              k = PackIdx(0, c, b) => c = k \div BundleCount /\ b = k % BundleCount
         /\ k = PackIdx(0, k \div BundleCount, k % BundleCount)
<1> DEFINE B == BundleCount
           q == k \div B
           b == k % B
<1>1. B \in Nat /\ B >= 1 /\ Bundles = 0..(B - 1) BY Sizes DEF Bundles
<1>2. q \in Int /\ b \in 0..(B - 1) /\ k = B * q + b BY <1>1, Remainder
<1> HIDE DEF q, b
<1>3. q \in Nat
  <2>1. ASSUME q < 0 PROVE FALSE
    <3>1. PICK z \in Nat : q = -1 - z
      <4>1. -1 - q \in Nat /\ q = -1 - (-1 - q) BY <1>2, <2>1
      <4> QED BY <4>1
    <3>2. B * q = -B - B * z /\ B * z \in Nat BY <3>1, <1>1
    <3> QED BY <3>2, <1>1, <1>2
  <2> QED BY <2>1, <1>2
<1>4. ASSUME NEW n \in Nat, k < n * B PROVE q < n
  <2>1. ASSUME n <= q PROVE FALSE
    <3>1. PICK z \in Nat : q = n + z
      <4>1. q - n \in Nat /\ q = n + (q - n) BY <1>3, <2>1
      <4> QED BY <4>1
    <3>2. B * q = n * B + B * z /\ B * z \in Nat /\ n * B \in Nat BY <3>1, <1>1
    <3> QED BY <3>2, <1>1, <1>2, <1>4
  <2> QED BY <2>1, <1>3
<1>5. q * B = B * q BY <1>1, <1>3
<1>6. k = q * B + b BY <1>2, <1>5
<1>7. ASSUME NEW c \in Nat, NEW d \in Bundles, k = PackIdx(0, c, d) PROVE c = q /\ d = b
  <2>1. d \in Nat /\ d < B /\ b \in Nat /\ b < B BY <1>1, <1>2
  <2>2. c * B \in Nat BY <1>1
  <2>3. c * B + d = q * B + b BY <2>1, <2>2, <1>6, <1>7 DEF PackIdx
  <2> QED BY <2>1, <2>3, <1>1, <1>3, Digits
<1>8. k = PackIdx(0, q, b)
  <2>1. q * B \in Nat /\ b \in Nat BY <1>1, <1>2, <1>3
  <2> QED BY <2>1, <1>6 DEF PackIdx
<1> QED BY <1>1, <1>2, <1>3, <1>4, <1>7, <1>8 DEF q, b

\* The cell in place k of the list.
CellAt(k) == <<k \div BundleCount, k % BundleCount>>

\* If caches are in order, no padded cache comes before a real one.
LEMMA RealFirst ==
  ASSUME NEW r \in Receivers, CachesInOrder(r), NEW k \in Nat, CellAt(k + 1) \in Real(r)
  PROVE  CellAt(k) \in Real(r)
<1> DEFINE B == BundleCount
           c == k \div B
           b == k % B
           d == (k + 1) \div B
           e == (k + 1) % B
<1>1. /\ c \in Nat /\ b \in Bundles /\ k = PackIdx(0, c, b)
      /\ d \in Nat /\ e \in Bundles /\ k + 1 = PackIdx(0, d, e)
  BY Numbered
<1>2. CellAt(k) = <<c, b>> /\ CellAt(k + 1) = <<d, e>> BY DEF CellAt
<1> HIDE DEF c, b, d, e
<1>3. B \in Nat /\ B >= 1 /\ Bundles = 0..(B - 1) BY Sizes DEF Bundles
<1>4. \A x \in Bundles : Caches[r][x] \in Nat BY QueryAssumption
<1>5. d < Caches[r][e]
  <2>1. PICK t \in Real(r) : t = <<d, e>> BY <1>2
  <2>2. t[1] < Caches[r][t[2]] BY Places
  <2> QED BY <2>1, <2>2
<1>6. c < d \/ (c = d /\ b < e)
  <2>1. k = c * B + b /\ k + 1 = d * B + e /\ c * B \in Nat /\ d * B \in Nat
    <3>1. c * B \in Nat /\ d * B \in Nat BY <1>1, <1>3
    <3> QED BY <3>1, <1>1, <1>3 DEF PackIdx
  <2>2. b \in Nat /\ e \in Nat /\ b < B /\ e < B BY <1>1, <1>3
  <2>3. d < c => d * B + e < c * B + b BY <2>2, <1>1, <1>3, Digits
  <2>4. c = d => c * B = d * B OBVIOUS
  <2> QED BY <2>1, <2>2, <2>3, <2>4, <1>1
<1>7. c < Caches[r][b]
  <2>1. b \in Nat /\ e \in Nat /\ Caches[r][b] \in Nat /\ Caches[r][e] \in Nat
    BY <1>1, <1>3, <1>4
  <2>2. b < e => Caches[r][e] <= Caches[r][b] BY <1>1 DEF CachesInOrder
  <2>3. e < b => Caches[r][e] <= Caches[r][b] + 1 BY <1>1 DEF CachesInOrder
  <2>4. b = e => Caches[r][b] = Caches[r][e] OBVIOUS
  <2> QED BY <2>1, <2>2, <2>3, <2>4, <1>1, <1>5, <1>6
<1> QED BY <1>1, <1>2, <1>7, Places

Randoms == [mask : Int, item : Nat]

LEMMA RowIs ==
  ASSUME NEW mask \in Int
  PROVE  /\ Row(mask) \in Seq(Randoms) /\ Len(Row(mask)) = ItemsPerBundle
         /\ mask \in Nat => \A j \in 0..(ItemsPerBundle - 1) :
                              Row(mask)[j + 1] = [mask |-> mask, item |-> j]
<1> DEFINE n == ItemsPerBundle
           f == [j \in 1..n |-> [mask |-> mask, item |-> IF mask = AllOneBlock THEN 0 ELSE j - 1]]
<1>1. n \in Nat BY Sizes
<1>2. Row(mask) = f BY DEF Row
<1>3. \A j \in 1..n : f[j] \in Randoms
  <2> SUFFICES ASSUME NEW j \in 1..n PROVE f[j] \in Randoms OBVIOUS
  <2>1. (IF mask = AllOneBlock THEN 0 ELSE j - 1) \in Nat BY <1>1
  <2> QED BY <2>1 DEF Randoms
<1>4. f \in [1..n -> Randoms] BY <1>3
<1>5. mask \in Nat => \A j \in 0..(n - 1) : f[j + 1] = [mask |-> mask, item |-> j]
  <2> SUFFICES ASSUME mask \in Nat, NEW j \in 0..(n - 1)
               PROVE  f[j + 1] = [mask |-> mask, item |-> j]
    OBVIOUS
  <2>1. mask # AllOneBlock BY DEF AllOneBlock
  <2>2. j + 1 \in 1..n /\ (j + 1) - 1 = j BY <1>1
  <2> QED BY <2>1, <2>2
<1> HIDE DEF f, n
<1>6. f \in Seq(Randoms) /\ Len(f) = n BY <1>1, <1>4
<1> QED BY <1>2, <1>5, <1>6 DEF n

(* What RunQuery has drawn when its caches are in order: the mask of a     *)
(* package is in the package's place of the list, and in its cells of the  *)
(* matrix.                                                                 *)
LEMMA StockedUp ==
  ASSUME NEW r \in Receivers, CachesInOrder(r)
  PROVE  Stocked(r, AllDrawn(r, <<>>).rows, AllDrawn(r, <<>>).size)
<1> DEFINE B == BundleCount
           I == ItemsPerBundle
           n == AlphaMax(r) * B
           drawn == AllDrawn(r, <<>>)
<1>1. B \in Nat /\ I \in Nat /\ I >= 1 /\ AlphaMax(r) \in Nat BY Sizes, Places
<1>2. n \in Nat BY <1>1
<1>3. PICK g : /\ g[0] = [rows |-> <<>>, size |-> 0] /\ g[n] = drawn
               /\ \A k \in 0..(n - 1) : g[k + 1] = Draw(r, g[k], CellAt(k))
  <2>1. \E g : /\ g[0] = [rows |-> <<>>, size |-> 0] /\ g[n] = drawn
               /\ \A k \in 0..(n - 1) :
                    g[k + 1] = Draw(r, g[k], <<k \div BundleCount, k % BundleCount>>)
    BY <1>2, Drawing
  <2> HIDE DEF drawn, n
  <2> QED BY <2>1 DEF CellAt
<1> DEFINE Holds(x, i) == i < x.size /\ \A j \in 0..(I - 1) :
                                          x.rows[i * I + j + 1] = [mask |-> i, item |-> j]
           P(x, k) == /\ x.rows \in Seq(Randoms) /\ Len(x.rows) = k * I /\ x.size \in Nat
                      /\ \A i \in 0..(k - 1) : CellAt(i) \in Real(r) => Holds(x, i)
                      /\ (k # 0 => CellAt(k - 1) \in Real(r)) => x.size = k
           U == {k \in Nat : k <= n => P(g[k], k)}
<1>4. 0 \in U
  <2>1. <<>> \in Seq(Randoms) /\ Len(<<>>) = 0 * I BY <1>1
  <2>2. 0..(0 - 1) = {} OBVIOUS
  <2>3. P([rows |-> <<>>, size |-> 0], 0) BY <2>1, <2>2
  <2> HIDE DEF P
  <2> QED BY <2>3, <1>3
<1> HIDE DEF n, drawn
<1>5. ASSUME NEW k \in U PROVE k + 1 \in U
  <2>1. k \in Nat /\ k + 1 \in Nat /\ (k + 1) - 1 = k BY <1>5
  <2> SUFFICES ASSUME k + 1 <= n PROVE P(g[k + 1], k + 1) BY <2>1
  <2>2. k \in 0..(n - 1) /\ k <= n BY <1>2, <2>1
  <2>3. P(g[k], k) BY <1>5, <2>2
  <2>4. g[k + 1] = Draw(r, g[k], CellAt(k)) BY <1>3, <2>2
  <2> DEFINE x == g[k]
             y == g[k + 1]
             real == CellAt(k) \in Real(r)
             mask == IF real THEN x.size ELSE AllOneBlock
  <2>5. y.rows = x.rows \o Row(mask) /\ y.size = (IF real THEN x.size + 1 ELSE x.size)
    <3>1. CASE real
      <4>1. y = [rows |-> x.rows \o Row(x.size), size |-> x.size + 1] BY <2>4, <3>1 DEF Draw
      <4> HIDE DEF x, y
      <4> QED BY <3>1, <4>1
    <3>2. CASE ~real
      <4>1. y = [rows |-> x.rows \o Row(AllOneBlock), size |-> x.size] BY <2>4, <3>2 DEF Draw
      <4> HIDE DEF x, y
      <4> QED BY <3>2, <4>1
    <3> QED BY <3>1, <3>2
  <2>6. /\ x.rows \in Seq(Randoms) /\ Len(x.rows) = k * I /\ x.size \in Nat
        /\ \A i \in 0..(k - 1) : CellAt(i) \in Real(r) => Holds(x, i)
        /\ (k # 0 => CellAt(k - 1) \in Real(r)) => x.size = k
    BY <2>3
  <2> HIDE DEF x, y
  <2>7. mask \in Int BY <2>6 DEF AllOneBlock
  <2>8. real => x.size = k
    <3>1. real /\ k # 0 => CellAt(k - 1) \in Real(r)
      <4> SUFFICES ASSUME real, k # 0 PROVE CellAt(k - 1) \in Real(r) OBVIOUS
      <4>1. PICK z \in Nat : k = z + 1
        <5>1. k - 1 \in Nat /\ k = (k - 1) + 1 BY <2>1
        <5> QED BY <5>1
      <4>2. k - 1 = z BY <4>1
      <4>3. CellAt(z + 1) \in Real(r) BY <4>1
      <4>4. CellAt(z) \in Real(r) BY <4>3, RealFirst
      <4> QED BY <4>2, <4>4
    <3> QED BY <3>1, <2>6
  <2>9. /\ Row(mask) \in Seq(Randoms) /\ Len(Row(mask)) = I
        /\ real => \A j \in 0..(I - 1) : Row(mask)[j + 1] = [mask |-> k, item |-> j]
    <3>1. real => mask = k /\ k \in Nat BY <2>1, <2>8
    <3> HIDE DEF mask
    <3> QED BY <2>7, <3>1, RowIs
  <2> HIDE DEF mask
  <2>10. /\ y.rows \in Seq(Randoms) /\ Len(y.rows) = (k + 1) * I
         /\ \A i \in 1..(k * I) : y.rows[i] = x.rows[i]
         /\ \A i \in 1..I : y.rows[k * I + i] = Row(mask)[i]
    <3>1. k * I \in Nat /\ (k + 1) * I = k * I + I BY <1>1, <2>1
    <3> DEFINE s == x.rows
               t == Row(mask)
    <3>2. s \in Seq(Randoms) /\ t \in Seq(Randoms) /\ Len(s) = k * I /\ Len(t) = I
          /\ y.rows = s \o t
      BY <2>5, <2>6, <2>9
    <3> HIDE DEF s, t
    <3>3. s \o t \in Seq(Randoms) /\ Len(s \o t) = k * I + I BY <3>2, ConcatProperties
    <3>4. \A i \in 1..(k * I) : (s \o t)[i] = s[i] BY <3>1, <3>2, <1>1
    <3>5. \A i \in 1..I : (s \o t)[k * I + i] = t[i] BY <3>1, <3>2, <1>1
    <3> QED BY <3>1, <3>2, <3>3, <3>4, <3>5 DEF s, t
  <2>11. ASSUME NEW i \in 0..k, CellAt(i) \in Real(r) PROVE Holds(y, i)
    <3>1. CASE i = k
      <4>1. \A j \in 0..(I - 1) : /\ j + 1 \in 1..I /\ k * I + (j + 1) = k * I + j + 1
        <5>1. k * I \in Nat BY <1>1, <2>1
        <5> QED BY <5>1, <1>1
      <4>2. \A j \in 0..(I - 1) : y.rows[k * I + j + 1] = Row(mask)[j + 1] BY <4>1, <2>10
      <4>3. real BY <2>11, <3>1
      <4>4. \A j \in 0..(I - 1) : y.rows[k * I + j + 1] = [mask |-> k, item |-> j]
        BY <4>2, <4>3, <2>9
      <4>5. k < y.size BY <4>3, <2>1, <2>5, <2>8
      <4> QED BY <3>1, <4>4, <4>5
    <3>2. CASE i # k
      <4>1. i \in 0..(k - 1) BY <2>1, <3>2
      <4>2. Holds(x, i) BY <4>1, <2>6, <2>11
      <4>3. i < y.size BY <4>1, <4>2, <2>1, <2>5, <2>6
      <4>4. ASSUME NEW j \in 0..(I - 1) PROVE y.rows[i * I + j + 1] = x.rows[i * I + j + 1]
        <5>1. PICK z \in Nat : k = i + 1 + z
          <6>1. k - i - 1 \in Nat /\ k = i + 1 + (k - i - 1) BY <4>1, <2>1
          <6> QED BY <6>1
        <5>2. i \in Nat /\ i * I \in Nat /\ z * I \in Nat BY <4>1, <5>1, <1>1
        <5>3. k * I = i * I + I + z * I BY <5>1, <5>2, <1>1
        <5>4. i * I + j + 1 \in 1..(k * I)
          <6> DEFINE a == i * I
                     c == z * I
                     d == k * I
          <6>1. a \in Nat /\ c \in Nat /\ d = a + I + c BY <5>2, <5>3
          <6> HIDE DEF a, c, d
          <6>2. a + j + 1 \in 1..d BY <6>1, <1>1
          <6> QED BY <6>2 DEF a, d
        <5> QED BY <5>4, <2>10
      <4> QED BY <4>2, <4>3, <4>4
    <3> QED BY <3>1, <3>2
  <2>12. y.size \in Nat /\ (real => y.size = k + 1) BY <2>1, <2>5, <2>6, <2>8
  <2>13. P(y, k + 1)
    <3>1. 0..((k + 1) - 1) = 0..k BY <2>1
    <3>2. (k + 1 # 0 => CellAt((k + 1) - 1) \in Real(r)) => real BY <2>1
    <3> HIDE DEF Holds
    <3> QED BY <2>10, <2>11, <2>12, <3>1, <3>2
  <2> QED BY <2>13 DEF y
<1> HIDE DEF P
<1>6. U = Nat
  <2> HIDE DEF U
  <2>1. U \subseteq Nat BY DEF U
  <2> QED BY <2>1, <1>4, <1>5, InductionOnNat
<1>7. P(drawn, n)
  <2>1. n \in U /\ n <= n BY <1>2, <1>6
  <2>2. P(g[n], n) BY <2>1
  <2> QED BY <2>2, <1>3
<1>8. ASSUME NEW t \in Real(r)
      PROVE  /\ PackIdx(r, t[1], t[2]) < drawn.size
             /\ \A j \in 0..(I - 1) : drawn.rows[Spot(t[1], t[2], j) + 1]
                                        = [mask |-> PackIdx(r, t[1], t[2]), item |-> j]
  <2>1. t[1] \in Nat /\ t[1] < AlphaMax(r) /\ t[2] \in Bundles /\ t = <<t[1], t[2]>> BY Places
  <2>2. PICK c \in Nat, b \in Bundles : c = t[1] /\ b = t[2] BY <2>1
  <2>3. c < AlphaMax(r) /\ <<c, b>> \in Real(r) BY <2>1, <2>2
  <2> DEFINE k == PackIdx(0, c, b)
  <2>4. b \in Nat /\ b < B /\ c * B \in Nat BY <1>1 DEF Bundles
  <2>5. k = c * B + b /\ k \in Nat BY <2>4 DEF PackIdx
  <2>6. k < n
    <3>1. 0 < B /\ 0 \in Nat BY <2>4, <1>1
    <3>2. c * B + b < AlphaMax(r) * B + 0 BY <3>1, <2>3, <2>4, <1>1, Digits
    <3> QED BY <3>2, <2>5, <1>2 DEF n
  <2>7. CellAt(k) = <<c, b>>
    <3> HIDE DEF k
    <3>1. c = k \div BundleCount /\ b = k % BundleCount BY <2>5, Numbered DEF k
    <3> QED BY <3>1 DEF CellAt
  <2>8. Holds(drawn, k)
    <3>1. \A i \in 0..(n - 1) : CellAt(i) \in Real(r) => Holds(drawn, i) BY <1>7 DEF P
    <3>2. k \in 0..(n - 1) BY <2>5, <2>6, <1>2
    <3>3. CellAt(k) \in Real(r) BY <2>3, <2>7
    <3> HIDE DEF Holds, k
    <3> QED BY <3>1, <3>2, <3>3
  <2>9. PackIdx(r, t[1], t[2]) = k BY <2>2 DEF PackIdx
  <2>10. \A j \in 0..(I - 1) : Spot(t[1], t[2], j) = k * I + j BY <2>2, <2>5 DEF Spot
  <2> HIDE DEF k
  <2> QED BY <2>8, <2>9, <2>10
<1> QED BY <1>8 DEF Stocked, drawn

-----------------------------------------------------------------------------
(***************************************************************************)
(* Masks on their way: a message or a cell of a receiver that still serves *)
(* its query carries the mask of its own place, whoever moves it.          *)
(***************************************************************************)
LEMMA MarkedKeeps ==
  ASSUME IInv', Marked, \A s \in Receivers : Faithful(s)' => Faithful(s),
         \A s \in Receivers : Faithful(s)' => RightQueue(s, queue'[s]["sender"]),
         Faithful(current)' => \A w \in Holders' : RightPart(current', worker'[w].part),
         \A k \in DOMAIN matrix' : matrix'[k] # None /\ Faithful(matrix'[k].receiver) =>
                                     RightCell(matrix'[k]),
         ListsDrawn'
  PROVE  Marked'
<1>1. QueueMarked' BY DEF QueueMarked
<1>2. HoldersMarked' BY DEF HoldersMarked
<1>3. MatrixMarked'
  <2> SUFFICES ASSUME NEW k \in DOMAIN matrix', matrix'[k] # None, Faithful(matrix[k].receiver)'
               PROVE  RightCell(matrix'[k])
    BY DEF MatrixMarked
  <2>1. matrix'[k].receiver \in Receivers BY DEF IInv, Cells
  <2>2. PICK s \in Receivers : s = matrix'[k].receiver BY <2>1
  <2>3. Faithful(s)' BY <2>2 DEF Faithful
  <2>4. Faithful(s) BY <2>3
  <2>5. Faithful(matrix'[k].receiver) BY <2>2, <2>4
  <2> QED BY <2>5
<1> QED BY <1>1, <1>2, <1>3 DEF Marked

\* A step that draws no masks, moves no package and sends at most right ones.
LEMMA Undisturbed ==
  ASSUME IInv', Marked, UNCHANGED <<current, random_matrix, masks, matrix>>,
         \A s \in Receivers : /\ receiver'[s] \in Early => receiver[s] \in Early
                              /\ receiver'[s] \in Late => receiver[s] \in Late,
         \A s \in Receivers : queue'[s]["sender"] = queue[s]["sender"] \/
                              (Faithful(s)' => RightQueue(s, queue'[s]["sender"])),
         \A w \in Holders' : w \in Holders /\ worker'[w].part = worker[w].part,
         current \in Receivers
  PROVE  Marked'
<1>1. \A s \in Receivers : Faithful(s)' => Faithful(s) BY DEF Faithful
<1>2. \A s \in Receivers : Faithful(s)' => RightQueue(s, queue'[s]["sender"])
  BY <1>1 DEF Marked, QueueMarked
<1>3. Faithful(current)' => \A w \in Holders' : RightPart(current', worker'[w].part)
  <2>1. PICK c \in Receivers : c = current /\ c = current' OBVIOUS
  <2>2. Faithful(current)' => Faithful(c)' BY <2>1 DEF Faithful
  <2>3. Faithful(c) => \A w \in Holders : RightPart(c, worker[w].part)
    BY <2>1 DEF Marked, HoldersMarked
  <2> QED BY <2>1, <2>2, <2>3, <1>1
<1>4. \A k \in DOMAIN matrix' : matrix'[k] # None /\ Faithful(matrix'[k].receiver) =>
                                  RightCell(matrix'[k])
  BY DEF Marked, MatrixMarked
<1>5. ListsDrawn' BY DEF Marked, ListsDrawn
<1> QED BY <1>1, <1>2, <1>3, <1>4, <1>5, MarkedKeeps

LEMMA QueuesMove ==
  ASSUME NEW s \in Receivers, NEW q \in Seq(Mail), RightQueue(s, q)
  PROVE  /\ q # <<>> => RightQueue(s, Tail(q)) /\ RightMessage(s, Head(q))
         /\ \A msg \in Mail : RightMessage(s, msg) => RightQueue(s, Append(q, msg))
<1>1. q # <<>> => RightQueue(s, Tail(q)) /\ RightMessage(s, Head(q)) BY Taken DEF RightQueue
<1>2. ASSUME NEW msg \in Mail, RightMessage(s, msg) PROVE RightQueue(s, Append(q, msg))
  <2>1. /\ DOMAIN Append(q, msg) = DOMAIN q \cup {Len(q) + 1}
        /\ Append(q, msg)[Len(q) + 1] = msg
        /\ \A k \in DOMAIN q : Append(q, msg)[k] = q[k]
    BY Appended
  <2> QED BY <2>1, <1>2 DEF RightQueue
<1> QED BY <1>1, <1>2

\* Steps that send the sender nothing, or the response.
LEMMA OthersMark ==
  ASSUME IInv, IInv', Marked,
         \/ \E r \in Receivers : \/ Bind(r) \/ WriteMasks(r) \/ Exits(r) \/ Throws(r)
                                 \/ \E c \in Clients : \/ Drop(r, c) \/ DispatchParms(r, c)
                                                       \/ DispatchQuery(r, c)
         \/ \E r \in Askers : RequestParams(r) \/ GetParams(r)
         \/ Query \/ OprfThrows \/ GivesUp \/ UNCHANGED vars
  PROVE  Marked'
<1>1. UNCHANGED <<current, random_matrix, masks, matrix, worker>>
  BY DEF Bind, WriteMasks, Exits, Throws, Drop, DispatchParms, DispatchQuery, RequestParams,
         GetParams, Query, OprfThrows, GivesUp, vars, senderVars, receiverVars, chosen
<1>2. /\ receiver \in [Receivers -> Where] /\ current \in Receivers
      /\ queue \in [Receivers -> [Clients -> Seq(Mail)]]
  BY DEF IInv, Types, ReceiverTypes, SenderTypes, ChannelTypes
<1>3. \/ receiver' = receiver
      \/ \E r \in Receivers : \E x :
          /\ receiver' = [receiver EXCEPT ![r] = x]
          /\ x \in Early => receiver[r] \in Early
          /\ x \in Late => receiver[r] \in Late
  <2>1. CASE \E r \in Receivers : \E c \in Clients : Drop(r, c) \/ DispatchParms(r, c)
    BY <2>1 DEF Drop, DispatchParms, receiverVars
  <2>2. CASE \E r \in Askers : RequestParams(r) \/ GetParams(r)
    BY <2>2 DEF RequestParams, GetParams, receiverVars
  <2>3. CASE GivesUp \/ UNCHANGED vars BY <2>3 DEF GivesUp, vars, receiverVars
  <2>4. CASE \E r \in Receivers : Bind(r) \/ WriteMasks(r) \/ Throws(r) \/ Exits(r)
    BY <2>4 DEF Bind, WriteMasks, Throws, Exits, Early, Late
  <2>5. CASE \E r \in Receivers : \E c \in Clients : DispatchQuery(r, c)
    <3>1. PICK r \in Receivers, c \in Clients : DispatchQuery(r, c) BY <2>5
    <3>2. PICK x \in {"query", "unwound"} : receiver' = [receiver EXCEPT ![r] = x]
      BY <3>1 DEF DispatchQuery
    <3>3. receiver[r] = "listen" BY <3>1 DEF DispatchQuery, Polls
    <3> QED BY <3>2, <3>3 DEF Early, Late
  <2>6. CASE Query \/ OprfThrows BY <2>6, <1>2 DEF Query, OprfThrows, Early, Late
  <2> QED BY <2>1, <2>2, <2>3, <2>4, <2>5, <2>6
<1>4. \A s \in Receivers : /\ receiver'[s] \in Early => receiver[s] \in Early
                           /\ receiver'[s] \in Late => receiver[s] \in Late
  BY <1>2, <1>3
<1>5. \A s \in Receivers : queue'[s]["sender"] = queue[s]["sender"]
  <2>1. CASE \E r \in Receivers, c \in Clients : DispatchParms(r, c) BY <2>1, AnswersAsker
  <2>2. CASE \E r \in Askers : GetParams(r)
    <3>1. PICK r \in Receivers : queue' = [queue EXCEPT ![r]["asker"] = Tail(@)]
      BY <2>2, QueryAssumption DEF GetParams
    <3>2. "sender" \in Clients /\ "asker" # "sender" BY DEF Clients
    <3> QED BY <3>1, <3>2, <1>2
  <2>3. CASE \/ \E r \in Receivers : \/ Bind(r) \/ WriteMasks(r) \/ Exits(r) \/ Throws(r)
                                     \/ \E c \in Clients : Drop(r, c) \/ DispatchQuery(r, c)
             \/ \E r \in Askers : RequestParams(r)
             \/ Query \/ OprfThrows \/ GivesUp \/ UNCHANGED vars
    <3>1. queue' = queue
      BY <2>3 DEF Bind, WriteMasks, Exits, Throws, Drop, DispatchQuery, RequestParams, Query,
                  OprfThrows, GivesUp, vars
    <3> QED BY <3>1
  <2> QED BY <2>1, <2>2, <2>3
<1>6. \A w \in Holders' : w \in Holders /\ worker'[w].part = worker[w].part
  BY <1>1 DEF Holders
<1> QED BY <1>1, <1>2, <1>4, <1>5, <1>6, Undisturbed

\* A message to the sender that is right, if its receiver still serves the query.
LEMMA SendsRight ==
  ASSUME IInv, IInv', Marked, NEW r \in Receivers, NEW msg, NEW letter \in Mail,
         msg[1] = "sender", AtDealer(msg) = letter, Deliver(r, msg), Still,
         UNCHANGED <<requests, file, asker, random_matrix, masks>>,
         \A s \in Receivers : /\ receiver'[s] \in Early => receiver[s] \in Early
                              /\ receiver'[s] \in Late => receiver[s] \in Late,
         Faithful(r)' => RightMessage(r, letter)
  PROVE  Marked'
<1>1. ChannelTypes /\ Asking /\ current \in Receivers BY DEF IInv, Types, SenderTypes
<1>2. /\ queue[r]["sender"] \in Seq(Mail)
      /\ queue'[r]["sender"] = Append(queue[r]["sender"], letter)
      /\ \A s \in Receivers : s # r => queue'[s] = queue[s]
  BY <1>1, Sent
<1>3. Faithful(r)' => RightQueue(r, queue'[r]["sender"])
  <2>1. Faithful(r)' => RightQueue(r, queue[r]["sender"]) BY DEF Marked, QueueMarked, Faithful
  <2> QED BY <2>1, <1>2, QueuesMove
<1>4. \A s \in Receivers : queue'[s]["sender"] = queue[s]["sender"] \/
                           (Faithful(s)' => RightQueue(s, queue'[s]["sender"]))
  BY <1>2, <1>3
<1>5. \A w \in Holders' : w \in Holders /\ worker'[w].part = worker[w].part
  BY DEF Holders, Still
<1>6. UNCHANGED <<current, random_matrix, masks, matrix>> BY DEF Still
<1> QED BY <1>1, <1>4, <1>5, <1>6, Undisturbed

LEMMA RespondMarks ==
  ASSUME IInv, IInv', Marked, NEW r \in Receivers, Respond(r)
  PROVE  Marked'
<1> DEFINE msg == SendResponse("sender", "rop_query", QueryResponse(PackageCount(r), AlphaMax(r)))
<1>1. /\ Still /\ UNCHANGED <<masks, random_matrix, requests, file, asker>>
      /\ receiver[r] = "query" /\ receiver' = [receiver EXCEPT ![r] = "masks"]
      /\ Deliver(r, SendResponse(client[r], "rop_query",
                                 QueryResponse(PackageCount(r), AlphaMax(r))))
  BY DEF Respond, Still, senderVars, chosen
<1>2. client[r] = "sender"
  <2>1. ~Unanswered(r) /\ ~Finished(r) BY <1>1 DEF Unanswered, Finished
  <2>2. Answering(r) BY <2>1, <1>1, AtWork
  <2> QED BY <2>2 DEF Answering
<1>3. msg[1] = "sender" /\ AtDealer(msg) = Response(r) /\ Deliver(r, msg)
  BY <1>1, <1>2 DEF SendResponse, Response
<1> HIDE DEF msg
<1>4. \A s \in Receivers : /\ receiver'[s] \in Early => receiver[s] \in Early
                           /\ receiver'[s] \in Late => receiver[s] \in Late
  <2>1. receiver \in [Receivers -> Where] BY DEF IInv, Types, ReceiverTypes
  <2> QED BY <2>1, <1>1 DEF Early, Late
<1>5. Response(r) \in Mail /\ RightMessage(r, Response(r))
  BY ResponseRead DEF RightMessage, InvalidMessage
<1> QED BY <1>1, <1>3, <1>4, <1>5, SendsRight

LEMMA PackagesMark ==
  ASSUME IInv, IInv', Marked, NEW r \in Receivers, NEW t \in tasks[r],
         ProcessBinBundleCache(r, t) \/ StrayTask(r, t)
  PROVE  Marked'
<1> DEFINE idx == PackIdx(r, t[1], t[2])
<1>1. /\ Still /\ UNCHANGED <<receiver, client, masks, random_matrix, requests, file, asker>>
  BY DEF ProcessBinBundleCache, StrayTask, Still, senderVars, chosen
<1>2. t \in Real(r) /\ client[r] = "sender" BY AtWork DEF Answering
<1>3. idx \in Masks /\ Anything \in Masks
  <2>1. t[1] \in Nat /\ t[2] \in Nat /\ BundleCount \in Nat BY <1>2, Places, Sizes
  <2>2. t[1] * BundleCount \in Nat BY <2>1
  <2> QED BY <2>1, <2>2 DEF PackIdx, Masks, Anything
<1> HIDE DEF idx
<1>4. PICK m \in Masks : Deliver(r, Part(r, t, m)) /\ (Faithful(r) => m = idx)
  <2>1. CASE StrayTask(r, t)
    <3>1. ~Faithful(r) BY <2>1 DEF StrayTask, Faithful, Early, Late
    <3> QED BY <3>1, <2>1, <1>3 DEF StrayTask
  <2>2. CASE ProcessBinBundleCache(r, t)
    <3>1. receiver[r] \in Late BY <2>2 DEF ProcessBinBundleCache, Late
    <3>2. idx < masks[r] BY <3>1, <1>2 DEF Marked, ListsDrawn, Stocked, idx
    <3>3. Deliver(r, Part(r, t, IF idx < masks[r] THEN idx ELSE Anything))
      BY <2>2 DEF ProcessBinBundleCache, idx
    <3> QED BY <3>2, <3>3, <1>3
  <2> QED BY <2>1, <2>2
<1> DEFINE part == Package(r, t, m)
<1>5. <<part>> \in Mail /\ Part(r, t, m)[1] = "sender" /\ AtDealer(Part(r, t, m)) = <<part>>
  BY <1>2, PackageRead DEF Part, SendResult, AtDealer, Package
<1>6. Faithful(r)' => RightMessage(r, <<part>>)
  <2>1. Faithful(r)' => m = idx BY <1>1, <1>4 DEF Faithful
  <2>2. /\ part.cache_idx = t[1] /\ part.bundle_idx = t[2] /\ part.psu_result.mask = m
    BY DEF Package, ResultPackage
  <2>3. (<<part>>)[1] = part OBVIOUS
  <2> HIDE DEF part
  <2>4. m = idx => RightPart(r, part) BY <2>2 DEF RightPart, idx
  <2> QED BY <2>1, <2>3, <2>4 DEF RightMessage
<1> HIDE DEF part
<1>7. \A s \in Receivers : /\ receiver'[s] \in Early => receiver[s] \in Early
                           /\ receiver'[s] \in Late => receiver[s] \in Late
  BY <1>1
<1> QED BY <1>1, <1>4, <1>5, <1>6, <1>7, SendsRight

LEMMA DrawingMarks ==
  ASSUME IInv, IInv', Marked, NEW r \in Receivers, DrawMasks(r), CachesInOrder(r)
  PROVE  Marked'
<1>1. /\ Still /\ UNCHANGED <<client, requests, queue, file, asker>>
      /\ receiver[r] = "masks" /\ receiver' = [receiver EXCEPT ![r] = "process"]
      /\ masks' = [masks EXCEPT ![r] = AllDrawn(r, random_matrix[r]).size]
      /\ random_matrix' = [random_matrix EXCEPT ![r] = AllDrawn(r, random_matrix[r]).rows]
  BY DEF DrawMasks, Still, senderVars, chosen
<1>2. ReceiverTypes /\ current \in Receivers BY DEF IInv, Types, SenderTypes
<1>3. random_matrix[r] = <<>> BY <1>1 DEF Marked, ListsDrawn, Early
<1>4. /\ receiver'[r] = "process" /\ masks'[r] = AllDrawn(r, <<>>).size
      /\ random_matrix'[r] = AllDrawn(r, <<>>).rows
      /\ \A s \in Receivers : s # r => /\ receiver'[s] = receiver[s] /\ masks'[s] = masks[s]
                                       /\ random_matrix'[s] = random_matrix[s]
  BY <1>1, <1>2, <1>3 DEF ReceiverTypes
<1>5. ListsDrawn'
  <2>1. Stocked(r, random_matrix'[r], masks'[r]) BY <1>4, StockedUp
  <2>2. ASSUME NEW s \in Receivers
        PROVE  /\ receiver'[s] \in Early => random_matrix'[s] = <<>>
               /\ receiver'[s] \in Late => Stocked(s, random_matrix'[s], masks'[s])
    <3>1. CASE s = r BY <3>1, <2>1, <1>4 DEF Early
    <3>2. CASE s # r BY <3>2, <1>4 DEF Marked, ListsDrawn
    <3> QED BY <3>1, <3>2
  <2> QED BY <2>2 DEF ListsDrawn
<1>6. \A s \in Receivers : Faithful(s)' => Faithful(s) BY <1>1, <1>4 DEF Faithful, Early
<1>7. \A s \in Receivers : Faithful(s)' => RightQueue(s, queue'[s]["sender"])
  BY <1>1, <1>6 DEF Marked, QueueMarked
<1>8. Faithful(current)' => \A w \in Holders' : RightPart(current', worker'[w].part)
  <2>1. PICK c \in Receivers : c = current /\ c = current' BY <1>1, <1>2 DEF Still
  <2>2. Faithful(current)' => Faithful(c)' BY <2>1 DEF Faithful
  <2>3. Faithful(c) => \A w \in Holders : RightPart(c, worker[w].part)
    BY <2>1 DEF Marked, HoldersMarked
  <2>4. Holders' = Holders /\ worker' = worker BY <1>1 DEF Still, Holders
  <2> QED BY <2>1, <2>2, <2>3, <2>4, <1>6
<1>9. \A k \in DOMAIN matrix' : matrix'[k] # None /\ Faithful(matrix'[k].receiver) =>
                                  RightCell(matrix'[k])
  BY <1>1 DEF Marked, MatrixMarked, Still
<1> QED BY <1>5, <1>6, <1>7, <1>8, <1>9, MarkedKeeps

LEMMA CountingMarks ==
  ASSUME IInv, IInv', Marked, NEW w \in Workers, Load(w) \/ Claim(w)
  PROVE  Marked'
<1>1. UNCHANGED <<current, random_matrix, masks, matrix, receiver, queue>>
  BY DEF Load, Claim, receiverVars
<1>2. current \in Receivers BY DEF IInv, Types, SenderTypes
<1>3. PICK x : worker' = [worker EXCEPT ![w] = x] /\ x.at # "copy"
  BY DEF Load, Claim, IInv, Types, SenderTypes
<1>4. \A v \in Holders' : v \in Holders /\ worker'[v].part = worker[v].part
  BY <1>3, Moves DEF Holders
<1> QED BY <1>1, <1>2, <1>4, Undisturbed

\* The head of the channel to the sender is taken.
LEMMA TakesRight ==
  ASSUME IInv, Marked, NEW c \in Receivers, c = current, Arrived("sender") # <<>>,
         queue' = [queue EXCEPT ![current]["sender"] = Tail(@)], receiver' = receiver
  PROVE  /\ \A s \in Receivers : Faithful(s)' => Faithful(s)
         /\ \A s \in Receivers : Faithful(s)' => RightQueue(s, queue'[s]["sender"])
         /\ Faithful(c) => RightMessage(c, Head(queue[c]["sender"]))
<1>1. queue \in [Receivers -> [Clients -> Seq(Mail)]] /\ "sender" \in Clients
  BY DEF IInv, Types, ChannelTypes, Clients
<1>2. /\ queue'[c]["sender"] = Tail(queue[c]["sender"]) /\ queue[c]["sender"] # <<>>
      /\ \A s \in Receivers : s # c => queue'[s] = queue[s]
      /\ queue[c]["sender"] \in Seq(Mail)
  BY <1>1 DEF Arrived
<1>3. \A s \in Receivers : Faithful(s)' => Faithful(s) BY DEF Faithful
<1>4. \A s \in Receivers : Faithful(s) => RightQueue(s, queue[s]["sender"])
  BY DEF Marked, QueueMarked
<1>5. Faithful(c) => /\ RightQueue(c, Tail(queue[c]["sender"]))
                     /\ RightMessage(c, Head(queue[c]["sender"]))
  BY <1>2, <1>4, QueuesMove
<1>6. \A s \in Receivers : Faithful(s)' => RightQueue(s, queue'[s]["sender"])
  BY <1>2, <1>3, <1>4, <1>5
<1> QED BY <1>3, <1>5, <1>6

LEMMA ResponseMarks ==
  ASSUME IInv, IInv', Marked, ReceiveQueryResponse
  PROVE  Marked'
<1>1. PICK c \in Receivers : c = current BY DEF IInv, Types, SenderTypes
<1>2. /\ Arrived("sender") # <<>> /\ queue' = [queue EXCEPT ![current]["sender"] = Tail(@)]
      /\ UNCHANGED <<current, receiver, masks, random_matrix>> /\ sender = "response"
  BY DEF ReceiveQueryResponse, receiverVars
<1>3. /\ \A s \in Receivers : Faithful(s)' => Faithful(s)
      /\ \A s \in Receivers : Faithful(s)' => RightQueue(s, queue'[s]["sender"])
  BY <1>1, <1>2, TakesRight
<1>4. \/ UNCHANGED <<worker, matrix>>
      \/ /\ \A w \in Workers : worker'[w] \in {Idle, [Idle EXCEPT !.at = "load"]}
         /\ \E n : matrix' = Resize(matrix, n)
  BY DEF ReceiveQueryResponse
<1>5. Holders' = {}
  <2>1. \A w \in Workers : worker[w].at = "off" BY <1>2 DEF IInv, Crew
  <2> QED BY <2>1, <1>4 DEF Holders, Idle
<1>6. \A k \in DOMAIN matrix' : matrix'[k] # None => k \in DOMAIN matrix /\ matrix'[k] = matrix[k]
  BY <1>4 DEF Resize
<1>7. \A k \in DOMAIN matrix' : matrix'[k] # None /\ Faithful(matrix'[k].receiver) =>
                                  RightCell(matrix'[k])
  BY <1>6 DEF Marked, MatrixMarked
<1>8. ListsDrawn' BY <1>2 DEF Marked, ListsDrawn
<1> QED BY <1>3, <1>5, <1>7, <1>8, MarkedKeeps

LEMMA ReceivingMarks ==
  ASSUME IInv, IInv', Marked, NEW w \in Workers, ReceivePackage(w)
  PROVE  Marked'
<1>1. PICK c \in Receivers : c = current BY DEF IInv, Types, SenderTypes
<1> DEFINE q == queue[c]["sender"]
           rp == ReceiveResult(Head(q), <<parameters.context>>)
<1>2. /\ Arrived("sender") # <<>> /\ queue' = [queue EXCEPT ![current]["sender"] = Tail(@)]
      /\ UNCHANGED <<current, receiver, masks, random_matrix, matrix>> /\ c = current'
      /\ worker' = worker \/ worker' = [worker EXCEPT ![w].at = "copy", ![w].part = rp[1]]
      /\ worker[w].at = "receive" /\ q # <<>>
  BY <1>1 DEF ReceivePackage, Arrived, receiverVars
<1>3. /\ \A s \in Receivers : Faithful(s)' => Faithful(s)
      /\ \A s \in Receivers : Faithful(s)' => RightQueue(s, queue'[s]["sender"])
      /\ Faithful(c) => RightMessage(c, Head(q))
  BY <1>1, <1>2, TakesRight
<1>4. Faithful(c) => \A v \in Holders : RightPart(c, worker[v].part)
  BY <1>1 DEF Marked, HoldersMarked
<1>5. Faithful(c) => RightPart(c, rp[1])
  <2>1. Answering(c) /\ parameters = Parameters /\ sender = "join" BY <1>1, <1>2, AtWorkers
  <2>2. parameters.context = Context BY <2>1 DEF Parameters
  <2>3. Head(q) \in Packages(c)
    <3>1. q \in Seq(Mail) BY DEF IInv, Types, ChannelTypes, Clients
    <3>2. Head(q) = q[1] /\ 1 \in DOMAIN q BY <3>1, <1>2, Taken
    <3> QED BY <3>2, <2>1 DEF Answering
  <2>4. PICK t \in Real(c), m \in Masks : Head(q) = <<Package(c, t, m)>> BY <2>3 DEF Packages
  <2> DEFINE part == Package(c, t, m)
  <2>5. ReceiveResult(<<part>>, <<Context>>) = <<part>> BY PackageRead
  <2> HIDE DEF part
  <2>6. rp = <<part>> BY <2>2, <2>4, <2>5 DEF part
  <2> HIDE DEF rp, q
  <2>7. rp[1] = part BY <2>6
  <2>8. Len(<<part>>) = 1 /\ (<<part>>)[1] = part OBVIOUS
  <2>9. Head(q) = <<part>> BY <2>4 DEF part
  <2>10. Faithful(c) => RightMessage(c, <<part>>) BY <2>9, <1>3
  <2> QED BY <2>7, <2>8, <2>10 DEF RightMessage
<1> HIDE DEF rp, q
<1>6. Faithful(current)' => \A v \in Holders' : RightPart(current', worker'[v].part)
  <2>1. Faithful(current)' => Faithful(c) BY <1>2, <1>3 DEF Faithful
  <2>2. CASE worker' = worker BY <2>1, <2>2, <1>2, <1>4 DEF Holders
  <2>3. CASE worker' = [worker EXCEPT ![w].at = "copy", ![w].part = rp[1]]
    <3>1. worker \in [Workers -> [at : Stages, count : Nat, part : Parts]]
      BY DEF IInv, Types, SenderTypes
    <3>2. /\ worker'[w].part = rp[1] /\ \A v \in Workers : v # w => worker'[v] = worker[v]
      BY <2>3, <3>1
    <3>3. \A v \in Holders' : v # w => v \in Holders BY <3>2 DEF Holders
    <3>4. Holders' \subseteq Workers BY DEF Holders
    <3>5. ASSUME Faithful(c), NEW v \in Holders' PROVE RightPart(c, worker'[v].part)
      <4>1. CASE v = w BY <4>1, <3>2, <3>5, <1>5
      <4>2. CASE v # w BY <4>2, <3>2, <3>3, <3>4, <3>5, <1>4
      <4> QED BY <4>1, <4>2
    <3> QED BY <3>5, <2>1, <1>2
  <2> QED BY <2>2, <2>3, <1>2
<1>7. \A k \in DOMAIN matrix' : matrix'[k] # None /\ Faithful(matrix'[k].receiver) =>
                                  RightCell(matrix'[k])
  BY <1>2 DEF Marked, MatrixMarked
<1>8. ListsDrawn' BY <1>2 DEF Marked, ListsDrawn
<1> QED BY <1>3, <1>6, <1>7, <1>8, MarkedKeeps

LEMMA CopyMarks ==
  ASSUME IInv, IInv', Marked, NEW w \in Workers, Copy(w)
  PROVE  Marked'
<1>1. PICK c \in Receivers : c = current BY DEF IInv, Types, SenderTypes
<1> DEFINE part == worker[w].part
           plain == Extract(part).psu_result
           first == Offset(current, part.cache_idx, part.bundle_idx)
<1>2. /\ worker[w].at = "copy" /\ c = current'
      /\ matrix' = [k \in DOMAIN matrix |->
              IF k \in first..(first + ItemsPerBundle - 1)
              THEN [receiver |-> plain.receiver, cache |-> part.cache_idx,
                    bundle |-> part.bundle_idx, mask |-> plain.mask, item |-> k - first]
              ELSE matrix[k]]
      /\ worker' = [worker EXCEPT ![w] = [Idle EXCEPT !.at = "load"]]
      /\ UNCHANGED <<current, receiver, masks, random_matrix, queue>>
  BY <1>1 DEF Copy, receiverVars
<1>3. \A s \in Receivers : Faithful(s)' => Faithful(s) BY <1>2 DEF Faithful
<1>4. \A s \in Receivers : Faithful(s)' => RightQueue(s, queue'[s]["sender"])
  BY <1>2, <1>3 DEF Marked, QueueMarked
<1>5. Faithful(c) => \A v \in Holders : RightPart(c, worker[v].part)
  BY <1>1 DEF Marked, HoldersMarked
<1>6. Faithful(current)' => \A v \in Holders' : RightPart(current', worker'[v].part)
  <2>1. Faithful(current)' => Faithful(c) BY <1>2, <1>3 DEF Faithful
  <2>2. \A v \in Holders' : v \in Holders /\ worker'[v] = worker[v]
    <3>1. [Idle EXCEPT !.at = "load"].at # "copy" BY DEF Idle
    <3> QED BY <3>1, <1>2, Moves DEF Holders
  <2> QED BY <2>1, <2>2, <1>2, <1>5
<1>7. plain.receiver = c /\ plain.mask = part.psu_result.mask
  <2>1. <<part>> \in Packages(c) BY <1>1, <1>2 DEF IInv, Crew
  <2>2. PICK t \in Real(c), m \in Masks : <<part>> = <<Package(c, t, m)>> BY <2>1 DEF Packages
  <2>3. part = Package(c, t, m) BY <2>2
  <2>4. Extract(Package(c, t, m)).psu_result = [receiver |-> c, mask |-> m] BY PackageRead
  <2>5. plain = part.psu_result BY DEF Extract
  <2> HIDE DEF part
  <2> QED BY <2>3, <2>4, <2>5
<1>8. Faithful(c) => RightPart(c, part) BY <1>2, <1>5 DEF Holders
<1> HIDE DEF part, plain, first
<1>9. ASSUME NEW k \in DOMAIN matrix', matrix'[k] # None, Faithful(matrix'[k].receiver)
      PROVE  RightCell(matrix'[k])
  <2>1. CASE k \in first..(first + ItemsPerBundle - 1)
    <3> DEFINE x == matrix'[k]
    <3>1. x = [receiver |-> plain.receiver, cache |-> part.cache_idx,
               bundle |-> part.bundle_idx, mask |-> plain.mask, item |-> k - first]
      BY <2>1, <1>2
    <3> HIDE DEF x
    <3>2. /\ x.receiver = c /\ x.cache = part.cache_idx /\ x.bundle = part.bundle_idx
          /\ x.mask = part.psu_result.mask
      BY <3>1, <1>7
    <3>3. Faithful(c) BY <3>2, <1>9 DEF x
    <3>4. part.psu_result.mask = PackIdx(c, part.cache_idx, part.bundle_idx)
      BY <3>3, <1>8 DEF RightPart
    <3>5. x.mask = PackIdx(x.receiver, x.cache, x.bundle) BY <3>2, <3>4
    <3> QED BY <3>5 DEF RightCell, x
  <2>2. CASE k \notin first..(first + ItemsPerBundle - 1)
    <3>1. k \in DOMAIN matrix /\ matrix'[k] = matrix[k] BY <2>2, <1>2
    <3> QED BY <3>1, <1>9 DEF Marked, MatrixMarked
  <2> QED BY <2>1, <2>2
<1>10. ListsDrawn' BY <1>2 DEF Marked, ListsDrawn
<1> QED BY <1>3, <1>4, <1>6, <1>9, <1>10, MarkedKeeps

LEMMA WritingMarks ==
  ASSUME IInv, IInv', Marked, WriteResults
  PROVE  Marked'
<1>1. PICK c \in Receivers : c = current BY DEF IInv, Types, SenderTypes
<1>2. /\ UNCHANGED <<receiver, masks, random_matrix, matrix, worker, queue>>
      /\ sender = "join" /\ Joined
  BY DEF WriteResults, receiverVars
<1>3. Holders' = {}
  <2>1. Holders = {} BY <1>1, <1>2, AllStored
  <2> QED BY <2>1, <1>2 DEF Holders
<1>4. \A s \in Receivers : Faithful(s)' => Faithful(s) BY <1>2 DEF Faithful
<1>5. \A s \in Receivers : Faithful(s)' => RightQueue(s, queue'[s]["sender"])
  BY <1>2, <1>4 DEF Marked, QueueMarked
<1>6. \A k \in DOMAIN matrix' : matrix'[k] # None /\ Faithful(matrix'[k].receiver) =>
                                  RightCell(matrix'[k])
  BY <1>2 DEF Marked, MatrixMarked
<1>7. ListsDrawn' BY <1>2 DEF Marked, ListsDrawn
<1> QED BY <1>3, <1>4, <1>5, <1>6, <1>7, MarkedKeeps

LEMMA MarksStart == Init => Marked
<1> SUFFICES ASSUME Init PROVE Marked OBVIOUS
<1>1. \A r \in Receivers : receiver[r] = "oprf" /\ random_matrix[r] = <<>> BY DEF Init
<1>2. QueueMarked
  <2>1. \A r \in Receivers : DOMAIN queue[r]["sender"] = {}
    <3>1. \A r \in Receivers : queue[r]["sender"] = <<>> BY DEF Init, Clients
    <3> QED BY <3>1
  <2> QED BY <2>1 DEF QueueMarked, RightQueue
<1>3. HoldersMarked BY DEF Init, HoldersMarked, Holders, Idle
<1>4. MatrixMarked
  <2>1. DOMAIN matrix = {} BY DEF Init
  <2> QED BY <2>1 DEF MatrixMarked
<1>5. ListsDrawn BY <1>1 DEF ListsDrawn, Early, Late
<1> QED BY <1>2, <1>3, <1>4, <1>5 DEF Marked

LEMMA MarksStep ==
  ASSUME \A r \in Receivers : CachesInOrder(r), IInv, IInv', Marked, [Next]_vars
  PROVE  Marked'
<1>1. ASSUME NEW r \in Receivers, Receiver(r) \/ Fault(r) PROVE Marked'
  <2>1. CASE Dispatcher(r) \/ WriteMasks(r) \/ Exits(r) \/ Throws(r)
    BY <2>1, OthersMark DEF Dispatcher
  <2>2. CASE Respond(r) BY <2>2, RespondMarks
  <2>3. CASE DrawMasks(r) BY <2>3, DrawingMarks
  <2>4. CASE \E t \in tasks[r] : ProcessBinBundleCache(r, t) \/ StrayTask(r, t)
    BY <2>4, PackagesMark
  <2> QED BY <1>1, <2>1, <2>2, <2>3, <2>4 DEF Receiver, Fault
<1>2. ASSUME NEW w \in Workers, Worker(w) PROVE Marked'
  BY <1>2, CountingMarks, ReceivingMarks, CopyMarks DEF Worker
<1>3. CASE SenderMain BY <1>3, OthersMark, ResponseMarks, WritingMarks DEF SenderMain
<1>4. CASE \E r \in Askers : RequestParams(r) \/ GetParams(r) BY <1>4, OthersMark
<1>5. CASE UNCHANGED vars BY <1>5, OthersMark
<1> QED BY <1>1, <1>2, <1>3, <1>4, <1>5 DEF Next

-----------------------------------------------------------------------------
(***************************************************************************)
(* The theorems.                                                           *)
(***************************************************************************)
LEMMA Stutter ==
  ASSUME IInv, UNCHANGED vars
  PROVE  IInv'
<1>1. /\ Still /\ UNCHANGED <<receiver, client, masks, random_matrix, tasks>>
      /\ UNCHANGED <<requests, queue, file, asker>>
  BY DEF vars, senderVars, receiverVars, chosen, Still
<1>2. Types /\ Asking /\ Ledger BY DEF IInv
<1>3. \A s \in Receivers : Same(s) BY <1>1 DEF Same
<1>4. PICK r \in Receivers : r = current BY <1>2 DEF Types, SenderTypes
<1>5. ReceiverTypes' BY <1>1, <1>2 DEF Types, ReceiverTypes
<1>6. ParmsMsg' = ParmsMsg /\ Letters' = Letters BY <1>1, StillKeeps
<1>7. ChannelTypes' /\ Asking' BY <1>1, <1>2, <1>6 DEF Types, ChannelTypes, Asking
<1>8. /\ Finished(r) => Finished(r)'
      /\ Unanswered(r) => Unanswered(r)'
      /\ Answering(r) => Answering(r)'
      /\ Queued(r)' = Queued(r)
  BY <1>1, <1>3, SameKeeps DEF Still
<1>9. /\ (tasks'[r] \cup Queued(r)') \cap (Held \cup Stored) = {}
      /\ receiver'[r] = "masks" => Held = {} /\ Stored = {}
  BY <1>1, <1>2, <1>4, <1>8 DEF Ledger
<1> QED BY <1>1, <1>3, <1>5, <1>7, <1>8, <1>9, ReceiverKeeps

LEMMA Step == IInv /\ [Next]_vars => IInv'
<1> SUFFICES ASSUME IInv, [Next]_vars PROVE IInv' OBVIOUS
<1>1. ASSUME NEW r \in Receivers, Receiver(r) \/ Fault(r) PROVE IInv'
  <2>1. CASE Dispatcher(r)
    BY <2>1, BindStep, DropStep, DispatchParmsStep, DispatchQueryStep DEF Dispatcher
  <2>2. CASE Respond(r) BY <2>2, RespondStep
  <2>3. CASE DrawMasks(r) BY <2>3, DrawMasksStep
  <2>4. CASE WriteMasks(r) BY <2>4, WriteMasksStep
  <2>5. CASE Exits(r) BY <2>5, ExitsStep
  <2>6. CASE Throws(r) BY <2>6, ThrowsStep
  <2>7. CASE \E t \in tasks[r] : ProcessBinBundleCache(r, t) \/ StrayTask(r, t)
    BY <2>7, PackageSteps
  <2> QED BY <1>1, <2>1, <2>2, <2>3, <2>4, <2>5, <2>6, <2>7 DEF Receiver, Fault
<1>2. ASSUME NEW w \in Workers, Worker(w) PROVE IInv'
  BY <1>2, LoadStep, ClaimStep, ReceivePackageStep, CopyStep DEF Worker
<1>3. CASE SenderMain
  BY <1>3, QueryStep, OprfThrowsStep, ReceiveQueryResponseStep, WriteResultsStep, GivesUpStep
  DEF SenderMain
<1>4. CASE \E r \in Askers : RequestParams(r) \/ GetParams(r) BY <1>4, AskerSteps
<1>5. CASE UNCHANGED vars BY <1>5, Stutter
<1> QED BY <1>1, <1>2, <1>3, <1>4, <1>5 DEF Next

(* What holds in every state of the exchange: where the sender is says     *)
(* where each receiver is and what is in its channel, and of the receiver  *)
(* being asked every package is either not yet sent, in the channel, with  *)
(* one worker, or in the matrix, as many as the counter and the workers    *)
(* that wait leave.                                                        *)
THEOREM Inductive == Spec => []IInv
<1>1. Init => IInv BY Start
<1>2. IInv /\ [Next]_vars => IInv' BY Step
<1> QED BY <1>1, <1>2, PTL DEF Spec

(* Every variable keeps its type, and what is left to send for a receiver  *)
(* are packages of its caches.                                             *)
THEOREM TypeCorrect == Spec => []TypeOK
<1>1. IInv => TypeOK
  <2> SUFFICES ASSUME IInv PROVE TypeOK OBVIOUS
  <2>1. SenderTypes /\ ReceiverTypes BY DEF IInv, Types
  <2>2. \A w \in Workers : worker[w].at \in Stages /\ worker[w].count \in Nat
    BY <2>1 DEF SenderTypes
  <2>3. \A r \in Receivers : tasks[r] \subseteq Real(r)
    <3>1. ASSUME NEW r \in Receivers PROVE tasks[r] \subseteq Real(r)
      <4>1. tasks[r] = {} \/ Answering(r) BY AtWork
      <4> QED BY <4>1 DEF Answering
    <3> QED BY <3>1
  <2> QED BY <2>1, <2>2, <2>3 DEF TypeOK, SenderTypes, ReceiverTypes, Stages, Where
<1> QED BY <1>1, Inductive, PTL

(* Whatever is in a client's queue is what that client waits for: for any  *)
(* number of receivers, caches, workers and other clients, and whatever    *)
(* goes wrong, no receive of the sender throws or drops a message, a       *)
(* dispatcher of other parameters sends it nothing, and a client that asks *)
(* for parameters gets nothing else.                                       *)
THEOREM Awaited == Spec => []AnswersAreAwaited
<1>1. IInv => AnswersAreAwaited
  <2> SUFFICES ASSUME IInv, NEW r \in Receivers
               PROVE  /\ \A k \in DOMAIN queue[r]["asker"] :
                          LET response == ReceiveResponse(queue[r]["asker"][k],
                                                          apsu_serialization_version)
                          IN  response # nullptr /\ response[1] = ParmsResponse(Parameters)
                      /\ \A k \in DOMAIN queue[r]["sender"] :
                          LET msg == queue[r]["sender"][k]
                          IN  /\ parameters = Parameters
                              /\ sender # "threw"
                              /\ IF k = 1 /\ r = current /\ sender = "response"
                                 THEN /\ ~InvalidMessage(msg, 2)
                                      /\ ToResponse(ReceiveResponse(msg, parameters.version),
                                                    "rop_query") # nullptr
                                 ELSE /\ ~InvalidMessage(msg, 1)
                                      /\ ReceiveResult(msg, <<parameters.context>>) # nullptr
    BY DEF AnswersAreAwaited
  <2>1. ASSUME NEW k \in DOMAIN queue[r]["asker"]
        PROVE  /\ ReceiveResponse(queue[r]["asker"][k], apsu_serialization_version) # nullptr
               /\ ReceiveResponse(queue[r]["asker"][k], apsu_serialization_version)[1]
                    = ParmsResponse(Parameters)
    <3>1. queue[r]["asker"][k] = Answer BY OneKind DEF IInv, Asking
    <3>2. ReceiveResponse(Answer, apsu_serialization_version) = <<ParmsResponse(Parameters)>>
      BY AnswerRead
    <3> QED BY <3>1, <3>2 DEF nullptr
  <2>2. ASSUME NEW k \in DOMAIN queue[r]["sender"]
        PROVE  /\ parameters = Parameters /\ sender # "threw"
               /\ IF k = 1 /\ r = current /\ sender = "response"
                  THEN /\ ~InvalidMessage(queue[r]["sender"][k], 2)
                       /\ ToResponse(ReceiveResponse(queue[r]["sender"][k], parameters.version),
                                     "rop_query") # nullptr
                  ELSE /\ ~InvalidMessage(queue[r]["sender"][k], 1)
                       /\ ReceiveResult(queue[r]["sender"][k], <<parameters.context>>) # nullptr
    <3> DEFINE msg == queue[r]["sender"][k]
    <3>1. queue[r]["sender"] # <<>> BY <2>2
    <3>2. r = current /\ sender \in {"response", "join"} /\ Answering(r)
      <4>1. Phases /\ r \in Nat /\ current \in Nat BY Sizes DEF IInv, Types, SenderTypes
      <4> QED BY <3>1, <4>1 DEF Phases, Finished, Untouched, Unanswered, Quiet, IInv, Types, SenderTypes
    <3>3. parameters = Parameters
          /\ IF k = 1 /\ sender = "response" THEN msg = Response(r) ELSE msg \in Packages(r)
      BY <3>2, <2>2 DEF Answering
    <3> HIDE DEF msg
    <3>4. parameters.version = apsu_serialization_version /\ parameters.context = Context
      BY <3>3 DEF Parameters
    <3>5. msg = Response(r) =>
            /\ ~InvalidMessage(msg, 2)
            /\ ToResponse(ReceiveResponse(msg, parameters.version), "rop_query") # nullptr
      <4>1. /\ ~InvalidMessage(Response(r), 2)
            /\ ToResponse(ReceiveResponse(Response(r), apsu_serialization_version), "rop_query")
                 = <<QueryResponse(PackageCount(r), AlphaMax(r))>>
        BY ResponseRead
      <4>2. <<QueryResponse(PackageCount(r), AlphaMax(r))>> # nullptr BY DEF nullptr
      <4> QED BY <4>1, <4>2, <3>4
    <3>6. msg \in Packages(r) =>
            ~InvalidMessage(msg, 1) /\ ReceiveResult(msg, <<parameters.context>>) # nullptr
      <4> SUFFICES ASSUME msg \in Packages(r)
                   PROVE  ~InvalidMessage(msg, 1) /\ ReceiveResult(msg, <<Context>>) # nullptr
        BY <3>4
      <4>1. PICK t \in Real(r), m \in Masks : msg = <<Package(r, t, m)>> BY DEF Packages
      <4>2. /\ ~InvalidMessage(<<Package(r, t, m)>>, 1)
            /\ ReceiveResult(<<Package(r, t, m)>>, <<Context>>) = <<Package(r, t, m)>>
        BY PackageRead
      <4>3. <<Package(r, t, m)>> # nullptr BY DEF nullptr
      <4> QED BY <4>1, <4>2, <4>3
    <3> QED BY <3>2, <3>3, <3>5, <3>6 DEF msg
  <2> QED BY <2>1, <2>2
<1> QED BY <1>1, Inductive, PTL

(* The matrix the sender writes for a receiver holds every package of it,  *)
(* each in the cells of its cache and bundle and nowhere else, for every   *)
(* interleaving of the workers and every order of the packages, and the    *)
(* channel of that receiver is then empty.                                 *)
THEOREM FileComplete == Spec => []SenderFileComplete
<1>1. IInv => SenderFileComplete
  <2> SUFFICES ASSUME IInv, NEW r \in Receivers, file[<<"sender", r>>] # None
               PROVE  queue[r]["sender"] = <<>> /\ Complete(file[<<"sender", r>>], r)
    BY DEF SenderFileComplete, Complete, Spot
  <2>1. Phases /\ Written BY DEF IInv
  <2>2. Complete(file[<<"sender", r>>], r) /\ (r < current \/ (r = current /\ sender = "returned"))
    BY <2>1 DEF Written
  <2>3. Finished(r) BY <2>1, <2>2 DEF Phases
  <2> QED BY <2>2, <2>3 DEF Finished, Quiet
<1> QED BY <1>1, Inductive, PTL

(* If in every receiver's database no padded cache comes before a real one,*)
(* whatever the sender holds in a cell is masked with the mask its receiver*)
(* stores for that cell, for every interleaving of tasks and workers and   *)
(* every trouble: a receiver that threw no longer counts, but what the     *)
(* sender kept of the others stays right.                                  *)
THEOREM MasksAgree == (\A r \in Receivers : CachesInOrder(r)) => (Spec => []MasksMatch)
<1> SUFFICES ASSUME \A r \in Receivers : CachesInOrder(r) PROVE Spec => []MasksMatch OBVIOUS
<1>1. Init => Marked BY MarksStart
<1>2. IInv /\ IInv' /\ Marked /\ [Next]_vars => Marked' BY MarksStep
<1>3. IInv /\ Marked => MasksMatch
  <2> SUFFICES ASSUME IInv, Marked, NEW k \in DOMAIN matrix, matrix[k] # None,
                      receiver[matrix[k].receiver] \in {"process", "returned"}
               PROVE  random_matrix[matrix[k].receiver][k + 1]
                        = [mask |-> matrix[k].mask, item |-> matrix[k].item]
    BY DEF MasksMatch
  <2> DEFINE x == matrix[k]
  <2>1. /\ x.receiver \in Receivers /\ <<x.cache, x.bundle>> \in Real(x.receiver)
        /\ x.item \in 0..(ItemsPerBundle - 1) /\ k = Spot(x.cache, x.bundle, x.item)
    BY DEF IInv, Cells
  <2>2. receiver[x.receiver] \in Late BY DEF Late
  <2>3. RightCell(x) BY <2>2 DEF Marked, MatrixMarked, Faithful
  <2>4. Stocked(x.receiver, random_matrix[x.receiver], masks[x.receiver])
    BY <2>1, <2>2 DEF Marked, ListsDrawn
  <2> HIDE DEF x
  <2>5. PICK r \in Receivers : r = x.receiver BY <2>1
  <2>6. PICK t \in Real(r) : t = <<x.cache, x.bundle>> BY <2>1, <2>5
  <2>7. t[1] = x.cache /\ t[2] = x.bundle BY <2>6
  <2>8. random_matrix[r][Spot(t[1], t[2], x.item) + 1]
          = [mask |-> PackIdx(r, t[1], t[2]), item |-> x.item]
    BY <2>1, <2>4, <2>5 DEF Stocked
  <2>9. x.mask = PackIdx(r, t[1], t[2]) BY <2>3, <2>5, <2>7 DEF RightCell
  <2>10. random_matrix[r][k + 1] = [mask |-> x.mask, item |-> x.item]
    BY <2>1, <2>7, <2>8, <2>9
  <2> QED BY <2>5, <2>10 DEF x
<1> QED BY <1>1, <1>2, <1>3, Inductive, PTL DEF Spec
=============================================================================
