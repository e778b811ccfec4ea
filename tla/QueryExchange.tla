---------------------------- MODULE QueryExchange ----------------------------
(***************************************************************************)
(* The first stage of uMCRG: the sender asks one receiver after the other  *)
(* for the masked evaluation of its encrypted query                        *)
(* (Sender::request_query, sender/apsu/sender_ddh.cpp); the dispatcher of  *)
(* a receiver takes the query from its socket                              *)
(* (ZMQReceiverDispatcher::run, receiver/apsu/zmq), checks it              *)
(* (Query::Query, receiver/apsu/query.cpp) and answers with the number of  *)
(* packages and then with one package for each bin bundle cache, sent by   *)
(* pool tasks in any order (Receiver::RunQuery, receiver_ddh.cpp).  The    *)
(* sender's workers put each package in its place of a matrix, and both    *)
(* sides write their matrix for the second stage, which compares them cell *)
(* by cell.  Other clients may ask a dispatcher for its parameters         *)
(* (Sender::RequestParams) at any time.                                    *)
(*                                                                         *)
(* A mask is the place in random_plain_list it was stored at.  The sender  *)
(* decrypts a cell to the mask if its item is in the cache and to something*)
(* else if not; a cell of the model is the receiver, the cell and the mask *)
(* that went into it, which says both.  A receiver's socket keeps a FIFO   *)
(* queue in each direction for every client.                               *)
(***************************************************************************)
EXTENDS ZMQChannel, CsvFiles, FiniteSetsExt

CONSTANTS
    Receivers,      \* 1..total_parties - 1, in the order they are asked
    BundleCount,    \* bundle_idx_count
    ItemsPerBundle, \* items_per_bundle
    QueryPowers,    \* query_powers
    Context,        \* the SEALContext of the receivers' parameters
    SenderParameters,  \* the parameters the sender may have been given
    Caches,         \* receiver -> bundle index -> its bin bundle caches
    Threads,        \* ThreadPoolMgr::GetThreadCount() at the sender
    Askers,         \* the receivers somebody asks for their parameters
    Troubles        \* what may go wrong: which receivers may throw in run(),
                    \* which result files do not open, what receivers are given

Bundles == 0..(BundleCount - 1)
Workers == 1..Threads
Files == {"sender", "receiver"} \X Receivers
Clients == {"sender", "asker"}

\* What the receivers were given: parameters and version of the program.
Parameters ==
    [version |-> apsu_serialization_version, context |-> Context, powers |-> QueryPowers,
     bundles |-> BundleCount]

(* The files a receiver is given: its csv file, <<>> or the one sequence of *)
(* its lines, and whether there is a parameter file it can use.            *)
Given == [csv : Seq(Seq(Line)), params : BOOLEAN]

ASSUME QueryAssumption ==
    /\ IsFiniteSet(Receivers) /\ Receivers # {} /\ Receivers = 1..Cardinality(Receivers)
    /\ BundleCount \in Nat \ {0} /\ ItemsPerBundle \in Nat \ {0} /\ Threads \in Nat \ {0}
    /\ Caches \in [Receivers -> [Bundles -> Nat]] /\ Askers \subseteq Receivers
    /\ Troubles \subseteq [faulty : SUBSET Receivers, unopenable : SUBSET Files,
                           given : [Receivers -> Given]]

(* What PSUParams guarantees: there are powers, and bundles.               *)
ASSUME ParametersAssumption ==
    /\ IsFiniteSet(QueryPowers) /\ QueryPowers # {}
    /\ \A p \in SenderParameters :
        /\ p = [version |-> p.version, context |-> p.context, powers |-> p.powers,
                bundles |-> p.bundles]
        /\ IsFiniteSet(p.powers) /\ p.bundles \in Nat \ {0}

VARIABLES
    parameters,     \* the sender's
    asker,          \* where RequestParams is, for each asked receiver
    sender,         \* where request_query is
    current,        \* its loop variable i
    package_count,  \* packages nobody has claimed
    matrix,         \* decrypt_randoms_matrix: never cleared, only resized
    worker,         \* process_result_worker: stage, count it loaded, package
    receiver,       \* where each receiver's run() is
    client,         \* the client_id of the query it works on
    random_matrix,
    masks,          \* random_plain_list.size()
    tasks,          \* packages not yet sent
    requests,       \* messages on the way to each receiver, by client
    queue,          \* messages on the way from each receiver, by client
    file,           \* the result files
    trouble

chosen == <<parameters, trouble>>
senderVars == <<sender, current, package_count, matrix, worker>>
receiverVars == <<receiver, client, random_matrix, masks, tasks>>
vars == <<senderVars, receiverVars, asker, requests, queue, file, chosen>>

None == <<>>
AllOneBlock == -1        \* no mask: the cell of a padded cache
Anything == -2           \* what a read of foreign memory yields
Idle == [at |-> "off", count |-> 0, part |-> None]

-----------------------------------------------------------------------------
(* The bundles' caches, the width of the matrix and the place of a cell.   *)
AlphaMax(r) == Max({Caches[r][b] : b \in Bundles})
Real(r) == {cb \in (0..(AlphaMax(r) - 1)) \X Bundles : cb[1] < Caches[r][cb[2]]}

\* Mutant: an answer that counts the padded caches too.
PackageCountPadded(r) == AlphaMax(r) * BundleCount

PackageCount(r) == Cardinality(Real(r))

Offset(r, c, b) == c * ItemsPerBundle * parameters.bundles + b * ItemsPerBundle

\* Mutant: the bundle's caches are taken to follow each other.
PackIdxByBundle(r, c, b) == c + b * AlphaMax(r)

PackIdx(r, c, b) == b + c * BundleCount

Resize(m, n) == [k \in 0..(n - 1) |-> IF k \in DOMAIN m THEN m[k] ELSE None]

-----------------------------------------------------------------------------
Init ==
    /\ parameters \in SenderParameters
    /\ asker = [r \in Askers |-> "idle"]
    /\ sender = "oprf" /\ current = 1 /\ package_count = 0
    /\ matrix = <<>>
    /\ worker = [w \in Workers |-> Idle]
    /\ receiver = [r \in Receivers |-> "oprf"]
    /\ client = [r \in Receivers |-> None]
    /\ random_matrix = [r \in Receivers |-> <<>>]
    /\ masks = [r \in Receivers |-> 0]
    /\ tasks = [r \in Receivers |-> {}]
    /\ requests = [r \in Receivers |-> [c \in Clients |-> <<>>]]
    /\ queue = [r \in Receivers |-> [c \in Clients |-> <<>>]]
    /\ file = [f \in Files |-> None]
    /\ trouble \in Troubles

(* A router drops a message to an identity it does not know.               *)
Deliver(r, msg) ==
    queue' = IF msg[1] \in Clients THEN [queue EXCEPT ![r][msg[1]] = Append(@, AtDealer(msg))]
             ELSE queue

Arrived(c) == queue[current][c]

-----------------------------------------------------------------------------
(* The receiver's program: its socket to the sender is there before it     *)
(* looks at its files, and a labeled database makes it end like a missing  *)
(* file.                                                                   *)
BuildPsuParams(given) == IF given.params THEN <<Parameters>> ELSE nullptr

LoadDb(given) == IF given.csv = <<>> THEN nullptr ELSE <<ReadCsv(given.csv[1])>>

CreateReceiverDB(psu_params, db_data) ==
    IF psu_params = nullptr \/ db_data[1].labeled THEN nullptr
    ELSE <<[params |-> psu_params[1], items |-> db_data[1].items]>>

TryLoadCsvDB(given) ==
    IF BuildPsuParams(given) = nullptr \/ LoadDb(given) = nullptr THEN nullptr
    ELSE CreateReceiverDB(BuildPsuParams(given), LoadDb(given))

StartsUp(r) == TryLoadCsvDB(trouble.given[r]) # nullptr

(* The sender is in the OPRF with a receiver that ends: its socket throws, *)
(* and so does request_query.                                              *)
OprfThrows ==
    /\ sender = "oprf" /\ receiver[current] = "oprf" /\ ~StartsUp(current)
    /\ sender' = "threw"
    /\ receiver' = [receiver EXCEPT ![current] = "failed"]
    /\ UNCHANGED <<current, package_count, matrix, worker, client, random_matrix, masks, tasks,
                   asker, requests, queue, file, chosen>>

(* create_query_1: the powers of every bundle's items are encrypted and    *)
(* gathered by power.                                                      *)
CreateQuery(p) ==
    LET plain_powers == [b \in 0..(p.bundles - 1) |-> p.powers]
        encrypted_powers == [e \in p.powers |-> Cardinality({b \in DOMAIN plain_powers :
                                                               e \in plain_powers[b]})]
    IN  QueryRequest(p.context, <<"relin_keys">>, encrypted_powers)

(* Both ends meet for the OPRF, the receiver while it builds its database, *)
(* the sender while it creates the query, which it sends.                  *)
Query ==
    /\ sender = "oprf" /\ receiver[current] = "oprf" /\ StartsUp(current)
    /\ sender' = "response"
    /\ receiver' = [receiver EXCEPT ![current] = "bind"]
    /\ requests' = [requests EXCEPT ![current]["sender"] =
            Append(@, SendOperation(parameters.version, "rop_query", CreateQuery(parameters)))]
    /\ UNCHANGED <<current, package_count, matrix, worker, client, random_matrix, masks, tasks,
                   asker, queue, file, chosen>>

(* RequestParams, called by another program on a socket of its own: asks   *)
(* once and polls until it gets a parameter response.                      *)
RequestParams(r) ==
    /\ asker[r] = "idle"
    /\ asker' = [asker EXCEPT ![r] = "waiting"]
    /\ requests' = [requests EXCEPT ![r]["asker"] =
            Append(@, SendOperation(parameters.version, "rop_parms", ParmsRequest))]
    /\ UNCHANGED <<senderVars, receiverVars, queue, file, chosen>>

GetParams(r) ==
    /\ asker[r] = "waiting" /\ queue[r]["asker"] # <<>>
    /\ LET response == ReceiveResponse(Head(queue[r]["asker"]), parameters.version)
       IN  asker' = IF ToResponse(response, "rop_parms") = nullptr THEN asker
                    ELSE [asker EXCEPT ![r] = "answered"]
    /\ queue' = [queue EXCEPT ![r]["asker"] = Tail(@)]
    /\ UNCHANGED <<senderVars, receiverVars, requests, file, chosen>>

-----------------------------------------------------------------------------
(* The dispatcher: bind, then poll.  What cannot be received is dropped, a *)
(* parameter request is answered, a query is checked and run, after which  *)
(* run() returns.                                                          *)
Bind(r) ==
    /\ receiver[r] = "bind"
    /\ receiver' = [receiver EXCEPT ![r] = "listen"]
    /\ UNCHANGED <<senderVars, client, random_matrix, masks, tasks, asker, requests, queue, file,
                   chosen>>

Next_(r, c) == ReceiveNetworkOperation(AtRouter(c, Head(requests[r][c])), <<Context>>)

Polls(r, c) ==
    /\ receiver[r] = "listen" /\ requests[r][c] # <<>>
    /\ requests' = [requests EXCEPT ![r][c] = Tail(@)]

Drop(r, c) ==
    /\ Polls(r, c) /\ Next_(r, c) = nullptr
    /\ UNCHANGED <<senderVars, receiverVars, asker, queue, file, chosen>>

\* Mutant: the answer does not go to the client that asked.
AnswerToSender(r, op) ==
    SendResponse("sender", "rop_parms", ParmsResponse(Parameters))

RunParams(r, op) == SendResponse(op.client_id, "rop_parms", ParmsResponse(Parameters))

DispatchParms(r, c) ==
    LET op == Next_(r, c)
    IN  /\ Polls(r, c) /\ op # nullptr
        /\ op[1].type = "rop_parms"
        /\ Deliver(r, RunParams(r, op[1]))
        /\ UNCHANGED <<senderVars, receiverVars, asker, file, chosen>>

(* Query::Query: one ciphertext for each bundle for each source power.     *)
ValidQuery(q) ==
    /\ Cardinality(DOMAIN q.data) = Cardinality(QueryPowers)
    /\ \A e \in DOMAIN q.data : q.data[e] = BundleCount /\ e \in QueryPowers

DispatchQuery(r, c) ==
    LET op == Next_(r, c)
    IN  /\ Polls(r, c) /\ op # nullptr
        /\ op[1].type = "rop_query"
        /\ client' = [client EXCEPT ![r] = op[1].client_id]
        /\ receiver' = [receiver EXCEPT ![r] = IF ValidQuery(op[1].rop) THEN "query" ELSE "unwound"]
        /\ UNCHANGED <<senderVars, random_matrix, masks, tasks, asker, queue, file, chosen>>

-----------------------------------------------------------------------------
(* RunQuery.  The response goes first, then the masks are drawn, cache by  *)
(* cache and, within a cache, bundle by bundle; a bundle without that cache*)
(* gets all-one blocks and no mask.                                        *)
Respond(r) ==
    /\ receiver[r] = "query"
    /\ Deliver(r, SendResponse(client[r], "rop_query", QueryResponse(PackageCount(r), AlphaMax(r))))
    /\ receiver' = [receiver EXCEPT ![r] = "masks"]
    /\ UNCHANGED <<senderVars, client, random_matrix, masks, tasks, asker, requests, file, chosen>>

Row(mask) == [j \in 1..ItemsPerBundle |->
                 [mask |-> mask, item |-> IF mask = AllOneBlock THEN 0 ELSE j - 1]]

Visits(r) == [k \in 1..(AlphaMax(r) * BundleCount) |->
                 <<(k - 1) \div BundleCount, (k - 1) % BundleCount>>]

Draw(r, drawn, cell) ==
    IF cell \in Real(r)
    THEN [rows |-> drawn.rows \o Row(drawn.size), size |-> drawn.size + 1]
    ELSE [rows |-> drawn.rows \o Row(AllOneBlock), size |-> drawn.size]

AllDrawn(r, rows) ==
    FoldLeft(LAMBDA drawn, cell : Draw(r, drawn, cell), [rows |-> rows, size |-> 0], Visits(r))

DrawMasks(r) ==
    LET drawn == AllDrawn(r, random_matrix[r])
    IN  /\ receiver[r] = "masks"
        /\ random_matrix' = [random_matrix EXCEPT ![r] = drawn.rows]
        /\ masks' = [masks EXCEPT ![r] = drawn.size]
        /\ tasks' = [tasks EXCEPT ![r] = Real(r)]
        /\ receiver' = [receiver EXCEPT ![r] = "process"]
        /\ UNCHANGED <<senderVars, client, asker, requests, queue, file, chosen>>

Part(r, t, mask) ==
    SendResult(client[r], ResultPackage(Context, t[2], t[1], [receiver |-> r, mask |-> mask]))

(* ProcessBinBundleCache: evaluate, add the mask, send.  A place beyond    *)
(* random_plain_list is read all the same: the process ends, or the mask is*)
(* anything.                                                               *)
ProcessBinBundleCache(r, t) ==
    LET idx == PackIdx(r, t[1], t[2])
    IN  /\ receiver[r] = "process" /\ t \in tasks[r]
        /\ tasks' = [tasks EXCEPT ![r] = @ \ {t}]
        /\ Deliver(r, Part(r, t, IF idx < masks[r] THEN idx ELSE Anything))
        /\ UNCHANGED <<senderVars, receiver, client, random_matrix, masks, asker, requests, file,
                       chosen>>

(* All futures are collected; the matrix is written if its file opens.     *)
WriteMasks(r) ==
    /\ receiver[r] = "process" /\ tasks[r] = {}
    /\ receiver' = [receiver EXCEPT ![r] = "returned"]
    /\ file' = IF <<"receiver", r>> \in trouble.unopenable THEN file
               ELSE [file EXCEPT ![<<"receiver", r>>] =
                        [alpha |-> AlphaMax(r), cells |-> random_matrix[r]]]
    /\ UNCHANGED <<senderVars, client, random_matrix, masks, tasks, asker, requests, queue, chosen>>

(* bind() throws out of run(); an exception anywhere in RunQuery is logged *)
(* by dispatch_query, and run() returns.  Tasks still in the pool work on  *)
(* RunQuery's destroyed locals until the process ends: they send anything, *)
(* or nothing.  The process may also end when a task reads beyond          *)
(* random_plain_list.                                                      *)
Throws(r) ==
    /\ r \in trouble.faulty
    /\ receiver[r] \in {"bind", "query", "masks", "process"}
    /\ receiver' = [receiver EXCEPT ![r] = "unwound"]
    /\ UNCHANGED <<senderVars, client, random_matrix, masks, tasks, asker, requests, queue, file,
                   chosen>>

StrayTask(r, t) ==
    /\ receiver[r] = "unwound" /\ t \in tasks[r]
    /\ tasks' = [tasks EXCEPT ![r] = @ \ {t}]
    /\ Deliver(r, Part(r, t, Anything))
    /\ UNCHANGED <<senderVars, receiver, client, random_matrix, masks, asker, requests, file,
                   chosen>>

ReadsBeyond(r) ==
    receiver[r] = "process" /\ \E t \in tasks[r] : PackIdx(r, t[1], t[2]) >= masks[r]

Exits(r) ==
    /\ receiver[r] = "unwound" \/ ReadsBeyond(r)
    /\ receiver' = [receiver EXCEPT ![r] = "failed"]
    /\ tasks' = [tasks EXCEPT ![r] = {}]
    /\ UNCHANGED <<senderVars, client, random_matrix, masks, asker, requests, queue, file, chosen>>

-----------------------------------------------------------------------------
(* request_query polls for the response, which sizes the matrix and starts *)
(* the workers; a message of another length throws.                        *)
ReceiveQueryResponse ==
    LET msg == Head(Arrived("sender"))
        response == ToResponse(ReceiveResponse(msg, parameters.version), "rop_query")
        count == response[1].package_count
    IN  /\ sender = "response" /\ Arrived("sender") # <<>>
        /\ queue' = [queue EXCEPT ![current]["sender"] = Tail(@)]
        /\ IF InvalidMessage(msg, 2)
           THEN sender' = "threw" /\ UNCHANGED <<package_count, matrix, worker>>
           ELSE IF response = nullptr THEN UNCHANGED <<sender, package_count, matrix, worker>>
           ELSE /\ sender' = "join"
                /\ package_count' = count
                /\ matrix' = Resize(matrix, response[1].alpha_max_cache_count * parameters.bundles
                                                * ItemsPerBundle)
                /\ worker' = [w \in Workers |-> IF w <= Min({Threads, count})
                                                THEN [Idle EXCEPT !.at = "load"] ELSE Idle]
        /\ UNCHANGED <<current, receiverVars, asker, requests, file, chosen>>

(* process_result_worker: look at the counter, claim a package by          *)
(* compare-and-swap, take the next package from the channel, store it.     *)
Load(w) ==
    /\ worker[w].at = "load"
    /\ worker' = [worker EXCEPT ![w].at = IF package_count = 0 THEN "off" ELSE "claim",
                                ![w].count = package_count]
    /\ UNCHANGED <<sender, current, package_count, matrix, receiverVars, asker, requests, queue,
                   file, chosen>>

Claim(w) ==
    /\ worker[w].at = "claim"
    /\ IF package_count = worker[w].count
       THEN /\ package_count' = package_count - 1
            /\ worker' = [worker EXCEPT ![w].at = "receive"]
       ELSE /\ worker' = [worker EXCEPT ![w].at = "load"]
            /\ UNCHANGED package_count
    /\ UNCHANGED <<sender, current, matrix, receiverVars, asker, requests, queue, file, chosen>>

(* A package that cannot be received is dropped, and the worker waits for  *)
(* another.                                                                *)
ReceivePackage(w) ==
    LET rp == ReceiveResult(Head(Arrived("sender")), <<parameters.context>>)
    IN  /\ worker[w].at = "receive" /\ Arrived("sender") # <<>>
        /\ queue' = [queue EXCEPT ![current]["sender"] = Tail(@)]
        /\ worker' = IF rp = nullptr THEN worker
                     ELSE [worker EXCEPT ![w].at = "copy", ![w].part = rp[1]]
        /\ UNCHANGED <<sender, current, package_count, matrix, receiverVars, asker, requests, file,
                       chosen>>

Copy(w) ==
    LET part == worker[w].part
        plain == Extract(part).psu_result
        first == Offset(current, part.cache_idx, part.bundle_idx)
    IN  /\ worker[w].at = "copy"
        /\ matrix' = [k \in DOMAIN matrix |->
                IF k \in first..(first + ItemsPerBundle - 1)
                THEN [receiver |-> plain.receiver, cache |-> part.cache_idx,
                      bundle |-> part.bundle_idx, mask |-> plain.mask, item |-> k - first]
                ELSE matrix[k]]
        /\ worker' = [worker EXCEPT ![w] = [Idle EXCEPT !.at = "load"]]
        /\ UNCHANGED <<sender, current, package_count, receiverVars, asker, requests, queue, file,
                       chosen>>

(* Every worker has returned: the matrix is written, or request_query      *)
(* returns because the file does not open, and asks no other receiver.     *)
Joined == \A w \in Workers : worker[w].at = "off"

\* Mutant: the matrix is written when the last package is claimed.
WriteResultsClaimed ==
    /\ sender = "join" /\ package_count = 0
    /\ <<"sender", current>> \notin trouble.unopenable
    /\ file' = [file EXCEPT ![<<"sender", current>>] =
                    [alpha |-> AlphaMax(current), cells |-> matrix]]
    /\ sender' = IF current + 1 \in Receivers THEN "oprf" ELSE "returned"
    /\ current' = IF current + 1 \in Receivers THEN current + 1 ELSE current
    /\ UNCHANGED <<package_count, matrix, worker, receiverVars, asker, requests, queue, chosen>>

WriteResults ==
    /\ sender = "join" /\ Joined
    /\ <<"sender", current>> \notin trouble.unopenable
    /\ file' = [file EXCEPT ![<<"sender", current>>] =
                    [alpha |-> AlphaMax(current), cells |-> matrix]]
    /\ sender' = IF current + 1 \in Receivers THEN "oprf" ELSE "returned"
    /\ current' = IF current + 1 \in Receivers THEN current + 1 ELSE current
    /\ UNCHANGED <<package_count, matrix, worker, receiverVars, asker, requests, queue, chosen>>

GivesUp ==
    /\ sender = "join" /\ Joined
    /\ <<"sender", current>> \in trouble.unopenable
    /\ sender' = "returned"
    /\ UNCHANGED <<current, package_count, matrix, worker, receiverVars, asker, requests, queue,
                   file, chosen>>

-----------------------------------------------------------------------------
SenderMain == Query \/ OprfThrows \/ ReceiveQueryResponse \/ WriteResults \/ GivesUp
Worker(w) == Load(w) \/ Claim(w) \/ ReceivePackage(w) \/ Copy(w)
Dispatcher(r) ==
    \/ Bind(r)
    \/ \E c \in Clients : Drop(r, c) \/ DispatchParms(r, c) \/ DispatchQuery(r, c)
Receiver(r) ==
    \/ Dispatcher(r)
    \/ Respond(r) \/ DrawMasks(r) \/ WriteMasks(r) \/ Exits(r)
    \/ \E t \in tasks[r] : ProcessBinBundleCache(r, t)
Fault(r) ==
    \/ Throws(r)
    \/ \E t \in tasks[r] : StrayTask(r, t)

Next ==
    \/ SenderMain
    \/ \E w \in Workers : Worker(w)
    \/ \E r \in Receivers : Receiver(r) \/ Fault(r)
    \/ \E r \in Askers : RequestParams(r) \/ GetParams(r)

(* Each thread that can move does: none of them is ever stopped.  Nothing  *)
(* makes a fault happen, or anybody ask for parameters.                    *)
Spec ==
    /\ Init /\ [][Next]_vars
    /\ WF_vars(SenderMain)
    /\ \A w \in Workers : WF_vars(Worker(w))
    /\ \A r \in Receivers : WF_vars(Receiver(r))

-----------------------------------------------------------------------------
TypeOK ==
    /\ parameters \in SenderParameters
    /\ sender \in {"oprf", "response", "join", "returned", "threw"} /\ current \in Receivers
    /\ package_count \in Nat
    /\ \A w \in Workers :
        /\ worker[w].at \in {"off", "load", "claim", "receive", "copy"}
        /\ worker[w].count \in Nat
    /\ \A r \in Receivers :
        /\ receiver[r] \in {"oprf", "bind", "listen", "query", "masks", "process", "returned", "unwound", "failed"}
        /\ tasks[r] \subseteq Real(r)

(* When the sender writes the matrix of a receiver, every package of that  *)
(* receiver is in the cells of its own cache and bundle, whichever worker  *)
(* took it and whatever order the packages came in; the cells of padded    *)
(* caches hold nothing of this receiver, though the matrix still holds     *)
(* cells of earlier ones; and no package is left in the channel.           *)
SenderFileComplete ==
    \A r \in Receivers : file[<<"sender", r>>] # None =>
        LET f == file[<<"sender", r>>]
            Cell(c, b, j) == f.cells[(c * BundleCount + b) * ItemsPerBundle + j]
        IN  /\ queue[r]["sender"] = <<>>
            /\ \A c \in 0..(f.alpha - 1), b \in Bundles, j \in 0..(ItemsPerBundle - 1) :
                LET cell == Cell(c, b, j)
                    own == cell # None /\ cell.receiver = r
                IN  own <=> (c < Caches[r][b] /\ cell # None
                             /\ cell.cache = c /\ cell.bundle = b /\ cell.item = j
                             /\ cell.receiver = r)
            /\ \A cb \in Real(r) : Cell(cb[1], cb[2], 0) # None /\ Cell(cb[1], cb[2], 0).receiver = r

(* What the sender holds in a cell is masked with the mask the receiver    *)
(* stores for that cell: only then does equality of the two cells mean that*)
(* the item is in the cache, and inequality that it is not.                *)
MasksMatch ==
    \A k \in DOMAIN matrix : matrix[k] # None =>
        LET r == matrix[k].receiver
        IN  receiver[r] \in {"process", "returned"} =>
                random_matrix[r][k + 1] = [mask |-> matrix[k].mask, item |-> matrix[k].item]

(* Whatever a client finds at the head of its queue is what it waits for:  *)
(* an asker the parameters, the sender first the response to its query,    *)
(* then packages it can load, each receive throwing or dropping nothing;   *)
(* and nothing at all comes from a dispatcher whose parameters or version  *)
(* are not the sender's, except the parameters.                            *)
AnswersAreAwaited ==
    \A r \in Receivers :
        /\ \A k \in DOMAIN queue[r]["asker"] :
            LET response == ReceiveResponse(queue[r]["asker"][k], apsu_serialization_version)
            IN  response # nullptr /\ response[1] = ParmsResponse(Parameters)
        /\ \A k \in DOMAIN queue[r]["sender"] :
            LET msg == queue[r]["sender"][k]
            IN  /\ parameters = Parameters
                /\ sender # "threw"
                /\ IF k = 1 /\ r = current /\ sender = "response"
                   THEN ~InvalidMessage(msg, 2)
                        /\ ToResponse(ReceiveResponse(msg, parameters.version), "rop_query") # nullptr
                   ELSE ~InvalidMessage(msg, 1)
                        /\ ReceiveResult(msg, <<parameters.context>>) # nullptr

(* Unless a receiver throws while it serves a query, the sender does not   *)
(* wait for ever: not for a receiver that ended before it served anything, *)
(* nor for a package more than was sent.  When every receiver starts up and*)
(* every file opens, both files of every receiver are written.             *)
AllWritten ==
    trouble.faulty = {} /\ parameters = Parameters =>
        <>(/\ sender \in {"returned", "threw"}
           /\ (trouble.unopenable = {} /\ \A r \in Receivers : StartsUp(r)) =>
                    \A f \in Files : file[f] # None)

=============================================================================
