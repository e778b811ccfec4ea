----------------------------- MODULE ZMQChannel -----------------------------
(***************************************************************************)
(* What the sender and the receivers of uMCRG say to each other, and what  *)
(* the receiving side makes of it: the saved requests, responses and       *)
(* result packages (common/apsu/network/receiver_operation.cpp,            *)
(* receiver_operation_response.cpp, result_package.cpp) and the messages   *)
(* of ZMQChannel (common/apsu/network/zmq/zmq_channel.cpp) that carry them.*)
(*                                                                         *)
(* A message is the sequence of its parts.  A saved object is a record     *)
(* whose field "table" is the FlatBuffers table it was written as; a       *)
(* SEALContext is whatever its ciphertexts are valid for.  A function of   *)
(* the code that returns a pointer returns <<>> for nullptr, <<x>> for a   *)
(* pointer to x.                                                           *)
(***************************************************************************)
EXTENDS Integers, Sequences, FiniteSets

CONSTANTS
    apsu_serialization_version,  \* of the receivers
    max_label_byte_count,        \* 1024
    max_nonce_byte_count         \* 16

ASSUME LimitsAssumption == max_label_byte_count \in Nat /\ max_nonce_byte_count \in Nat

nullptr == <<>>

-----------------------------------------------------------------------------
(* The saved forms.                                                        *)
Header(version, type) == [table |-> "ReceiverOperationHeader", version |-> version, type |-> type]

TableOf == [rop_parms |-> "ParmsRequest", rop_query |-> "QueryRequest"]
ResponseTableOf == [rop_parms |-> "ParmsResponse", rop_query |-> "QueryResponse"]

ParmsRequest == [table |-> "ParmsRequest"]

\* data: exponent -> the ciphertexts of the bundles
QueryRequest(context, relin_keys, data) ==
    [table |-> "QueryRequest", context |-> context, relin_keys |-> relin_keys, data |-> data]

ParmsResponse(params) == [table |-> "ParmsResponse", params |-> params]

QueryResponse(package_count, alpha_max_cache_count) ==
    [table |-> "QueryResponse", package_count |-> package_count,
     alpha_max_cache_count |-> alpha_max_cache_count]

\* The programs' databases have no labels; the label fields are saved all the same.
ResultPackage(context, bundle_idx, cache_idx, psu_result) ==
    [table |-> "ResultPackage", context |-> context, bundle_idx |-> bundle_idx,
     cache_idx |-> cache_idx, psu_result |-> psu_result,
     label_byte_count |-> 0, nonce_byte_count |-> 0, label_result |-> <<>>]

-----------------------------------------------------------------------------
(* Loading them: what the load functions refuse by an exception that the   *)
(* channel catches is a pointer to nothing.  Parameter requests are loaded *)
(* without a context and refuse one.                                       *)
LoadHeader(part) == IF part.table = "ReceiverOperationHeader" THEN <<part>> ELSE nullptr

LoadParms(part, context) ==
    IF context = nullptr /\ part.table = "ParmsRequest" THEN <<part>> ELSE nullptr

LoadQuery(part, context) ==
    IF /\ context # nullptr /\ part.table = "QueryRequest"
       /\ part.relin_keys # nullptr
       /\ part.context = context[1]
    THEN <<part>> ELSE nullptr

LoadResponse(part, type) == IF part.table = ResponseTableOf[type] THEN <<part>> ELSE nullptr

LoadResultPackage(part, context) ==
    IF /\ context # nullptr /\ part.table = "ResultPackage" /\ part.context = context[1]
       /\ part.label_byte_count <= max_label_byte_count
       /\ part.nonce_byte_count <= max_nonce_byte_count
    THEN <<[part EXCEPT !.nonce_byte_count = IF part.label_byte_count = 0 THEN 0 ELSE @]>>
    ELSE nullptr

(* Decrypting: cache_idx is not copied, and is read from the package.      *)
Extract(rp) ==
    [bundle_idx |-> rp.bundle_idx, psu_result |-> rp.psu_result,
     label_byte_count |-> rp.label_byte_count, nonce_byte_count |-> rp.nonce_byte_count]

-----------------------------------------------------------------------------
(* The messages.  A sender's socket is a dealer, a receiver's a router:    *)
(* ZeroMQ puts the identity of the sender's socket before the parts of a   *)
(* message to a router, and takes the first part of a message from a router*)
(* for the identity of the socket it goes to.                              *)
SendOperation(version, type, rop) == <<Header(version, type), rop>>

AtRouter(identity, msg) == <<identity>> \o msg

SendResponse(client_id, type, rop_response) ==
    <<client_id, Header(apsu_serialization_version, type), rop_response>>

SendResult(client_id, rp) == <<client_id, rp>>

AtDealer(msg) == Tail(msg)

(* A receive throws when the number of parts is not the expected one.      *)
InvalidMessage(msg, parts) == Len(msg) # parts

AcceptableHeader(part, version, types) ==
    /\ LoadHeader(part) # nullptr
    /\ part.version = version
    /\ part.type \in types

LoadOperation(type, part, context) ==
    IF type = "rop_parms" THEN LoadParms(part, nullptr) ELSE LoadQuery(part, context)

ReceiveNetworkOperation(msg, context) ==
    IF /\ context # nullptr
       /\ AcceptableHeader(msg[2], apsu_serialization_version, DOMAIN TableOf)
       /\ LoadOperation(msg[2].type, msg[3], context) # nullptr
    THEN <<[client_id |-> msg[1], type |-> msg[2].type,
            rop |-> LoadOperation(msg[2].type, msg[3], context)[1]]>>
    ELSE nullptr

ReceiveResponse(msg, version) ==
    IF AcceptableHeader(msg[1], version, DOMAIN ResponseTableOf)
    THEN LoadResponse(msg[2], msg[1].type)
    ELSE nullptr

ReceiveResult(msg, context) == LoadResultPackage(msg[1], context)

(* The typed views of a response (common/apsu/responses.h).                *)
ToResponse(response, type) ==
    IF response # nullptr /\ response[1].table = ResponseTableOf[type] THEN response ELSE nullptr
=============================================================================
