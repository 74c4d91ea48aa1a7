----------------------------- MODULE ServerEntry -----------------------------
(***************************************************************************)
(* One request from anywhere at the door of the server, on each binding:   *)
(* what the handler is called with, if it is called, and what goes back.   *)
(* Dispatch says which operation a request is for; here are the service    *)
(* parameters the handler is shown, the identity of a SLIM caller, and the *)
(* forms of the response.                                                  *)
(***************************************************************************)
EXTENDS Integers, Sequences, SequencesExt, ErrorCodes, Dispatch, TLC

CONSTANTS
  JsonRpcWires, RestWires, GrpcWires, SlimWires   \* requests as they arrive

(* Bodies are as the libraries read them, and no text is taken for an      *)
(* absent tenant.                                                          *)
Text == STRING \ {NoTenant}

ASSUME EntryAssumption ==
  /\ \A w \in JsonRpcWires : w.body \in {"good", "large", "syntax", "scalar"}
  /\ \A w \in GrpcWires : w.body \in {"good", "bad"}
  /\ RestWires \subseteq
       [path : Seq(Seq(Text)), verb : STRING, query : STRING, body : STRING, tenant : STRING,
        headers : Seq([name : STRING, value : Seq(Int), ascii : BOOLEAN]),
        queryVersion : Seq(Seq(Int)), task : Seq(STRING)]

VARIABLES
  door,      \* the binding, "closed" before a request
  wire,      \* the request
  given,     \* what the handler is called with
  response   \* what goes back

entryVars == <<door, wire, given, response>>

NotGiven == [called |-> FALSE]
NoReply == [kind |-> "none"]

EntryInit == door = "closed" /\ wire = <<>> /\ given = NotGiven /\ response = NoReply

-----------------------------------------------------------------------------
(* SLIM: who calls is told by the session.                                 *)

Lower == [k \in {"slim-src", "slim-peer-subject", "slim-peer-issuer", "slim-payload-sig"} |-> k]
           @@ ("Slim-Src" :> "slim-src") @@ ("Slim-Payload-Sig" :> "slim-payload-sig")

LowerCase(key) == IF key \in DOMAIN Lower THEN Lower[key] ELSE key

ReservedIdentityKeys == {"slim-src", "slim-peer-subject", "slim-peer-issuer"}

IsReservedIdentityKey(key) == LowerCase(key) \in ReservedIdentityKeys

(* The keys of the rpc layer, and the signature of the session's.          *)
IsInternalMetadataKey(key) ==
  key \in {"deadline", "status-code", "rpc-id", "service", "method", "rpc-dir"}
    \/ LowerCase(key) = "slim-payload-sig"

(* CallerIdentity::from_context: what the session does not know is absent. *)
FromContext(session) ==
  [k \in {key \in DOMAIN session : session[key] # "none"} |-> <<session[k]>>]

ToServiceParams(metadata, session) ==
  LET known == FromContext(session)
      kept  == {k \in DOMAIN metadata : ~IsInternalMetadataKey(k) /\ ~IsReservedIdentityKey(k)}
  IN  [k \in DOMAIN known \union kept |-> IF k \in DOMAIN known THEN known[k] ELSE <<metadata[k]>>]

-----------------------------------------------------------------------------
(* Replies.                                                                *)

HttpStatusCode(code) ==
  CASE code = "TASK_NOT_FOUND" -> 404
    [] code = "METHOD_NOT_FOUND" -> 501
    [] code \in {"INVALID_AGENT_RESPONSE", "INTERNAL_ERROR", OtherCode} -> 500
    [] OTHER -> 400

RestGrpcStatus(code) ==
  CASE code = "TASK_NOT_FOUND" -> "NOT_FOUND"
    [] code = "METHOD_NOT_FOUND" -> "UNIMPLEMENTED"
    [] code \in {"TASK_NOT_CANCELABLE", "EXTENDED_CARD_NOT_CONFIGURED",
                 "EXTENSION_SUPPORT_REQUIRED", "PUSH_NOTIFICATION_NOT_SUPPORTED",
                 "UNSUPPORTED_OPERATION", "VERSION_NOT_SUPPORTED"} -> "FAILED_PRECONDITION"
    [] code \in {"CONTENT_TYPE_NOT_SUPPORTED", "PARSE_ERROR", "INVALID_REQUEST",
                 "INVALID_PARAMS"} -> "INVALID_ARGUMENT"
    [] OTHER -> "INTERNAL"

Envelope(id, code) == [kind |-> "rpc", http |-> 200, id |-> id, code |-> code]

RestBody(code) ==
  [kind |-> "rest", http |-> IF code = "none" THEN 200 ELSE HttpStatusCode(code),
   status |-> IF code = "none" THEN "OK" ELSE RestGrpcStatus(code),
   media |-> IF code = "none" THEN "application/a2a+json" ELSE "application/json", code |-> code]

(* A stream that was opened: 200 on both HTTP bindings, events to come.    *)
Events == [kind |-> "events", http |-> 200]

RpcReply(status, code) ==
  [kind |-> "status", code |-> code, status |-> IF code = "none" THEN "Ok" ELSE status]

(* The reply to w on a binding: the error of that code, or a success.      *)
ReplyTo(binding, w, code) ==
  CASE binding = "JSONRPC"   -> Envelope(EchoedId(w), code)
    [] binding = "HTTP+JSON" -> RestBody(code)
    [] binding = "GRPC"      -> RpcReply(GrpcCode(code), code)
    [] binding = "SLIMRPC"   -> RpcReply(SlimCode(code), code)

(* The handler's parameters: JSON-RPC adds the version of the query, which *)
(* REST only checks.                                                       *)
GivenParams(binding, w) ==
  CASE binding = "JSONRPC" -> AddQueryVersion(ExtractServiceParams(w.headers), w.queryVersion)
    [] binding = "SLIMRPC" -> ToServiceParams(w.metadata, w.session)
    [] OTHER               -> ExtractServiceParams(w.headers)

Dispatching(binding, w) ==
  CASE binding = "JSONRPC"   -> HandleJsonRpc(w)
    [] binding = "HTTP+JSON" -> HandleRest(w)
    [] binding = "GRPC"      -> HandleGrpc(w)
    [] binding = "SLIMRPC"   -> HandleSlim(w)

Arrive(binding, w) ==
  LET d == Dispatching(binding, w)
  IN  /\ door' = binding /\ wire' = w
      /\ CASE d.kind = "give" ->
                /\ given' = [called |-> TRUE, method |-> d.method, ids |-> d.ids,
                             tenant |-> d.tenant, params |-> GivenParams(binding, w)]
                /\ UNCHANGED response
           [] d.kind = "refuse" -> UNCHANGED given /\ response' = ReplyTo(binding, w, d.error.code)
           [] d.kind = "http"   -> UNCHANGED given /\ response' = [kind |-> "plain", status |-> d.status]

ArriveJsonRpc == door = "closed" /\ \E w \in JsonRpcWires : Arrive("JSONRPC", w)
ArriveRest    == door = "closed" /\ \E w \in RestWires : Arrive("HTTP+JSON", w)
ArriveGrpc    == door = "closed" /\ \E w \in GrpcWires : Arrive("GRPC", w)
ArriveSlim    == door = "closed" /\ \E w \in SlimWires : Arrive("SLIMRPC", w)

(* The handler answers: an error before any event is an answer like any.   *)
HandlerAnswers ==
  /\ given.called /\ response = NoReply
  /\ \E code \in Codes \union {OtherCode, "none"} :
       response' = IF code = "none" /\ IsStreaming(given.method) /\ door \in {"JSONRPC", "HTTP+JSON"}
                   THEN Events ELSE ReplyTo(door, wire, code)
  /\ UNCHANGED <<door, wire, given>>

EntryNext == ArriveJsonRpc \/ ArriveRest \/ ArriveGrpc \/ ArriveSlim \/ HandlerAnswers

EntrySpec == EntryInit /\ [][EntryNext]_entryVars

-----------------------------------------------------------------------------

EntryTypeOK ==
  /\ door \in {"closed", "JSONRPC", "HTTP+JSON", "GRPC", "SLIMRPC"}
  /\ given.called => given.method \in DOMAIN RpcName
  /\ response.kind \in {"none", "rpc", "rest", "events", "status", "plain"}

(* The path an older one stands for.                                       *)
Canonical(w) ==
  LET p == w.path  n == Len(p)
  IN  [w EXCEPT !.path =
         CASE p = <<<<"message">>, <<"send">>>>   -> <<<<"message:send">>>>
           [] p = <<<<"message">>, <<"stream">>>> -> <<<<"message:stream">>>>
           [] n = 3 /\ p[1] = TasksSeg /\ p[3] = <<"cancel">>    -> <<p[1], Append(p[2], ":cancel")>>
           [] n = 3 /\ p[1] = TasksSeg /\ p[3] = <<"subscribe">> -> <<p[1], Append(p[2], ":subscribe")>>
           [] n \in {3, 4} /\ p[1] = TasksSeg /\ p[3] = OldConfigsSeg -> [p EXCEPT ![3] = ConfigsSeg]
           [] p = <<<<"agent-card">>, <<"extended">>>> -> <<<<"extendedAgentCard">>>>
           [] OTHER -> p]

(* What a path of no tenant begins with.                                   *)
Resources ==
  {<<r>> : r \in {"message:send", "message:stream", "message", "tasks", "extendedAgentCard",
                  "agent-card"}}

(* Whoever knocks, the handler is called only for a request of a version   *)
(* the server speaks (SLIM has none) and a body that was read; with a      *)
(* tenant neither path nor body contradicts; from an older path as from    *)
(* the one it stands for; and over SLIM with no identity but the           *)
(* session's.  A JSON-RPC answer has status 200 and the id of the request, *)
(* as far as it had one.  A REST answer to a known path and verb is an     *)
(* envelope, except for a body that was too large, and blames the server   *)
(* (5xx) exactly when its status says so.                                  *)
EntryGuarded ==
  /\ given.called /\ door \in {"JSONRPC", "GRPC"} =>
       VersionSupported(given.params) /\ wire.body = "good"
  /\ given.called /\ door = "HTTP+JSON" =>
       /\ HttpVersionSupported(wire)
       /\ wire.body \in {"bad", "large"} => wire.verb = "GET" \/ given.method = "SubscribeToTask"
                                             \/ wire.verb = "DELETE"
       /\ wire.body = "good" /\ wire.tenant # NoTenant
            /\ given.method \in {"SendMessage", "SendStreamingMessage", "CancelTask", "CreatePushConfig"}
            => given.tenant = wire.tenant
       /\ given.tenant # NoTenant =>
            given.tenant \in {wire.tenant} \union {wire.path[1][1]}
       /\ wire.path[1] \notin Resources => given.tenant = wire.path[1][1]
       /\ LET d == HandleRest(Canonical(wire))
          IN  d.kind = "give" => /\ d.method = given.method /\ d.ids = given.ids
                                 /\ d.tenant = given.tenant
  /\ given.called /\ door = "SLIMRPC" =>
       \A k \in DOMAIN given.params :
         LowerCase(k) \in ReservedIdentityKeys =>
           k \in DOMAIN wire.session /\ <<wire.session[k]>> = given.params[k]
  /\ door = "JSONRPC" /\ response.kind = "rpc" =>
       response.id = IF wire.body = "good" /\ wire.id \in {"string", "number"} THEN wire.id ELSE "null"
  /\ door = "HTTP+JSON" /\ response.kind = "plain" => response.status \in {404, 405} \/ wire.body = "large"
  /\ response.kind = "rest" =>
       /\ response.http >= 500 <=> response.status \in {"INTERNAL", "UNIMPLEMENTED"}
       /\ response.http = 200 <=> response.code = "none"

=============================================================================
