------------------------------- MODULE Dispatch -------------------------------
(***************************************************************************)
(* How a request is addressed and how the server finds the operation it    *)
(* names: the methods of JSON-RPC, gRPC and SLIM, the routes of REST, and  *)
(* what each binding checks before the handler is called.                  *)
(*                                                                         *)
(* A text is a sequence of the pieces that matter here: the id "t1:cancel" *)
(* is <<"t1", ":cancel">>.  A path is a sequence of texts, percent-encoded *)
(* by the client (segment) and decoded by the router, so that an id is one *)
(* segment whatever it holds.                                              *)
(*                                                                         *)
(* A dispatched request is given to an operation with its ids and tenant,  *)
(* refused with an A2A error, or answered by the HTTP library itself.      *)
(***************************************************************************)
EXTENDS Integers, Sequences, SequencesExt, ErrorCodes

NoTenant == "none"

Give(method, ids, tenant) == [kind |-> "give", method |-> method, ids |-> ids, tenant |-> tenant]
Refuse(e) == [kind |-> "refuse", error |-> e]
Plainly(status) == [kind |-> "http", status |-> status]

(* A check has an answer if it fails.                                      *)
Check(fails, answer) == IF fails THEN {answer} ELSE {}

(* The answer of the first check that fails, else what comes after them.   *)
Checked(checks, next) ==
  LET failing == {i \in DOMAIN checks : checks[i] # {}}
      first   == CHOOSE i \in failing : \A j \in failing : i <= j
  IN  IF failing = {} THEN next ELSE CHOOSE answer \in checks[first] : TRUE

(* The rpc of the service behind every operation: what the transports call *)
(* and what the servers register.                                          *)
RpcName ==
  [SendMessage          |-> "SendMessage",
   SendStreamingMessage |-> "SendStreamingMessage",
   GetTask              |-> "GetTask",
   ListTasks            |-> "ListTasks",
   CancelTask           |-> "CancelTask",
   SubscribeToTask      |-> "SubscribeToTask",
   CreatePushConfig     |-> "CreateTaskPushNotificationConfig",
   GetPushConfig        |-> "GetTaskPushNotificationConfig",
   ListPushConfigs      |-> "ListTaskPushNotificationConfigs",
   DeletePushConfig     |-> "DeleteTaskPushNotificationConfig",
   GetExtendedAgentCard |-> "GetExtendedAgentCard"]

Served(name) == CHOOSE m \in DOMAIN RpcName : RpcName[m] = name

IsRegistered(w) == \E m \in DOMAIN RpcName : RpcName[m] = w.name

(* How many ids a method names.                                            *)
IdCount(method) ==
  CASE method \in {"SendMessage", "SendStreamingMessage", "ListTasks", "GetExtendedAgentCard"} -> 0
    [] method \in {"GetPushConfig", "DeletePushConfig"} -> 2
    [] OTHER -> 1

IsStreaming(name) == name \in {"SendStreamingMessage", "SubscribeToTask"}

-----------------------------------------------------------------------------
(* Service parameters: the values of every name, in order.                 *)

VersionKey == "a2a-version"

(* Positions, in order.                                                    *)
InOrder(S) ==
  CHOOSE q \in [1 .. Cardinality(S) -> S] : \A j, k \in DOMAIN q : j < k => q[j] < q[k]

(* The headers of HTTP, the metadata of gRPC: a value that is not ASCII is *)
(* skipped.                                                                *)
ExtractServiceParams(headers) ==
  LET readable == {i \in DOMAIN headers : headers[i].ascii}
      of(n)    == InOrder({i \in readable : headers[i].name = n})
  IN  [n \in {headers[i].name : i \in readable} |-> [k \in DOMAIN of(n) |-> headers[of(n)[k]].value]]

(* The version in the query stands in for a missing header.                *)
AddQueryVersion(params, query) ==
  IF VersionKey \in DOMAIN params \/ query = <<>> THEN params
  ELSE [n \in DOMAIN params \union {VersionKey} |-> IF n = VersionKey THEN query ELSE params[n]]

(* check_a2a_version: the first value counts; none is 0.3.                 *)
VersionSupported(params) == VersionKey \in DOMAIN params /\ Head(params[VersionKey])[1] = 1

HttpVersionSupported(w) ==
  VersionSupported(AddQueryVersion(ExtractServiceParams(w.headers), w.queryVersion))

(* What a client sends for its A2A-Version values.                         *)
VersionHeaders(versions) ==
  [i \in DOMAIN versions |-> [name |-> VersionKey, value |-> versions[i], ascii |-> TRUE]]

UnsupportedVersion == Error("VERSION_NOT_SUPPORTED", {}, FALSE)

-----------------------------------------------------------------------------
(* REST.                                                                   *)

TasksSeg == <<"tasks">>
ConfigsSeg == <<"pushNotificationConfigs">>
OldConfigsSeg == <<"push-configs">>
TenantSeg == <<"{tenant}">>
IdSeg == <<"{id}">>
ConfigIdSeg == <<"{config_id}">>

IsParam(t) == t \in {TenantSeg, IdSeg, ConfigIdSeg}

Route(path, verb, handler) == [path |-> path, verb |-> verb, handler |-> handler]

(* What the routes under /{tenant} serve, and the plain ones as well.      *)
Bindings(under) ==
  {Route(under \o <<<<"message:send">>>>, "POST", "send"),
   Route(under \o <<<<"message:stream">>>>, "POST", "stream"),
   Route(under \o <<TasksSeg, IdSeg>>, "GET", "task"),
   Route(under \o <<TasksSeg, IdSeg>>, "POST", "action"),
   Route(under \o <<TasksSeg>>, "GET", "list"),
   Route(under \o <<TasksSeg, IdSeg, ConfigsSeg>>, "POST", "createConfig"),
   Route(under \o <<TasksSeg, IdSeg, ConfigsSeg>>, "GET", "listConfigs"),
   Route(under \o <<TasksSeg, IdSeg, ConfigsSeg, ConfigIdSeg>>, "GET", "getConfig"),
   Route(under \o <<TasksSeg, IdSeg, ConfigsSeg, ConfigIdSeg>>, "DELETE", "deleteConfig"),
   Route(under \o <<<<"extendedAgentCard">>>>, "GET", "card")}

(* The older paths, without a tenant.                                      *)
LegacyBindings ==
  {Route(<<<<"message">>, <<"send">>>>, "POST", "send"),
   Route(<<<<"message">>, <<"stream">>>>, "POST", "stream"),
   Route(<<TasksSeg, IdSeg, <<"cancel">>>>, "POST", "cancel"),
   Route(<<TasksSeg, IdSeg, <<"subscribe">>>>, "GET", "subscribe"),
   Route(<<TasksSeg, IdSeg, <<"subscribe">>>>, "POST", "subscribe"),
   Route(<<TasksSeg, IdSeg, OldConfigsSeg>>, "POST", "createConfig"),
   Route(<<TasksSeg, IdSeg, OldConfigsSeg>>, "GET", "listConfigs"),
   Route(<<TasksSeg, IdSeg, OldConfigsSeg, ConfigIdSeg>>, "GET", "getConfig"),
   Route(<<TasksSeg, IdSeg, OldConfigsSeg, ConfigIdSeg>>, "DELETE", "deleteConfig"),
   Route(<<<<"agent-card">>, <<"extended">>>>, "GET", "card")}

RestRouter == Bindings(<<>>) \union LegacyBindings \union Bindings(<<TenantSeg>>)

(* The paths of the routes a path matches, and what is served there.       *)
Fits(t, path) ==
  /\ Len(t) = Len(path)
  /\ \A i \in DOMAIN t : IF IsParam(t[i]) THEN path[i] # <<>> ELSE t[i] = path[i]

Matching(path) == {t \in {r.path : r \in RestRouter} : Fits(t, path)}

Handlers(t, verb) == {r.handler : r \in {s \in RestRouter : s.path = t /\ s.verb = verb}}

(* Of two routes, the one that is literal where they first differ.         *)
Preferred(t, u) ==
  LET at == CHOOSE i \in DOMAIN t : t[i] # u[i] /\ SubSeq(t, 1, i - 1) = SubSeq(u, 1, i - 1)
  IN  ~IsParam(t[at])

RouteOf(path) ==
  CHOOSE t \in Matching(path) : \A u \in Matching(path) \ {t} : Preferred(t, u)

Param(route, path, name) ==
  LET at == {i \in DOMAIN route : route[i] = name}
  IN  IF at = {} THEN <<>> ELSE <<path[CHOOSE i \in at : TRUE]>>

StripSuffix(id, suffix) == id # <<>> /\ Last(id) = suffix

(* rest_payload_error_response.                                            *)
InvalidBody == Refuse(Error("INVALID_PARAMS", {"bad"}, FALSE))

(* The Json extractor: an empty body is no JSON.                           *)
JsonBody(w, next) ==
  Checked(<<Check(w.body = "large", Plainly(413)), Check(w.body # "good", InvalidBody)>>, next)

(* Slip: the body's tenant, whatever the path says.                        *)
ReconcileTenantByBody(path, body) == IF body # NoTenant THEN <<body>> ELSE <<path>>

(* The tenant of a request, or <<>> for a conflict.                        *)
ReconcileTenant(path, body) ==
  CASE path # NoTenant /\ body \notin {NoTenant, path} -> <<>>
    [] path # NoTenant /\ body \in {NoTenant, path}    -> <<path>>
    [] OTHER                                           -> <<body>>

GiveReconciled(w, method, ids, tenant) ==
  LET t == ReconcileTenant(tenant, w.tenant)
  IN  IF t = <<>> THEN InvalidBody ELSE Give(method, ids, t[1])

(* The Query extractor.                                                    *)
QueryOk(w, next) == IF w.query = "bad" THEN InvalidBody ELSE next

(* handle_get_task_or_subscribe, handle_post_task_action.                  *)
GetTaskOrSubscribe(w, id, tenant) ==
  QueryOk(w, IF StripSuffix(id, ":subscribe")
             THEN Give("SubscribeToTask", <<Front(id)>>, tenant)
             ELSE Give("GetTask", <<id>>, tenant))

(* The body is read first; an empty one is a cancel without metadata.      *)
CancelTaskInner(w, id, tenant) ==
  Checked(<<Check(w.body = "large", Plainly(413)), Check(w.body = "bad", InvalidBody)>>,
          GiveReconciled(w, "CancelTask", <<id>>, tenant))

PostTaskAction(w, id, tenant) ==
  CASE StripSuffix(id, ":cancel") -> CancelTaskInner(w, Front(id), tenant)
    [] StripSuffix(id, ":subscribe") ->
         Checked(<<Check(w.body = "large", Plainly(413))>>,
                 Give("SubscribeToTask", <<Front(id)>>, tenant))
    [] OTHER ->
         Checked(<<Check(w.body = "large", Plainly(413))>>,
                 Refuse(Error("INVALID_REQUEST", {}, FALSE)))

(* The body may repeat the task id.                                        *)
ParseCreatePushConfigRequest(w, id, next) ==
  JsonBody(w, IF w.task \notin {<<>>, id} THEN InvalidBody ELSE next)

CreateConfig(w, id, tenant) ==
  ParseCreatePushConfigRequest(w, id, GiveReconciled(w, "CreatePushConfig", <<id>>, tenant))

SendTo(w, method, tenant) ==
  JsonBody(w, GiveReconciled(w, method, <<>>, tenant))

(* The handlers of the routes; id and config are sequences of none or one. *)
CallRoute(w, h, tenant, id, config) ==
  CASE h = "send"         -> SendTo(w, "SendMessage", tenant)
    [] h = "stream"       -> SendTo(w, "SendStreamingMessage", tenant)
    [] h = "task"         -> GetTaskOrSubscribe(w, id[1], tenant)
    [] h = "action"       -> PostTaskAction(w, id[1], tenant)
    [] h = "cancel"       -> CancelTaskInner(w, id[1], NoTenant)
    [] h = "subscribe"    -> Give("SubscribeToTask", id, NoTenant)
    [] h = "list"         -> QueryOk(w, IF w.query = "status"
                                        THEN Refuse(Error("INVALID_PARAMS", {}, FALSE))
                                        ELSE Give("ListTasks", <<>>, tenant))
    [] h = "createConfig" -> CreateConfig(w, id[1], tenant)
    [] h = "listConfigs"  -> QueryOk(w, Give("ListPushConfigs", id, tenant))
    [] h = "getConfig"    -> Give("GetPushConfig", id \o config, tenant)
    [] h = "deleteConfig" -> Give("DeletePushConfig", id \o config, tenant)
    [] h = "card"         -> Give("GetExtendedAgentCard", <<>>, tenant)

(* One request: an unknown path is answered by the router, everything else *)
(* only after the version check (route_layer).                             *)
HandleRest(w) ==
  IF Matching(w.path) = {} THEN Plainly(404)
  ELSE LET route == RouteOf(w.path)
           t     == Param(route, w.path, TenantSeg)
       IN  Checked(<<Check(~HttpVersionSupported(w), Refuse(UnsupportedVersion)),
                     Check(Handlers(route, w.verb) = {}, Plainly(405))>>,
                   CallRoute(w, CHOOSE h \in Handlers(route, w.verb) : TRUE,
                             IF t = <<>> THEN NoTenant ELSE t[1][1],
                             Param(route, w.path, IdSeg), Param(route, w.path, ConfigIdSeg)))

-----------------------------------------------------------------------------
(* The REST client.                                                        *)

(* A URL has no segments "." and "..": reqwest resolves them.              *)
Dots == {<<".">>, <<"..">>}

ResolveDot(left, segment) ==
  CASE segment = <<".">>  -> left
    [] segment = <<"..">> -> IF left = <<>> THEN <<>> ELSE Front(left)
    [] OTHER              -> Append(left, segment)

ResolveDots(path) ==
  CASE ToSet(path) \intersect Dots = {}                          -> path
    [] ToSet(path) \intersect Dots # {} /\ Last(path) \notin Dots -> FoldLeft(ResolveDot, <<>>, path)
    [] OTHER -> Append(FoldLeft(ResolveDot, <<>>, path), <<>>)

TenantPath(tenant, path) ==
  IF tenant \in {NoTenant, ""} THEN path ELSE <<<<tenant>>>> \o path

WithSuffix(ids, suffix) == <<TasksSeg, Append(ids[1], suffix)>>

(* Verb and path of an operation; the older path of a subscription.        *)
RestPath(method, ids) ==
  CASE method = "SendMessage"          -> <<<<"message:send">>>>
    [] method = "SendStreamingMessage" -> <<<<"message:stream">>>>
    [] method = "GetTask"              -> <<TasksSeg, ids[1]>>
    [] method = "ListTasks"            -> <<TasksSeg>>
    [] method = "CancelTask"           -> WithSuffix(ids, ":cancel")
    [] method = "SubscribeToTask"      -> WithSuffix(ids, ":subscribe")
    [] method \in {"CreatePushConfig", "ListPushConfigs"} -> <<TasksSeg, ids[1], ConfigsSeg>>
    [] method \in {"GetPushConfig", "DeletePushConfig"}   -> <<TasksSeg, ids[1], ConfigsSeg, ids[2]>>
    [] method = "GetExtendedAgentCard" -> <<<<"extendedAgentCard">>>>

LegacySubscribePath(ids) == <<TasksSeg, ids[1], <<"subscribe">>>>

RestVerb(method) ==
  CASE method \in {"SendMessage", "SendStreamingMessage", "CancelTask", "CreatePushConfig"} -> "POST"
    [] method = "DeletePushConfig" -> "DELETE"
    [] OTHER -> "GET"

(* post_value, post_streaming, get_value, get_streaming, delete: a POST    *)
(* has the whole request for its body, the tenant too.                     *)
RestRequest(method, path, ids, tenant, versions) ==
  LET posts == RestVerb(method) = "POST"
  IN  [verb |-> RestVerb(method), path |-> ResolveDots(TenantPath(tenant, path)),
       headers |-> VersionHeaders(versions), queryVersion |-> <<>>, query |-> "ok",
       body   |-> IF posts THEN "good" ELSE "none",
       tenant |-> IF posts /\ tenant # "" THEN tenant ELSE NoTenant,
       task   |-> IF method = "CreatePushConfig" THEN ids[1] ELSE <<>>]

-----------------------------------------------------------------------------
(* JSON-RPC, gRPC and SLIM: the name decides.                              *)

JsonRpcRequest(method, ids, tenant, versions) ==
  [body |-> "good", id |-> "string", rpc |-> "2.0", name |-> RpcName[method], params |-> "good",
   headers |-> VersionHeaders(versions), queryVersion |-> <<>>, ids |-> ids,
   tenant |-> IF tenant = "" THEN NoTenant ELSE tenant]

(* JsonRpcId: a string, an integer or null; the request cannot do without. *)
ValidId(id) == id \in {"string", "number", "null"}

(* malformed_request_response: the id is echoed where it can be told.      *)
EchoedId(w) == IF w.body = "good" /\ ValidId(w.id) THEN w.id ELSE "null"

InvalidRequest == Refuse(Error("INVALID_REQUEST", {}, FALSE))

(* handle_jsonrpc, then handle_unary_request or handle_streaming_request:  *)
(* the name is told before the params are read.  A request without params  *)
(* has the empty ones.                                                     *)
HandleJsonRpc(w) ==
  Checked(<<Check(w.body = "large", Plainly(413)),
            Check(w.body = "syntax", Refuse(Error("PARSE_ERROR", {}, FALSE))),
            Check(w.body = "scalar" \/ ~ValidId(w.id) \/ w.name = "missing", InvalidRequest),
            Check(w.rpc # "2.0", InvalidRequest),
            Check(~HttpVersionSupported(w), Refuse(UnsupportedVersion)),
            Check(w.name = "", InvalidRequest),
            Check(~IsRegistered(w), Refuse(Error("METHOD_NOT_FOUND", {}, TRUE))),
            Check(w.params = "bad", Refuse(Error("INVALID_PARAMS", {}, FALSE)))>>,
          Give(Served(w.name), w.ids, w.tenant))

(* What the gRPC transport sends: an entry of metadata per value.          *)
GrpcRequest(method, ids, tenant, versions) ==
  [name |-> RpcName[method], body |-> "good", ids |-> ids, tenant |-> tenant,
   headers |-> VersionHeaders(versions)]

(* What the SLIM transport sends: the values of a name are one (joined).   *)
SlimRequest(method, ids, tenant, versions) ==
  [name |-> RpcName[method], body |-> "good", ids |-> ids, tenant |-> tenant,
   metadata |-> [n \in {VersionKey} |-> versions]]

(* GrpcHandler.  A method nobody registered, and a message that does not   *)
(* decode, is answered by the rpc library.                                 *)
HandleGrpc(w) ==
  Checked(<<Check(~IsRegistered(w), Plainly("Unimplemented")),
            Check(w.body = "bad", Plainly("Internal")),
            Check(~VersionSupported(ExtractServiceParams(w.headers)), Refuse(UnsupportedVersion))>>,
          Give(Served(w.name), w.ids, w.tenant))

(* SlimRpcHandler does not look at the version.                            *)
HandleSlim(w) ==
  Checked(<<Check(~IsRegistered(w), Plainly("Unimplemented")),
            Check(w.body = "bad", Plainly("InvalidArgument"))>>,
          Give(Served(w.name), w.ids, w.tenant))

=============================================================================
