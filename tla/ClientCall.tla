------------------------------ MODULE ClientCall ------------------------------
(***************************************************************************)
(* One call of an A2A client, from the agent card to the result: the       *)
(* interface the factory selects, the tenant and version it sends, the     *)
(* interceptors around the call, the request over the binding (with the    *)
(* server's dispatch), the handler's answer and the way back.              *)
(*                                                                         *)
(* Of the request and of the answer one field is followed, with one of its *)
(* values: the conversions treat each field by itself.  A binding is       *)
(* "JSONRPC", "HTTP+JSON", "GRPC", "SLIMRPC" or "plugin": a gRPC call to   *)
(* the SLIM plugin, which makes it again over SLIM.                        *)
(***************************************************************************)
EXTENDS Integers, Sequences, SequencesExt, ErrorCodes, ProtoConv, Dispatch

CONSTANTS
  Registered,    \* bindings a transport factory is registered for
  Setups         \* the calls: [card, defaults, preferred, request, flag, hooks], see below

None == NoTenant
NoVersion == <<0, 0>>
Unparsable == <<-1, 0>>

(* VERSION of the client library and of the CLI.                           *)
Version == <<1, 0>>

(* The answer of a handler that does not fail.                             *)
Success == Error(None, {}, FALSE)

Answers ==
  {Success} \union
  [code : Codes \union {OtherCode}, details : SUBSET {"bad", "struct"}, missing : BOOLEAN]

(* A card, preferences and interceptors of any length; a version the CLI    *)
(* accepts (validate_a2a_version); a request of the protocol, with a value *)
(* of a field of a message it sends or gets, if any.                       *)
ASSUME SetupAssumption ==
  /\ Registered \subseteq {"JSONRPC", "HTTP+JSON", "GRPC", "SLIMRPC", "plugin"}
  /\ \A s \in Setups :
       /\ s.card \in Seq([binding : STRING, url : Seq(STRING), version : Int \X Int, tenant : STRING])
       /\ s.preferred \in Seq(STRING)
       /\ s.flag \in Int \X Int /\ (s.flag = NoVersion \/ s.flag[1] = 1)
       /\ s.hooks \in Seq({"param", "version", "old", "any"})
       /\ s.request.method \in DOMAIN Methods
       /\ s.request.ids \in Seq(Seq(STRING)) /\ Len(s.request.ids) = IdCount(s.request.method)
       /\ s.request.tenant \in STRING
       /\ s.request.side \in {"request", "response", "none"}
       /\ s.request.side # "none" =>
            /\ s.request.message \in Methods[s.request.method][s.request.side]
            /\ s.request.field \in DOMAIN Shapes[s.request.message]
            /\ s.request.value \in ValuesOf(Shapes[s.request.message][s.request.field])
       /\ s.request.answer \in Answers

VARIABLES
  setup,     \* the call to make
  pc,        \* where it stands
  tried,     \* interfaces whose transport could not be made
  chosen,    \* the interface in use, 0 if none
  asked,     \* the interceptors whose before has run, in order
  told,      \* the interceptors whose after has run, in order
  params,    \* values of A2A-Version, in order
  seen,      \* history: the requests the handler was given
  replied,   \* history: whether the last attempt brought the handler's reply
  outcome    \* what the caller gets

callVars == <<setup, pc, tried, chosen, asked, told, params, seen, replied, outcome>>

card == setup.card             \* supported_interfaces: [binding, url, version, tenant]
defaults == setup.defaults     \* unless no_defaults was called
preferred == setup.preferred   \* preferred_bindings
request == setup.request       \* [method, ids, side, message, field, value, tenant, answer]
flag == setup.flag             \* --a2a-version, NoVersion if not given
hooks == setup.hooks           \* the interceptors

Ok(value) == [kind |-> "ok", value |-> value]
Err(e) == [kind |-> "error", error |-> e]
Opened == [kind |-> "stream"]     \* a stream of which nothing was read
Pending == [kind |-> "pending"]


CallInit ==
  /\ setup \in Setups
  /\ pc = "select" /\ tried = {} /\ chosen = 0
  /\ asked = <<>> /\ told = <<>> /\ params = <<Version>> /\ seen = <<>>
  /\ replied = FALSE /\ outcome = Pending

-----------------------------------------------------------------------------
(* A2AClientFactory.                                                       *)

MajorOf(v) == IF v = Unparsable THEN 1 ELSE v[1]

(* A2AClientFactoryBuilder::build.                                         *)
Factories == Registered \union (IF defaults THEN {"JSONRPC", "HTTP+JSON"} ELSE {})

(* Interfaces with a factory.                                              *)
Candidates ==
  {i \in DOMAIN card : card[i].binding \in Factories /\ MajorOf(card[i].version) = 1}

Priority(i) ==
  LET at == {k \in DOMAIN preferred : preferred[k] = card[i].binding}
  IN  IF at = {} THEN Len(preferred) + 1 ELSE CHOOSE k \in at : \A m \in at : k <= m

(* The order of a stable sort by priority.                                 *)
(* Slip: no sort.                                                          *)
PrecedesAsDeclared(i, j) == i < j

Precedes(i, j) == Priority(i) < Priority(j) \/ (Priority(i) = Priority(j) /\ i < j)

Foremost(left) == CHOOSE i \in left : \A j \in left \ {i} : Precedes(i, j)

Fail(e) == pc' = "done" /\ outcome' = Err(e)

(* parse_slimrpc_target: three names, whatever slashes come before them.   *)
IsSlimTarget(url) ==
  \E k \in 0 .. Len(url) :
    /\ \A i \in 1 .. k : url[i] = ""
    /\ Len(url) - k = 3 /\ \A i \in k + 1 .. Len(url) : url[i] # ""

(* TransportFactory::create: HTTP transports are made without a            *)
(* connection, gRPC and the plugin connect, SLIM reads the url.            *)
CanCreate(i) ==
  CASE card[i].binding \in {"JSONRPC", "HTTP+JSON"} -> {TRUE}
    [] card[i].binding \in {"GRPC", "plugin"}       -> BOOLEAN
    [] card[i].binding = "SLIMRPC"                  -> {IsSlimTarget(card[i].url)}

CreateError(i) ==
  IF card[i].binding = "SLIMRPC" THEN Error("INVALID_PARAMS", {}, FALSE) ELSE Internal(FALSE)

(* create_from_card_selecting, one candidate; the last error is the        *)
(* caller's.                                                               *)
SelectTransport ==
  /\ pc = "select"
  /\ LET left == Candidates \ tried
         next == Foremost(left)
     IN  \/ /\ Candidates = {}
            /\ Fail(Error("UNSUPPORTED_OPERATION", {}, FALSE)) /\ UNCHANGED <<tried, chosen>>
         \/ /\ left # {} /\ TRUE \in CanCreate(next)
            /\ chosen' = next /\ pc' = "before" /\ UNCHANGED <<tried, outcome>>
         \/ /\ left # {} /\ FALSE \in CanCreate(next)
            /\ tried' = tried \union {next} /\ UNCHANGED chosen
            /\ IF left = {next} THEN Fail(CreateError(next)) ELSE UNCHANGED <<pc, outcome>>
  /\ UNCHANGED <<setup, asked, told, params, seen, replied>>

Binding == card[chosen].binding

(* with_tenant, apply_tenant: the tenant the interface declares, else the  *)
(* caller's.                                                               *)
Tenant ==
  IF card[chosen].tenant \notin {None, ""} THEN card[chosen].tenant ELSE request.tenant

(* negotiate_a2a_version, after validate_a2a_version.                      *)
Negotiate(declared) ==
  CASE flag # NoVersion -> flag
    [] flag = NoVersion /\ declared[1] = 1 /\ declared[2] < Version[2] -> declared
    [] OTHER -> Version

-----------------------------------------------------------------------------
(* Interceptors: "param" a --svc-param that names A2A-Version, "version"   *)
(* the VersionInterceptor, "old" and "any" a library user's: one sets      *)
(* A2A-Version to 0.3, one may fail.                                       *)

Params(h) ==
  CASE hooks[h] = "param"   -> Append(params, <<0, 3>>)
    [] hooks[h] = "old"     -> <<<<0, 3>>>>
    [] hooks[h] = "version" -> <<Negotiate(card[chosen].version)>>
    [] OTHER                -> params

(* apply_before; an error ends the call at once.                           *)
Before ==
  /\ pc = "before"
  /\ LET h == Len(asked) + 1
     IN  IF h > Len(hooks)
         THEN pc' = "exchange" /\ UNCHANGED <<asked, params, outcome>>
         ELSE /\ asked' = Append(asked, h) /\ params' = Params(h)
              /\ \/ UNCHANGED <<pc, outcome>>
                 \/ hooks[h] = "any" /\ Fail(Internal(FALSE))
  /\ UNCHANGED <<setup, tried, chosen, told, seen, replied>>

(* apply_after, in reverse; an error ends the round, and the call's own    *)
(* error is kept (finish_call).                                            *)
FinishCall(own) == IF own.kind = "error" THEN own ELSE Err(Internal(FALSE))

(* Slip: in the order they were registered.                                *)
NextAfterForward == IF Len(told) = Len(hooks) THEN 0 ELSE Len(told) + 1

NextAfter == Len(hooks) - Len(told)

After ==
  /\ pc = "after"
  /\ LET h == NextAfter
     IN  IF h = 0
         THEN /\ pc' = IF outcome = Opened THEN "stream" ELSE "done"
              /\ UNCHANGED <<told, outcome>>
         ELSE /\ told' = Append(told, h)
              /\ \/ UNCHANGED <<pc, outcome>>
                 \/ hooks[h] = "any" /\ pc' = "done" /\ outcome' = FinishCall(outcome)
  /\ UNCHANGED <<setup, tried, chosen, asked, params, seen, replied>>

-----------------------------------------------------------------------------
(* The exchange.                                                           *)

Absent(v) == IF v = "" THEN None ELSE v

(* The path a REST request is sent to.                                     *)
Path == IF pc = "legacy" THEN LegacySubscribePath(request.ids)
                         ELSE RestPath(request.method, request.ids)

(* What the server makes of the request the transport sends; the plugin's  *)
(* gRPC side comes before the agent.                                       *)
Dispatched ==
  CASE Binding = "JSONRPC" ->
         HandleJsonRpc(JsonRpcRequest(request.method, request.ids, Tenant, params))
    [] Binding = "HTTP+JSON" ->
         HandleRest(RestRequest(request.method, Path, request.ids, Tenant, params))
    [] Binding = "SLIMRPC" ->
         HandleSlim(SlimRequest(request.method, request.ids, Absent(Tenant), params))
    [] OTHER -> HandleGrpc(GrpcRequest(request.method, request.ids, Absent(Tenant), params))

KindOf(r) == Shapes[r.message][r.field]

(* How REST sends a GET: each parameter of its own in the path or in the   *)
(* query, where an unspecified status is no filter.                        *)
InQuery(r) ==
  r.method \in {"GetTask", "ListTasks", "SubscribeToTask", "GetPushConfig",
                "ListPushConfigs", "DeletePushConfig", "GetExtendedAgentCard"}

Query(r) == IF r.field = "status" /\ r.value = "zero" THEN None ELSE r.value

(* The plugin converts twice: the second time changes nothing.             *)
Converted(side, r) ==
  IF Binding = "HTTP+JSON" /\ side = "request" /\ InQuery(r) THEN Query(r)
  ELSE LET k == KindOf(r) IN FromProto(k, ToProto(k, r.value))

Value(side) == IF request.side = side THEN Converted(side, request) ELSE "value"

Reply ==
  IF request.answer = Success THEN Ok(Value("response"))
  ELSE Err(ErrorOver(Binding, request.answer))

(* A refusal before the handler: the plugin refuses on its gRPC side.      *)
Refusal(e) == Err(ErrorOver(IF Binding = "plugin" THEN "GRPC" ELSE Binding, e))

(* The answer to another operation than the one asked for: its error, or a *)
(* result of another type (ProtoJSON ignores the fields it does not know). *)
Strays ==
  {Err(RestError(Error("TASK_NOT_FOUND", {}, TRUE))), Err(Internal(FALSE)), Ok("stray")}

(* What the client makes of a lost request or reply: of its own            *)
(* connection, of a gateway that does not know the path, of the plugin's   *)
(* connection to the agent.                                                *)
Losses ==
  {Err(Internal(FALSE))}
    \union (IF Binding \in {"JSONRPC", "HTTP+JSON"} THEN {Err(Internal(TRUE))} ELSE {})
    \union (IF Binding = "plugin" THEN {Err(GrpcError(Internal(FALSE)))} ELSE {})

(* should_retry_subscribe_with_legacy_path.                                *)
RetriesLegacy(r) ==
  /\ Binding = "HTTP+JSON" /\ request.method = "SubscribeToTask" /\ r.kind = "error"
  /\ \/ r.error.code = "METHOD_NOT_FOUND"
     \/ r.error.code = "INTERNAL_ERROR" /\ r.error.missing

Conclude(r) ==
  IF pc = "exchange" /\ RetriesLegacy(r)
  THEN pc' = "legacy" /\ UNCHANGED outcome
  ELSE pc' = (IF pc = "stream" THEN "done" ELSE "after") /\ outcome' = r

Loses == replied' = FALSE /\ \E r \in Losses : Conclude(r)

(* The request reaches the handler, which answers.                         *)
Serve(d) ==
  /\ seen' = Append(seen, [method |-> d.method, ids |-> d.ids, tenant |-> d.tenant,
                           version |-> Head(params), value |-> Value("request")])
  /\ \/ Loses
     \/ d.method = request.method /\ replied' = TRUE /\ Conclude(Reply)
     \/ d.method # request.method /\ replied' = FALSE /\ \E r \in Strays : Conclude(r)

(* The request is lost, answered before the handler (an HTTP status is     *)
(* read as a message, into_rest_error) or served.                          *)
Attempt ==
  LET d == Dispatched
  IN  \/ UNCHANGED seen /\ Loses
      \/ d.kind = "refuse" /\ UNCHANGED seen /\ replied' = FALSE /\ Conclude(Refusal(d.error))
      \/ /\ d.kind = "http" /\ UNCHANGED seen /\ replied' = FALSE
         /\ Conclude(Err(Internal(d.status \in {404, 405})))
      \/ d.kind = "give" /\ Serve(d)

(* A streaming call over SLIM is made when the stream is read: to the      *)
(* interceptors it is a success.                                           *)
Deferred ==
  /\ request.method \in {"SendStreamingMessage", "SubscribeToTask"}
  /\ Binding \in {"SLIMRPC", "plugin"}

Exchange ==
  /\ pc = "exchange" /\ ~Deferred /\ Attempt
  /\ UNCHANGED <<setup, tried, chosen, asked, told, params>>

(* call_unary_stream.  The plugin is called at once, the agent is not.     *)
OpenStream ==
  /\ pc = "exchange" /\ Deferred
  /\ \/ Dispatched.kind = "give" /\ Conclude(Opened)
     \/ Dispatched.kind = "refuse" /\ Conclude(Refusal(Dispatched.error))
     \/ Binding = "plugin" /\ Conclude(Err(Internal(FALSE)))
  /\ UNCHANGED <<setup, tried, chosen, asked, told, params, seen, replied>>

ReadStream ==
  /\ pc = "stream" /\ Attempt
  /\ UNCHANGED <<setup, tried, chosen, asked, told, params>>

(* GET /tasks/{id}/subscribe: not routed under a tenant.                   *)
LegacySubscribe ==
  /\ pc = "legacy" /\ Attempt
  /\ UNCHANGED <<setup, tried, chosen, asked, told, params>>

CallNext ==
  \/ SelectTransport \/ Before \/ Exchange \/ LegacySubscribe
  \/ OpenStream \/ After \/ ReadStream

-----------------------------------------------------------------------------

CallTypeOK ==
  /\ pc \in {"select", "before", "exchange", "legacy", "after", "stream", "done"}
  /\ chosen \in 0 .. Len(card) /\ tried \subseteq 1 .. Len(card)
  /\ Len(asked) <= Len(hooks) /\ Len(told) <= Len(hooks) /\ Len(seen) <= 2
  /\ pc = "done" => outcome \notin {Pending, Opened}

(* The interface in use is the best one that could be used: every other    *)
(* usable interface was tried and failed, or is of a binding the client    *)
(* prefers less, or prefers no more and comes later in the card.  (Not by  *)
(* "newest version", as the doc of create_from_card has it, factory.rs:71: *)
(* the sort looks at the preference only.)                                 *)
SelectionBest ==
  chosen # 0 =>
    /\ chosen \in Candidates
    /\ \A i \in Candidates \ (tried \union {chosen}) :
         \/ /\ card[chosen].binding \in Range(preferred)
            /\ card[i].binding \notin Range(preferred)
         \/ \E k, m \in DOMAIN preferred :
              k < m /\ preferred[k] = card[chosen].binding /\ preferred[m] = card[i].binding
         \/ /\ chosen < i
            /\ \/ card[i].binding = card[chosen].binding
               \/ {card[i].binding, card[chosen].binding} \intersect Range(preferred) = {}

(* How the handler and the caller read a value: an absent field as an      *)
(* empty one, except the length of a history; a page size that is not      *)
(* positive as the default.                                                *)
Meaning(v) ==
  CASE request.field = "history_length" -> v
    [] request.field # "history_length" /\ v \in {"zero", "negative"} -> None
    [] OTHER -> v

(* What REST has no path for: an id or a tenant of dots, which a URL       *)
(* resolves; the tenant "tasks" before a single segment, and before a task *)
(* named like what may follow a task in a path; a task whose id ends like  *)
(* a subscription.                                                         *)
Unaddressable ==
  /\ Binding = "HTTP+JSON"
  /\ \/ <<Tenant>> \in Dots \/ Range(request.ids) \intersect Dots # {}
     \/ /\ Tenant = "tasks"
        /\ \/ request.ids = <<>>
           \/ Range(request.ids) \intersect {<<"subscribe">>, ConfigsSeg, OldConfigsSeg} # {}
     \/ request.method = "GetTask" /\ StripSuffix(request.ids[1], ":subscribe")

(* Whatever the binding, a request that reaches the handler is of the      *)
(* operation called, for the ids given, and carries the meaning the caller *)
(* gave each field, the tenant the interface declares or else the          *)
(* caller's, and from the CLI the version it was told to send or one both  *)
(* sides speak; every result comes back with its own.  (Not so for a time  *)
(* or a number out of the range of the wire, and what REST cannot address.)*)
PayloadArrives ==
  /\ \A i \in DOMAIN seen :
       /\ request.side = "request" /\ request.value # "far"
            => Meaning(seen[i].value) = Meaning(request.value)
       /\ ~Unaddressable =>
            /\ seen[i].method = request.method /\ seen[i].ids = request.ids
            /\ seen[i].tenant = IF card[chosen].tenant \in {None, ""}
                                THEN Absent(request.tenant) ELSE card[chosen].tenant
       /\ hooks # <<>> /\ Last(hooks) = "version" =>
            /\ flag # NoVersion => seen[i].version = flag
            /\ flag = NoVersion => seen[i].version[1] = 1 /\ seen[i].version[2] <= Version[2]
  /\ outcome.kind = "ok" /\ request.side = "response" /\ request.value # "far" /\ ~Unaddressable
       => Meaning(outcome.value) = Meaning(request.value)
  /\ hooks # <<>> /\ Last(hooks) = "version" /\ pc = "done" /\ chosen # 0 /\ request.answer = Success
       => outcome.kind = "ok" \/ outcome.error.code # "VERSION_NOT_SUPPORTED"

(* An error the handler answered reaches the caller as what it was: with   *)
(* its code (INTERNAL_ERROR for a code outside the protocol), its field    *)
(* violations, and never mistaken for a lost connection; over SLIM, which  *)
(* carries a class only, a missing task stays one and bad parameters stay  *)
(* so.  And a lost connection of the client's own looks like one.  (Not so *)
(* for the METHOD_NOT_FOUND of a subscription over REST under a tenant:    *)
(* the request to the older path that follows it is lost.  Over gRPC the   *)
(* details survive, where the README of a2acli, 246, says they do not.)    *)
ErrorSurvives ==
  LET e == request.answer  r == outcome
      code == IF e.code = OtherCode THEN "INTERNAL_ERROR" ELSE e.code
  IN  pc \in {"after", "done"} /\ chosen # 0 /\ e # Success =>
        /\ replied =>
             /\ r.kind = "error"
             /\ Binding \in {"JSONRPC", "HTTP+JSON", "GRPC"} =>
                  /\ r.error.code = code /\ ~IsConnectionFailure(r.error)
                  /\ "bad" \in e.details <=> "bad" \in r.error.details
             /\ Binding \in {"SLIMRPC", "plugin"}
                  /\ code \in {"TASK_NOT_FOUND", "TASK_NOT_CANCELABLE", "INVALID_PARAMS"}
                  => r.error.code = code
        /\ ~replied /\ seen # <<>> /\ Binding # "plugin" /\ ~Unaddressable
             => IsConnectionFailure(r.error)

(* Interceptors pair up: the request leaves only after every one has seen  *)
(* it, after it each sees the result once, the last first, and all of them *)
(* do unless one fails; none sees the result of a call that never left.    *)
HooksPairUp ==
  /\ IsPrefix(asked, [i \in DOMAIN hooks |-> i])
  /\ IsPrefix(told, Reverse([i \in DOMAIN hooks |-> i]))
  /\ seen # <<>> \/ told # <<>> => Len(asked) = Len(hooks)
  /\ pc = "done" /\ Len(asked) = Len(hooks) /\ outcome.kind = "ok" => Len(told) = Len(hooks)

=============================================================================
