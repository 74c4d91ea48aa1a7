------------------------------- MODULE MCServer -------------------------------
(***************************************************************************)
(* The server around the executions on one instance: a request at its door *)
(* (ServerEntry), its push notifications (PushService), the proxy that     *)
(* serves an agent of a SLIM network (PluginServe), and the documents it   *)
(* exchanges (JsonForms).  The four share no state: a behaviour follows    *)
(* one of them, its focus.                                                 *)
(***************************************************************************)
EXTENDS PushService, ServerEntry, PluginServe, JsonForms

(* One public and one blocked address, a name that resolves to either, and *)
(* a blocked name; callers that may touch one task, that have not          *)
(* activated the extension, that may touch nothing.                        *)
CONSTANTS t1, t2

Url(host) == [web |-> TRUE, host |-> host]
MCUrls == {Url(h) : h \in Literals \union Names}
          \union {[web |-> FALSE, host |-> "192.0.2.1"]}

Hook(task, id, url) == [task |-> task, id |-> id, url |-> url, clean |-> TRUE]
MCOffered ==
  {Hook(t1, 0, Url("hook.example")), Hook(t1, 1, Url("192.0.2.1")),
   Hook(t2, 1, Url("10.0.0.1")),
   [Hook(t1, 2, Url("hook.example")) EXCEPT !.clean = FALSE]}

MCSettings == {[strict |-> FALSE, guarded |-> TRUE], [strict |-> TRUE, guarded |-> FALSE]}
MCDeclarations == {[push |-> "false", card |-> "true", required |-> FALSE],
                   [push |-> "true", card |-> "false", required |-> TRUE],
                   [push |-> Unset, card |-> Unset, required |-> FALSE]}
MCCallers == {[ext |-> TRUE, may |-> {t1}], [ext |-> FALSE, may |-> Tasks],
              [ext |-> TRUE, may |-> {}]}

-----------------------------------------------------------------------------
(* Requests: everything a binding looks at, right and wrong.               *)

Header(name, value, ascii) == [name |-> name, value |-> value, ascii |-> ascii]
Speaks(v) == <<Header(VersionKey, v, TRUE)>>

MCHeaders ==
  {<<>>, Speaks(<<1, 0>>), Speaks(<<0, 3>>),
   <<Header(VersionKey, <<0, 3>>, FALSE), Header(VersionKey, <<1, 1>>, TRUE),
     Header(VersionKey, <<0, 3>>, TRUE)>>}
MCQueries == {<<>>, <<<<1, 0>>>>, <<<<0, 3>>>>}

MCJsonRpcWires ==
  [body : {"good", "large", "syntax", "scalar"}, id : {"string", "number", "null", "fraction", "missing"},
   rpc : {"2.0", "1.0"}, name : {"GetTask", "SubscribeToTask", "tasks/get", "", "missing"},
   params : {"good", "bad"}, headers : MCHeaders, queryVersion : MCQueries,
   ids : {<<<<"i">>>>}, tenant : {NoTenant}]

MCSegments ==
  {<<"tasks">>, <<"i">>, <<"i", ":cancel">>, <<"i", ":subscribe">>, <<"message:send">>,
   <<"cancel">>, <<"subscribe">>, <<"pushNotificationConfigs">>, <<"push-configs">>}

MCPaths ==
  UNION {[1 .. n -> MCSegments] : n \in 1 .. 2}
    \union {p \in [1 .. 3 -> MCSegments] : <<"tasks">> \in {p[1], p[2]}}
    \union {<<<<"tasks">>, <<"i">>, <<"push-configs">>, <<"c">>>>, <<<<"message">>, <<"send">>>>,
             <<<<"agent-card">>, <<"extended">>>>, <<<<"i">>, <<"tasks">>, <<"i">>, <<"push-configs">>>>,
             <<<<"i">>, <<"tasks">>, <<"i">>, <<"pushNotificationConfigs">>, <<"c">>>>}

(* A sound request to every path, and on some everything that can be wrong.*)
MCRestWires ==
  [path : MCPaths, verb : {"GET", "POST", "DELETE"}, headers : {Speaks(<<1, 0>>)},
   queryVersion : {<<>>}, query : {"ok"}, body : {"none", "good"}, tenant : {NoTenant, "i"},
   task : {<<>>}]
    \union
  [path : {p \in MCPaths : Len(p) < 3 \/ p[3] \in {<<"cancel">>, <<"push-configs">>}} \ [1 .. 2 -> MCSegments],
   verb : {"GET", "POST"}, headers : MCHeaders, queryVersion : MCQueries,
   query : {"ok", "bad", "status"}, body : {"none", "bad", "large"}, tenant : {NoTenant}, task : {<<>>}]
    \union
  [path : {<<<<"i">>, <<"tasks">>, <<"i">>, <<"pushNotificationConfigs">>>>,
           <<<<"tasks">>, <<"i">>, <<"push-configs">>>>, <<<<"i">>, <<"message:send">>>>},
   verb : {"POST"}, headers : {Speaks(<<1, 0>>)}, queryVersion : {<<>>}, query : {"ok"},
   body : {"good", "bad", "large"}, tenant : {NoTenant, "i", "j"}, task : {<<>>, <<"i">>, <<"j">>}]

MCGrpcWires ==
  [name : {"GetTask", "SubscribeToTask", "tasks/get"}, body : {"good", "bad"},
   headers : MCHeaders, ids : {<<<<"i">>>>}, tenant : {NoTenant, "i"}]

MCMetadata ==
  UNION {[K -> {"claimed"}] :
    K \in SUBSET {"slim-src", "Slim-Src", "slim-peer-subject", "rpc-id", "Slim-Payload-Sig", "x"}}

MCSlimWires ==
  [name : {"GetTask", "tasks/get"}, body : {"good", "bad"}, ids : {<<<<"i">>>>}, tenant : {NoTenant},
   metadata : MCMetadata,
   session : [{"slim-src", "slim-peer-subject", "slim-peer-issuer"} -> {"none", "session"}]]

-----------------------------------------------------------------------------

(* Starts of the plugin: everything right but one thing, and names that    *)
(* are right, short, long and wrong.                                       *)
MCAppNames == UNION {[1 .. n -> {"a", "2", "f", "-", "/"}] : n \in 0 .. 4}
              \union {<<"a", "/", "-", "/", "-", "-">>, <<"a", "/", "-", "/", "-", "/">>}

GoodLaunch ==
  [command |-> "serve", env |-> TRUE, file |-> "good", target |-> TRUE, auth |-> TRUE,
   name |-> <<"a", "/", "a", "/", "f">>]

MCPluginLaunches ==
  {GoodLaunch, [GoodLaunch EXCEPT !.command = "info"], [GoodLaunch EXCEPT !.env = FALSE],
   [GoodLaunch EXCEPT !.file = "missing"], [GoodLaunch EXCEPT !.file = "malformed"],
   [GoodLaunch EXCEPT !.target = FALSE], [GoodLaunch EXCEPT !.auth = FALSE]}
    \union {[GoodLaunch EXCEPT !.name = n] : n \in MCAppNames}

Tokens == {<<>>} \union {<<Header(TokenHeader, v, a)>> : v \in {"token", "other"}, a \in BOOLEAN}
MCPluginHeaders ==
  {t \o u \o h : t \in Tokens, u \in Tokens,
                 h \in {<<>>, Speaks(<<1, 0>>), Speaks(<<0, 3>>), Append(Speaks(<<1, 0>>), Header("x", "v", TRUE))}}

-----------------------------------------------------------------------------

(* Documents others write: parts with any two members, requirements in     *)
(* each form and in none.                                                  *)
MCFormParts ==
  UNION {[K -> {"string", "base64", "object", "null"}] :
           K \in {k \in SUBSET {"text", "raw", "url", "data"} : Cardinality(k) <= 2}}

Foreign(value, json) == [value |-> value, json |-> json]
MCFormRequirements ==
  <<Foreign(<<>>, Object(<<>>)),
   Foreign([k |-> <<"s">>], Object([k |-> Array(<<"s">>)])),
   Foreign([schemes |-> <<"s">>], Object([schemes |-> Array(<<"s">>)])),
   Foreign([k |-> <<"s">>], Object([schemes |-> Object([k |-> Array(<<"s">>)])])),
   Foreign([k |-> <<>>], Object([schemes |-> Object([k |-> Object(<<>>)])])),
   Foreign([k |-> <<>>, l |-> <<"s">>],
           Object([schemes |-> Object([k |-> Object(<<>>), l |-> Object([list |-> Array(<<"s">>)])])])),
   Foreign(Refusal, Object([k |-> Object([list |-> Array(<<"s">>)])])),
   Foreign(Refusal, Object([schemes |-> Object([k |-> Object([of |-> Array(<<"s">>)])])])),
   Foreign(Refusal, Object([schemes |-> Object([k |-> Object([list |-> Object(<<>>)])])])),
   Foreign(Refusal, Array(<<"s">>))>>

-----------------------------------------------------------------------------

VARIABLE focus

serverVars == <<focus, vars, entryVars, pluginVars, formVars>>

PushRests == stage = "build" /\ handler.guarded /\ ~handler.strict
PluginRests == plaunch = GoodLaunch

ServerInit ==
  /\ focus \in {"push", "entry", "plugin", "forms"}
  /\ Init /\ EntryInit /\ PluginInit /\ FormsInit
  /\ focus # "push" => PushRests
  /\ focus # "plugin" => PluginRests

ServerNext ==
  \/ focus = "push"   /\ Next /\ UNCHANGED <<focus, entryVars, pluginVars, formVars>>
  \/ focus = "entry"  /\ EntryNext /\ UNCHANGED <<focus, vars, pluginVars, formVars>>
  \/ focus = "plugin" /\ PluginNext /\ UNCHANGED <<focus, vars, entryVars, formVars>>
  \/ focus = "forms"  /\ FormsNext /\ UNCHANGED <<focus, vars, entryVars, pluginVars>>

ServerSpec == ServerInit /\ [][ServerNext]_serverVars

(* The state of each is of its type.                                       *)
ServerTypeOK == TypeOK /\ EntryTypeOK /\ PluginTypeOK /\ FormsTypeOK

=============================================================================
