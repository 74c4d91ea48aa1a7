------------------------------ MODULE MCClient ------------------------------
(***************************************************************************)
(* The client side on one instance: an invocation of the CLI up to its     *)
(* request (CliStart) and to its exit (CliTasks), one call of the library  *)
(* it makes (ClientCall), one stream it reads (SseStream), the files it    *)
(* saves of one (FileParts), and its input and reports (CliInput).  The    *)
(* six share no state; a behaviour follows one of them, its focus, while   *)
(* the others rest in one initial state.                                   *)
(***************************************************************************)
EXTENDS CliStart, CliTasks, ClientCall, SseStream, FileParts, CliInput

VARIABLE focus

vars == <<focus, startVars, cliVars, callVars, sseVars, fileVars, inputVars>>

MCInvocations ==
  {[op |-> o, wait |-> w, streaming |-> TRUE] :
     o \in {"send", "send --stream", "get"}, w \in BOOLEAN} \union
  {[op |-> o, wait |-> TRUE, streaming |-> s] :
     o \in {"cancel", "subscribe", "send --stream"}, s \in BOOLEAN}

MCFilenames == {NoName, <<<<"r">>>>, <<<<"d">>, <<"r", 1>>>>}

MCFallback == [a \in Artifacts |-> IF a = "a1" THEN <<<<"r">>>> ELSE <<<<"..">>>>]

-----------------------------------------------------------------------------
(* The invocations: one setting from every mix of sources, and two from    *)
(* flags with every command.                                               *)

ValuesFor(k) ==
  CASE k = "agent-card"  -> {"url", "file"}
    [] k = "endpoint"    -> {"direct"}
    [] k = "transport"   -> {"one", "two"}
    [] k = "a2a-version" -> {"1.x", "0.x"}
    [] k = "insecure"    -> {"true", "false"}
    [] k = "ca-cert"     -> {"good", "bad"}
    [] k = "unix-socket" -> {"path"}
    [] k = "timeout"     -> {"5s", "9s"}

Nothing == [k \in Keys |-> Unset]

With(k, v) == [Nothing EXCEPT ![k] = v]

SourceLaunches ==
  UNION {{[op |-> o, flags |-> With(k, f), env |-> With(k, e), local |-> With(k, l),
           global |-> With(k, g), discovered |-> d] :
            o \in {"config", "get"}, d \in BOOLEAN,
            f \in ValuesFor(k) \union {Unset}, e \in ValuesFor(k) \union {Unset},
            l \in ValuesFor(k) \union {Unset}, g \in ValuesFor(k) \union {Unset}} : k \in Keys}

FlagLaunches ==
  UNION {{[op |-> o, flags |-> [With(k, v) EXCEPT ![m] = w], env |-> Nothing, local |-> Nothing,
           global |-> Nothing, discovered |-> TRUE] :
            o \in Ops, v \in ValuesFor(k), w \in ValuesFor(m)} : k \in Keys, m \in Keys}

MCLaunches == SourceLaunches \union FlagLaunches

-----------------------------------------------------------------------------
(* The calls.                                                              *)

SlimUrl == <<"", "org", "ns", "agent">>

Interface(b, v, t) == [binding |-> b, url |-> SlimUrl, version |-> v, tenant |-> t]

(* A call without a field to follow.                                       *)
Plain(method, tenant, answer) ==
  [method |-> method, ids |-> [i \in 1 .. IdCount(method) |-> <<"i">>], side |-> "none", message |-> "none", field |-> "none",
   value |-> "none", tenant |-> tenant, answer |-> answer]

Calls(cards, requests, flags, lists) ==
  [card : cards, defaults : {TRUE}, preferred : {<<>>}, request : requests, flag : flags, hooks : lists]

AllBindings == Registered \union {"JSONRPC", "HTTP+JSON"}

Only(b) == <<Interface(b, Version, None)>>

(* Every value of every field of every message, over every binding.        *)
Probes ==
  UNION {UNION {UNION {UNION {
    {[Plain(method, None, Success) EXCEPT !.side = side, !.message = message,
                                          !.field = field, !.value = v] :
       v \in ValuesOf(Shapes[message][field])} :
    field \in DOMAIN Shapes[message]} :
    message \in Methods[method][side]} :
    side \in {"request", "response"}} :
    method \in DOMAIN Methods}

ProbeSetups == Calls({Only(b) : b \in AllBindings}, Probes, {NoVersion}, {<<>>})

(* Every error, over every binding.                                        *)
ErrorSetups ==
  Calls({<<Interface(b, Version, t)>> : b \in AllBindings, t \in {None, "t1"}},
        {Plain(m, None, a) : m \in {"GetTask", "SubscribeToTask"}, a \in Answers \ {Success}},
        {NoVersion}, {<<"any">>})

(* Cards of up to three interfaces, and preferences.                       *)
Interfaces ==
  {Interface("JSONRPC", <<1, 0>>, None), Interface("GRPC", <<1, 1>>, ""),
   Interface("HTTP+JSON", Unparsable, "t1"), Interface("GRPC", <<0, 3>>, None),
   Interface("CUSTOM", <<1, 0>>, None),
   [Interface("SLIMRPC", <<1, 0>>, None) EXCEPT !.url = <<"org", "", "agent">>]}

Preferences == {<<>>, <<"GRPC">>, <<"HTTP+JSON", "GRPC">>, <<"GRPC", "CUSTOM", "JSONRPC">>}

SelectionSetups ==
  [card : UNION {[1 .. n -> Interfaces] : n \in 0 .. 3}, defaults : BOOLEAN, preferred : Preferences,
   request : {Plain("SendMessage", "t2", Success)}, flag : {NoVersion}, hooks : {<<"version">>}]

(* Versions declared and asked for, and interceptors.                      *)
HookSetups ==
  Calls({<<Interface(b, v, "")>> : b \in AllBindings, v \in {<<1, 0>>, <<1, 1>>, Unparsable}},
        {Plain(m, "t2", a) : m \in {"GetTask", "SendStreamingMessage"},
                             a \in {Success, Error("TASK_NOT_FOUND", {}, TRUE)}},
        {NoVersion, <<1, 0>>, <<1, 1>>},
        {<<>>, <<"param">>, <<"old">>, <<"any", "any">>, <<"any", "param", "version">>})

(* Ids and tenants that look like parts of a path.                         *)
MCIds ==
  {<<"i">>, <<"i", ":cancel">>, <<"i", ":subscribe">>, <<".">>, <<"..">>, <<>>, <<"tasks">>,
   <<"cancel">>, <<"subscribe">>, <<"pushNotificationConfigs">>, <<"push-configs">>}

AddressSetups ==
  Calls({Only(b) : b \in {"JSONRPC", "HTTP+JSON", "GRPC"}},
        UNION {{[Plain(method, t, Success) EXCEPT !.ids = ids] :
                  t \in {None, "tasks", ".", "..", "message"},
                  ids \in [1 .. IdCount(method) -> MCIds]} : method \in DOMAIN Methods},
        {NoVersion}, {<<>>})

(* A call with nothing to it.                                              *)
PlainSetup ==
  [card |-> Only("JSONRPC"), defaults |-> TRUE, preferred |-> <<>>,
   request |-> Plain("GetTask", None, Success), flag |-> NoVersion, hooks |-> <<>>]

MCSetups ==
  {PlainSetup} \union ProbeSetups \union ErrorSetups \union SelectionSetups \union HookSetups
              \union AddressSetups

-----------------------------------------------------------------------------
(* Input: lines of flags, references, lines of a .env, credentials and     *)
(* what there is to report.                                                *)

Flag(f, of, shape, r, j) == [flag |-> f, of |-> of, shape |-> shape, read |-> r, json |-> j]

CommonFlags ==
  {Flag("text", "a", "text", "ok", FALSE), Flag("file", "u", "url", "NotFound", FALSE),
   Flag("file", "f", "path", "ok", FALSE), Flag("data", "-", "-", "NotFound", FALSE),
   Flag("data", "d", "path", "ok", TRUE), Flag("data", "e", "path", "NotFound", TRUE),
   Flag("media", "m", "type", "ok", FALSE), Flag("media", "n", "type", "ok", FALSE)}

RareFlags ==
  {Flag("file", "g", "path", r, FALSE) : r \in {"NotFound", "InvalidData"}} \union
  {Flag("data", "h", "path", r, j) :
     r \in {"ok", "NotFound", "InvalidFilename", "PermissionDenied", "InvalidData"}, j \in BOOLEAN}

MCLines == UNION {[1 .. n -> CommonFlags] : n \in 0 .. 3} \union [1 .. 2 -> CommonFlags \union RareFlags]

SendJobs ==
  [kind : {"send"}, line : MCLines, text : {"none", "t"}, given : {{}}] \union
  [kind : {"send"}, line : {<<>>}, text : {"t"},
   given : SUBSET MessageFlags]

PushJobs == [kind : {"push"}, given : SUBSET PushFlags]

Hosts == {<<"localhost">>, <<"127.0.0.1">>, <<"::1">>, <<"[", "::1", "]">>, <<"agent.example">>, <<"a">>}
FilePaths == {<<"/", "card">>, <<".", "/", "card">>, <<"..", "\\", "card">>, <<"\\", "card">>,
              <<"C", ":", "\\", "card">>, <<"C", ":", "/", "card">>}

CardJobs ==
  {r \in [kind : {"card"}, scheme : {"none", "http", "https"}, host : Hosts, port : BOOLEAN,
          path : {<<>>, <<"/">>, <<"/", "/">>, <<"/", "card.json">>, <<"/", "card.json", "/">>},
          onDisk : BOOLEAN] : r.host = <<"::1">> => ~r.port} \union
  [kind : {"card"}, scheme : {"none", "file"}, host : FilePaths, port : {FALSE}, path : {<<>>},
   onDisk : BOOLEAN] \union
  [kind : {"card"}, scheme : {"file"}, host : {<<"/", "C", ":", "/", "card">>}, port : {FALSE},
   path : {<<>>}, onDisk : {FALSE}]

Meant == {<<>>, <<"v">>, <<"v", "=">>, <<"dq">>, <<"dq", "v">>, <<"v", "sq">>, <<"#", "v">>}
DotenvJobs ==
  {[kind |-> "dotenv", comment |-> FALSE, meant |-> v,
    line |-> e \o <<"KEY", "=">> \o q \o v \o q] :
     e \in {<<>>, <<"export ">>}, q \in {<<>>, <<"dq">>, <<"sq">>}, v \in Meant} \union
  {[kind |-> "dotenv", comment |-> TRUE, meant |-> <<>>, line |-> l] :
     l \in {<<>>, <<"#", "KEY", "=", "v">>, <<"KEY">>}}

(* Durations with the unit they are meant in, headers and versions.        *)
ValueJobs ==
  {[kind |-> "duration", unit |-> d[1], line |-> <<n>> \o d[2]] :
     n \in {"5", "-1", "inf", "huge", "x"},
     d \in {<<"s", <<>>>>, <<"s", <<"s">>>>, <<"m", <<"m">>>>, <<"ms", <<"m", "s">>>>,
            <<"none", <<"s", "m">>>>}} \union
  [kind : {"header"}, line : UNION {[1 .. n -> {"x", ":"}] : n \in 0 .. 4}] \union
  [kind : {"version"}, line : UNION {[1 .. n -> {"1", "0", "3", ".", "v"}] : n \in 0 .. 3} \union
                              {<<"1", ".", "0", ".", "v">>}] \union
  [kind : {"list"}, given : SUBSET ListFlags]

CredentialJobs ==
  [kind : {"credentials"}, bearer : BOOLEAN, apiKey : BOOLEAN, insecure : BOOLEAN,
   params : {<<>>, <<<<"x", "param">>>>, <<<<"accept", "param">>, <<"x", "param">>>>,
             <<<<"authorization", "param">>, <<"x", "param">>, <<"x", "other">>>>}]

ReportJobs ==
  [kind : {"failure"}, of : Failures, http : {[decode |-> FALSE, status |-> 0]}] \union
  [kind : {"failure"}, of : {"Http"}, http : [decode : BOOLEAN, status : {0, 401, 403, 404, 500}]] \union
  [kind : {"answer"}, is : {"task", "message", "statusUpdate", "artifactUpdate"}, state : TaskState,
   output : {"text", "json"}, compact : BOOLEAN, streamed : BOOLEAN]

MCInputJobs == SendJobs \union PushJobs \union CardJobs \union DotenvJobs \union ValueJobs
              \union CredentialJobs \union ReportJobs

-----------------------------------------------------------------------------

(* An initial state of each, to rest in.                                   *)
StartRests ==
  /\ launch = [op |-> "config", flags |-> Nothing, env |-> Nothing, local |-> Nothing,
               global |-> Nothing, discovered |-> TRUE]
  /\ StartInit

CliRests ==
  /\ cmd = [op |-> "subscribe", wait |-> TRUE, streaming |-> TRUE]
  /\ CliInit /\ agent.state = "Working" /\ agent.streams

CallRests ==
  /\ setup = PlainSetup /\ CallInit

SseRests == binding = "JSONRPC" /\ SseInit

InputRests == job = [kind |-> "push", given |-> {}] /\ InputInit

(* The component in focus comes last: TLC then finds the rests once.       *)
Init ==
  \/ focus = "start" /\ CliRests /\ CallRests /\ SseRests /\ InputRests /\ FilesInit /\ StartInit
  \/ focus = "cli"   /\ StartRests /\ CallRests /\ SseRests /\ InputRests /\ FilesInit /\ CliInit
  \/ focus = "call"  /\ StartRests /\ CliRests /\ SseRests /\ InputRests /\ FilesInit /\ CallInit
  \/ focus = "sse"   /\ StartRests /\ CliRests /\ CallRests /\ InputRests /\ FilesInit /\ SseInit
  \/ focus = "files" /\ StartRests /\ CliRests /\ CallRests /\ SseRests /\ InputRests /\ FilesInit
  \/ focus = "input" /\ StartRests /\ CliRests /\ CallRests /\ SseRests /\ FilesInit /\ InputInit

CliFocus(A) ==
  focus = "cli" /\ A /\ UNCHANGED <<focus, startVars, callVars, sseVars, fileVars, inputVars>>

Next ==
  \/ focus = "start" /\ StartNext /\ UNCHANGED <<focus, cliVars, callVars, sseVars, fileVars, inputVars>>
  \/ CliFocus(CliNext)
  \/ focus = "call"  /\ CallNext  /\ UNCHANGED <<focus, startVars, cliVars, sseVars, fileVars, inputVars>>
  \/ focus = "sse"   /\ SseNext   /\ UNCHANGED <<focus, startVars, cliVars, callVars, fileVars, inputVars>>
  \/ focus = "files" /\ FilesNext /\ UNCHANGED <<focus, startVars, cliVars, callVars, sseVars, inputVars>>
  \/ focus = "input" /\ InputNext /\ UNCHANGED <<focus, startVars, cliVars, callVars, sseVars, fileVars>>

Fairness ==
  WF_vars(CliFocus(CliStep)) /\ WF_vars(CliFocus(StreamEnds)) /\ WF_vars(CliFocus(Tick))

Spec == Init /\ [][Next]_vars /\ Fairness

(* The state of every component is of its type.                            *)
TypeOK == StartTypeOK /\ CliTypeOK /\ CallTypeOK /\ SseTypeOK /\ FilesTypeOK /\ InputTypeOK

=============================================================================
