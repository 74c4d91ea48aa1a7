----------------------------- MODULE PluginServe -----------------------------
(***************************************************************************)
(* The SLIM transport plugin: a process the command line client starts,    *)
(* which connects to a SLIM gateway and serves one agent over gRPC on the  *)
(* loopback interface, to the holder of a token.  It reports on one line   *)
(* of stdout and serves until its stdin is closed.                         *)
(*                                                                         *)
(* An app name is a sequence of characters.                                *)
(***************************************************************************)
EXTENDS Integers, Sequences, SequencesExt, FiniteSetsExt, Dispatch, TLC

CONSTANTS
  PluginLaunches,  \* [command, env, file, target, auth, name]
  AppNames,        \* names for which labels are compared
  PluginHeaders,   \* metadata a caller may send
  MaxLabel         \* longest component label (1024)

ASSUME PluginAssumption ==
  /\ MaxLabel \in Nat /\ AppNames \subseteq Seq(STRING)
  /\ \A l \in PluginLaunches : {l.env, l.target, l.auth} \subseteq BOOLEAN /\ l.name \in Seq(STRING)
  /\ \A h \in PluginHeaders : h \in Seq(Range(h)) /\ \A e \in Range(h) : e.ascii \in BOOLEAN

VARIABLES
  plaunch,   \* how it was started
  step,      \* the next step of run, "serve" or "ended"
  stdin,     \* "open" or "closed"
  lines,     \* what it wrote to stdout
  exit,      \* exit status, -1 while it runs
  pcall      \* a call to the proxy: [headers, status, upstream]

pluginVars == <<plaunch, step, stdin, lines, exit, pcall>>

NoPluginCall == [headers |-> <<>>, status |-> "none", upstream |-> <<>>]

PluginInit ==
  /\ plaunch \in PluginLaunches
  /\ step = 1 /\ stdin = "open" /\ lines = <<>> /\ exit = -1 /\ pcall = NoPluginCall

-----------------------------------------------------------------------------
(* Names.                                                                  *)

Slashes(name) == {i \in DOMAIN name : name[i] = "/"}

(* parse_proto_name: split at the first two slashes.                       *)
NameParts(name) ==
  IF Cardinality(Slashes(name)) < 2 THEN <<>>
  ELSE LET one == Min(Slashes(name))  two == Min(Slashes(name) \ {one})
       IN  <<SubSeq(name, 1, one - 1), SubSeq(name, one + 1, two - 1),
             SubSeq(name, two + 1, Len(name))>>

ParsesAsName(name) == Len(NameParts(name)) = 3 /\ <<>> \notin Range(NameParts(name))

Escaped(c) ==
  CASE c = "/" -> <<"-", "2", "f">>
    [] c = "-" -> <<"-", "2", "d">>
    [] OTHER   -> <<c>>

PrefixLength == 5   \* the length of "name-" and of "hash-"

(* service_component_name: a label that is too long is made of hashes, if  *)
(* the name has its three parts.                                           *)
ServiceComponentName(name) ==
  LET label == FlattenSeq([i \in DOMAIN name |-> Escaped(name[i])])
  IN  CASE PrefixLength + Len(label) <= MaxLabel -> [kind |-> "name", of |-> label]
        [] PrefixLength + Len(label) > MaxLabel /\ ParsesAsName(name) ->
             [kind |-> "hash", of |-> NameParts(name)]
        [] OTHER -> [kind |-> "none", of |-> <<>>]

-----------------------------------------------------------------------------
(* run and run_with_config, up to the handshake.                           *)

Steps == <<"env", "load", "target", "auth", "label", "connect", "name", "app",
           "subscribe", "tls", "bind", "handshake">>

(* How a step may end: what it reads decides, or what is outside.          *)
StepOutcomes(s) ==
  CASE s = "env"    -> {plaunch.env}
    [] s = "load"   -> {plaunch.file = "good"}
    [] s = "target" -> {plaunch.target}
    [] s = "auth"   -> {plaunch.auth}
    [] s = "label"  -> {ServiceComponentName(plaunch.name).kind # "none"}
    [] s = "name"   -> {ParsesAsName(plaunch.name)}
    [] s = "handshake" -> {TRUE}
    [] OTHER -> BOOLEAN

WriteHandshake(success) == lines' = Append(lines, [kind |-> "handshake", success |-> success])

(* The next step succeeds; the last one reports that the proxy listens.    *)
RunStep ==
  /\ plaunch.command = "serve" /\ exit = -1 /\ step \in DOMAIN Steps
  /\ TRUE \in StepOutcomes(Steps[step])
  /\ step' = step + 1
  /\ IF Steps[step] = "handshake" THEN WriteHandshake(TRUE) ELSE UNCHANGED lines
  /\ UNCHANGED <<plaunch, stdin, exit, pcall>>

(* Slip: a configuration that cannot be loaded ends it at once.            *)
FailsUnreported ==
  /\ plaunch.command = "serve" /\ exit = -1 /\ step \in DOMAIN Steps
  /\ FALSE \in StepOutcomes(Steps[step])
  /\ exit' = 1
  /\ IF Steps[step] \in {"env", "load"} THEN UNCHANGED lines ELSE WriteHandshake(FALSE)
  /\ UNCHANGED <<plaunch, step, stdin, pcall>>

(* Any failure is reported on stdout too, before the process exits.        *)
RunFails ==
  /\ plaunch.command = "serve" /\ exit = -1 /\ step \in DOMAIN Steps
  /\ FALSE \in StepOutcomes(Steps[step])
  /\ WriteHandshake(FALSE) /\ exit' = 1
  /\ UNCHANGED <<plaunch, step, stdin, pcall>>

PrintInfo ==
  /\ plaunch.command = "info" /\ exit = -1
  /\ lines' = Append(lines, [kind |-> "info", success |-> TRUE]) /\ exit' = 0
  /\ UNCHANGED <<plaunch, step, stdin, pcall>>

Serving == step = Len(Steps) + 1 /\ exit = -1

(* wait_for_close is polled from the moment it serves; a server that fails *)
(* ends the process in the same way.  A call under way is dropped.         *)
StopServing ==
  /\ Serving /\ exit' = 0
  /\ pcall' = IF pcall.status = "upstream" THEN [pcall EXCEPT !.status = "dropped"] ELSE pcall
  /\ UNCHANGED <<plaunch, step, stdin, lines>>

StdinClosed == Serving /\ stdin = "closed" /\ StopServing

ServeFails == StopServing

CloseStdin ==
  /\ stdin = "open" /\ exit = -1 /\ stdin' = "closed"
  /\ UNCHANGED <<plaunch, step, lines, exit, pcall>>

-----------------------------------------------------------------------------
(* A call.                                                                 *)

TokenHeader == "a2a-plugin-token"

(* check_token_interceptor: one entry, and it is the token.                *)
TokenMatches(headers) ==
  \E i \in DOMAIN headers :
    /\ {j \in DOMAIN headers : headers[j].name = TokenHeader} = {i}
    /\ headers[i].ascii /\ headers[i].value = "token"

ForwardParams(ps) == [k \in DOMAIN ps \ {TokenHeader} |-> ps[k]]

(* TransportHandler makes the call again over SLIM, if GrpcHandler lets it *)
(* pass.                                                                   *)
CallProxy(headers) ==
  /\ Serving /\ pcall.status = "none"
  /\ LET ps == ExtractServiceParams(headers)
     IN  pcall' = IF ~TokenMatches(headers)
                  THEN [headers |-> headers, status |-> "unauthenticated", upstream |-> <<>>]
                  ELSE IF ~VersionSupported(ps)
                  THEN [headers |-> headers, status |-> "refused", upstream |-> <<>>]
                  ELSE [headers |-> headers, status |-> "upstream", upstream |-> ForwardParams(ps)]
  /\ UNCHANGED <<plaunch, step, stdin, lines, exit>>

AgentAnswersProxy ==
  /\ Serving /\ pcall.status = "upstream" /\ pcall' = [pcall EXCEPT !.status = "answered"]
  /\ UNCHANGED <<plaunch, step, stdin, lines, exit>>

PluginNext ==
  \/ RunStep \/ RunFails \/ PrintInfo \/ StdinClosed \/ ServeFails \/ CloseStdin
  \/ \E headers \in PluginHeaders : CallProxy(headers)
  \/ AgentAnswersProxy

PluginSpec == PluginInit /\ [][PluginNext]_pluginVars

-----------------------------------------------------------------------------

PluginTypeOK ==
  /\ step \in 1 .. Len(Steps) + 1 /\ stdin \in {"open", "closed"} /\ exit \in -1 .. 1
  /\ pcall.status \in {"none", "unauthenticated", "refused", "upstream", "answered", "dropped"}

(* Two names never share a component label, or their apps would.           *)
LabelsDistinct ==
  \A m, n \in AppNames :
    LET a == ServiceComponentName(m)  b == ServiceComponentName(n)
    IN  m # n => a.kind = "none" \/ a.kind # b.kind \/ a.of # b.of

(* The plugin contract.  Whatever fails, the host reads exactly one line   *)
(* from a process that ended, and the status agrees with it; it reads      *)
(* success only from a proxy it can call, and then never a failure.  A     *)
(* usable app name is not what startup fails on, however long, and two     *)
(* names get two labels.  A call passes only with exactly the token the    *)
(* host was told, and the agent sees all of its parameters but that one.   *)
PluginSound ==
  /\ LabelsDistinct
  /\ Len(lines) <= 1 /\ (exit # -1 => Len(lines) = 1 /\ (exit = 0 <=> lines[1].success))
  /\ lines # <<>> /\ lines[1].kind = "handshake" /\ lines[1].success =>
       plaunch.env /\ plaunch.file = "good" /\ plaunch.target /\ ParsesAsName(plaunch.name)
  /\ exit = 1 /\ Steps[step] = "label" => ~ParsesAsName(plaunch.name)
  /\ pcall.status # "none" => lines # <<>>
  /\ pcall.status \in {"upstream", "answered", "dropped"} =>
       /\ {i \in DOMAIN pcall.headers : pcall.headers[i].name = TokenHeader} # {}
       /\ \A i \in DOMAIN pcall.headers :
            LET h == pcall.headers[i]
            IN  IF h.name = TokenHeader THEN h.value = "token"
                ELSE h.ascii => h.value \in Range(pcall.upstream[h.name])
       /\ TokenHeader \notin DOMAIN pcall.upstream

=============================================================================
