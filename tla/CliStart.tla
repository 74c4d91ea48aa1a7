------------------------------- MODULE CliStart -------------------------------
(***************************************************************************)
(* An invocation of a2acli up to its request: the settings, from flags,    *)
(* environment and two .env files; the checks of flags and input; the      *)
(* agent named by a card or an endpoint; the card; the client; what the    *)
(* card must declare; and the exit status of everything that can fail on   *)
(* the way.  What happens after the request is sent is in CliTasks.        *)
(***************************************************************************)
EXTENDS Integers, FiniteSets

CONSTANT Launches   \* [op, flags, env, local, global, discovered], see below

Unset == "unset"

(* The settings that decide what happens, "timeout" for all the others.    *)
Keys == {"agent-card", "endpoint", "transport", "a2a-version", "insecure",
         "ca-cert", "unix-socket", "timeout"}

Ops == {"config", "card", "extended", "send", "get", "list", "subscribe", "push", "push create"}

ASSUME LaunchAssumption ==
  \A l \in Launches : /\ l.op \in Ops /\ l.discovered \in BOOLEAN
                      /\ \A s \in {l.flags, l.env, l.local, l.global} : DOMAIN s = Keys

(* Where a setting may come from.                                          *)
ConfigSource == {"flag", "env", "local", "global", "default"}

VARIABLES
  launch,    \* the command and, by source, the settings given; discovered:
             \*   local is a .env found by walking up, not by --config
  at,        \* where the process stands
  environ,   \* [Keys -> [value, source]]: the environment, with what .env files added
  read,      \* the card: "none", "declares" or "undeclared" (the capability needed)
  touched,   \* history: whether the network was used
  called,    \* history: whether a request may have reached the agent
  exitStatus \* exit status, -1 while it runs

startVars == <<launch, at, environ, read, touched, called, exitStatus>>

StartInit ==
  /\ launch \in Launches
  /\ at = "load" /\ read = "none" /\ touched = FALSE /\ called = FALSE /\ exitStatus = -1
  /\ environ = [k \in Keys |-> [value |-> launch.env[k],
                                source |-> IF launch.env[k] = Unset THEN "default" ELSE "env"]]

(* exit_code.                                                              *)
ExitCode(error) ==
  CASE error \in {"Usage", "InvalidInput", "ReadFile"} -> 2
    [] error \in {"CardFile", "unreachable", "not found"} -> 3
    [] error = "unauthorized" -> 4
    [] error = "Timeout" -> 5
    [] OTHER -> 1

Exit(s) == at' = "done" /\ exitStatus' = s

Fails(error) == Exit(ExitCode(error))

Goes(to) == at' = to /\ UNCHANGED exitStatus

-----------------------------------------------------------------------------
(* Settings.                                                               *)

NotFromDiscoveredDotenv == {"ca-cert", "unix-socket"}

(* apply_dotenv_file: what is not a real environment variable.             *)
(* Slip: what is not in the environment yet.                               *)
ApplyIfAbsent(env, file, source, discovered) ==
  [k \in Keys |->
     IF file[k] = Unset \/ env[k].value # Unset \/ (discovered /\ k \in NotFromDiscoveredDotenv)
     THEN env[k] ELSE [value |-> file[k], source |-> source]]

ApplyDotenvFile(env, file, source, discovered) ==
  [k \in Keys |->
     IF file[k] = Unset \/ launch.env[k] # Unset \/ (discovered /\ k \in NotFromDiscoveredDotenv)
     THEN env[k] ELSE [value |-> file[k], source |-> source]]

LoadDotenvConfig ==
  /\ at = "load" /\ Goes("parse")
  /\ environ' = ApplyDotenvFile(ApplyDotenvFile(environ, launch.global, "global", FALSE),
                                launch.local, "local", launch.discovered)
  /\ UNCHANGED <<launch, read, touched, called>>

(* A setting, and the source config show reports of it.                    *)
Setting(k) ==
  IF launch.flags[k] # Unset THEN [value |-> launch.flags[k], source |-> "flag"] ELSE environ[k]

Given(k) == Setting(k).value # Unset

Step(from) == at = from /\ UNCHANGED <<launch, environ>>

Locally == UNCHANGED <<read, touched, called>>

(* clap takes the arguments, refuses them, or prints help or the version. *)
ParseArgs == Step("parse") /\ Locally /\ (Fails("Usage") \/ Exit(0) \/ Goes("run"))

(* run: validate_a2a_version; config show needs nothing else.              *)
Run ==
  /\ Step("run") /\ Locally
  /\ CASE Setting("a2a-version").value = "0.x" -> Fails("InvalidInput")
       [] Setting("a2a-version").value # "0.x" /\ launch.op = "config" -> Exit(0)
       [] OTHER -> Goes("prepare")

(* resolve_message_parts, file_part_saver.                                 *)
PrepareInput ==
  /\ Step("prepare") /\ Locally
  /\ \/ Goes("select")
     \/ launch.op = "send" /\ \E e \in {"InvalidInput", "ReadFile"} : Fails(e)
     \/ launch.op \in {"send", "get", "subscribe"} /\ Fails("Usage")

-----------------------------------------------------------------------------
(* The agent.                                                              *)

(* card get: --validate may reject the card, also one that stands in for   *)
(* an endpoint; else it is printed.                                        *)
PrintCard == Exit(0) \/ Fails("CardSchemaInvalid")

ResolveAgentSelection ==
  /\ Step("select") /\ Locally
  /\ CASE Given("endpoint") /\ (Given("agent-card") \/ Setting("transport").value # "one")
            -> Fails("InvalidInput")
       [] Given("endpoint") /\ ~Given("agent-card") /\ Setting("transport").value = "one"
            -> IF launch.op = "card" THEN PrintCard ELSE Goes("connect")
       [] OTHER -> Goes("fetch")

(* build_http_client.                                                      *)
Unbuildable ==
  \/ Setting("insecure").value = "true" /\ Given("ca-cert")
  \/ Setting("ca-cert").value = "bad"

(* A card was read.                                                        *)
HasCard ==
  /\ read' \in {"declares", "undeclared"}
  /\ IF launch.op = "card" THEN PrintCard ELSE Goes("connect")

(* resolve_agent_card_with_raw: a file, or a request of its own.           *)
ResolveAgentCard ==
  /\ Step("fetch") /\ UNCHANGED called
  /\ \/ /\ Setting("agent-card").value = "file" /\ UNCHANGED touched
        /\ \/ HasCard
           \/ UNCHANGED read /\ \E e \in {"CardFile", "CardInvalid"} : Fails(e)
     \/ /\ Setting("agent-card").value # "file" /\ Unbuildable
        /\ Fails("InvalidInput") /\ UNCHANGED <<read, touched>>
     \/ /\ Setting("agent-card").value # "file" /\ ~Unbuildable /\ touched' = TRUE
        /\ \/ HasCard
           \/ /\ UNCHANGED read
              /\ \E e \in {"unreachable", "not found", "unauthorized", "CardInvalid"} : Fails(e)

(* resolve_client: needs_custom_http_client, then the factory.             *)
ResolveClient ==
  /\ Step("connect") /\ UNCHANGED <<read, called>>
  /\ IF Unbuildable THEN Fails("InvalidInput") /\ UNCHANGED touched
     ELSE touched' \in {touched, TRUE} /\ (Goes("gate") \/ Fails("A2A"))

Gated == {"extended", "subscribe", "push", "push create"}

(* DeclaredCapabilities.require; without a card nothing is required.       *)
(* push create checks its own flags after that.                            *)
RequireCapability ==
  /\ Step("gate") /\ Locally
  /\ IF launch.op \in Gated /\ read = "undeclared" THEN Fails("A2A")
     ELSE Goes("call") \/ (launch.op = "push create" /\ Fails("InvalidInput"))

(* The request and what follows it.                                        *)
CallAgent ==
  /\ Step("call") /\ UNCHANGED read /\ touched' = TRUE /\ called' = TRUE
  /\ \/ Exit(0)
     \/ \E e \in {"A2A", "Json", "SaveFilePart"} : Fails(e)
     \/ launch.op \in {"send", "get", "subscribe"} /\ Fails("Timeout")

StartNext ==
  \/ LoadDotenvConfig \/ ParseArgs \/ Run \/ PrepareInput \/ ResolveAgentSelection
  \/ ResolveAgentCard \/ ResolveClient \/ RequireCapability \/ CallAgent

-----------------------------------------------------------------------------

StartTypeOK ==
  /\ exitStatus \in -1 .. 5 /\ (exitStatus = -1 <=> at # "done")
  /\ \A k \in Keys : Setting(k).source \in ConfigSource

(* The sources of a setting, the strongest first.                          *)
SourcesOf(k) ==
  << <<"flag", launch.flags[k]>>, <<"env", launch.env[k]>>,
     <<"local", IF launch.discovered /\ k \in {"ca-cert", "unix-socket"} THEN Unset
                ELSE launch.local[k]>>,
     <<"global", launch.global[k]>>, <<"default", Unset>> >>

(* A command runs with, and config show reports, the value of the          *)
(* strongest source that gives one, and that source.  Of a .env found by   *)
(* walking up, ca-cert and unix-socket do not count, and nothing else is   *)
(* exempt: insecure, agent-card, endpoint and transport do count there,    *)
(* although such a file is said not to choose what the CLI trusts or where *)
(* it sends traffic (lib.rs:1762, README of a2acli, 204).  A usage error   *)
(* needs no network (but for push create), and exit status 2, 3 or 4 means *)
(* that no request reached the agent: the command may be repeated.         *)
StartIsSound ==
  /\ at # "load" => \A k \in Keys : \E i \in 1 .. 5 :
       /\ Setting(k) = [value |-> SourcesOf(k)[i][2], source |-> SourcesOf(k)[i][1]]
       /\ SourcesOf(k)[i][2] # Unset \/ i = 5
       /\ \A j \in 1 .. i - 1 : SourcesOf(k)[j][2] = Unset
  /\ exitStatus \in {2, 3, 4} => ~called
  /\ exitStatus = 2 /\ launch.op # "push create" => ~touched

=============================================================================
