------------------------------ MODULE CliInput ------------------------------
(***************************************************************************)
(* What a2acli makes of what its caller typed, and what it tells the       *)
(* caller: the parts of a message from flags in any order, the place of an *)
(* agent card from a reference in one of several forms, a line of a .env   *)
(* file, the value of a flag, the headers that carry credentials, and the  *)
(* report of a failure or of an answer.  Each is a job of its own.         *)
(*                                                                         *)
(* Typed text is a sequence of tokens, cut where the code looks.           *)
(***************************************************************************)
EXTENDS Integers, Sequences, SequencesExt, TLC, CliStart, CliTasks

CONSTANT InputJobs

VARIABLES
  job,      \* what is typed or reported, [kind, ...]
  step,     \* "begin", "tokens" or "done"
  taken,    \* how many tokens of the message are dealt with
  msgParts, \* the parts made of them
  piped,    \* stdin: "good" JSON, "bad", "unreadable" or "drained"
  result    \* what came of it: [error, value]

inputVars == <<job, step, taken, msgParts, piped, result>>

NoResult == [error |-> "none", value |-> <<>>]

(* The flags that are values of the request, by command.                   *)
MessageFlags == {"history-length", "accept-output", "return-immediately", "context-id", "task-id"}
ListFlags == {"context-id", "status", "page-size", "page-token", "history-length",
              "include-artifacts"}
PushFlags == {"config-id", "token", "auth-scheme", "auth-credentials"}

InputInit ==
  /\ job \in InputJobs /\ piped \in {"good", "bad", "unreadable"}
  /\ job.kind # "send" => piped = "good"
  /\ step = "begin" /\ taken = 0 /\ msgParts = <<>> /\ result = NoResult

Becomes(v) == step' = "done" /\ result' = [error |-> "none", value |-> <<v>>]

FailsWith(e) == step' = "done" /\ result' = [error |-> e, value |-> <<>>]

Makes(v) == step = "begin" /\ Becomes(v) /\ UNCHANGED <<job, taken, msgParts, piped>>

-----------------------------------------------------------------------------
(* The message.  A flag: [flag, of, shape, read, json]; read is how        *)
(* reading a file of that name ends, json whether what is read, or the     *)
(* text itself when there is no such file, is JSON.                        *)

PartFlags == <<"text", "file", "data">>

IndicesOf(flag) ==
  SelectSeq([i \in DOMAIN job.line |-> i], LAMBDA i : job.line[i].flag = flag)

(* clap keeps the values of each flag apart, with their places.            *)
PartTokens == FlattenSeq([k \in DOMAIN PartFlags |-> IndicesOf(PartFlags[k])])

(* Slip: flag by flag.                                                     *)
AsGathered(indices) == indices

SortedByIndex(indices) == SortSeq(indices, LAMBDA i, j : i < j)

Tokens == SortedByIndex(PartTokens \o IndicesOf("media"))

(* What is refused, and the shorthand, before any file is read.            *)
CheckLine ==
  /\ job.kind = "send" /\ step = "begin" /\ UNCHANGED <<job, taken, piped>>
  /\ CASE PartTokens = <<>> /\ (IndicesOf("media") # <<>> \/ job.text = "none") ->
            FailsWith("InvalidInput") /\ UNCHANGED msgParts
       [] PartTokens = <<>> /\ IndicesOf("media") = <<>> /\ job.text # "none" ->
            /\ step' = "tokens" /\ UNCHANGED result
            /\ msgParts' = <<[kind |-> "text", of |-> job.text, media |-> "none"]>>
       [] PartTokens # <<>> /\ job.text # "none" -> FailsWith("InvalidInput") /\ UNCHANGED msgParts
       [] OTHER -> step' = "tokens" /\ UNCHANGED <<result, msgParts>>

MadePart(kind, of) == [kind |-> kind, of |-> of, media |-> "none"]
Unusable(e) == MadePart("error", e)

(* Bytes need not be text.                                                 *)
BuildFilePart(t) ==
  CASE t.shape = "url" -> MadePart("url", t.of)
    [] t.shape # "url" /\ t.read \in {"ok", "InvalidData"} -> MadePart("raw", t.of)
    [] OTHER -> Unusable("ReadFile")

MeansNotAReadablePath(kind) == kind \in {"NotFound", "InvalidFilename", "InvalidInput"}

ParseDataPartJson(json, of) == IF json THEN MadePart("data", of) ELSE Unusable("InvalidInput")

BuildDataPart(t) ==
  CASE t.shape = "-" /\ piped = "unreadable"           -> Unusable("ReadFile")
    [] t.shape = "-" /\ piped # "unreadable"           -> ParseDataPartJson(piped = "good", "stdin")
    [] t.shape # "-" /\ t.read = "ok"                  -> ParseDataPartJson(t.json, t.of)
    [] t.shape # "-" /\ MeansNotAReadablePath(t.read)  -> ParseDataPartJson(t.json, "inline")
    [] OTHER                                           -> Unusable("ReadFile")

BuildPart(t) ==
  CASE t.flag = "text" -> MadePart("text", t.of)
    [] t.flag = "file" -> BuildFilePart(t)
    [] t.flag = "data" -> BuildDataPart(t)

(* The first token that is of no use ends it.                              *)
TakeToken ==
  /\ step = "tokens" /\ taken < Len(Tokens) /\ taken' = taken + 1 /\ UNCHANGED job
  /\ LET t == job.line[Tokens[taken + 1]]
     IN  IF t.flag = "media"
         THEN /\ UNCHANGED piped
              /\ IF msgParts = <<>> THEN FailsWith("InvalidInput") /\ UNCHANGED msgParts
                 ELSE /\ msgParts' = [msgParts EXCEPT ![Len(msgParts)].media = t.of]
                      /\ UNCHANGED <<step, result>>
         ELSE LET p == BuildPart(t)
              IN  /\ piped' = IF t.flag = "data" /\ t.shape = "-" /\ piped # "unreadable"
                              THEN "drained" ELSE piped
                  /\ IF p.kind = "error" THEN FailsWith(p.of) /\ UNCHANGED msgParts
                     ELSE msgParts' = Append(msgParts, p) /\ UNCHANGED <<step, result>>

Configuring == {"history-length", "accept-output", "return-immediately"}

(* A configuration only if a flag asks for some of it.                     *)
BuildSendMessageRequest ==
  /\ step = "tokens" /\ taken = Len(Tokens) /\ UNCHANGED <<job, taken, msgParts, piped>>
  /\ Becomes([parts |-> msgParts, ids |-> job.given \intersect {"context-id", "task-id"},
              configuration |-> job.given \intersect Configuring])

BuildPushNotificationConfig ==
  /\ job.kind = "push" /\ step = "begin" /\ UNCHANGED <<job, taken, msgParts, piped>>
  /\ IF "auth-credentials" \in job.given /\ "auth-scheme" \notin job.given
     THEN FailsWith("InvalidInput") ELSE Becomes(job.given)

(* A filter of task list that was not asked for is not sent, not even as   *)
(* false.                                                                  *)
BuildListTasksRequest == job.kind = "list" /\ Makes(job.given)

-----------------------------------------------------------------------------
(* The place of the card.  job: [scheme, host, port, path, onDisk].        *)

Letters == {"a", "C"}
LoopbackIps == {"127.0.0.1", "::1"}
WellKnown == "/.well-known/agent-card.json"

Spelled(r) ==
  (IF r.scheme = "none" THEN <<>> ELSE <<r.scheme, "://">>) \o r.host
    \o (IF r.port THEN <<":", "9000">> ELSE <<>>) \o r.path

Opens(s, prefix) == Len(s) >= Len(prefix) /\ SubSeq(s, 1, Len(prefix)) = prefix

HasWindowsDrivePrefix(s) ==
  Len(s) >= 3 /\ s[1] \in Letters /\ s[2] = ":" /\ s[3] \in {"\\", "/"}

LooksLikeFilePath(s) ==
  \/ \E prefix \in {<<"/">>, <<".", "/">>, <<"..", "/">>, <<"\\">>, <<".", "\\">>, <<"..", "\\">>} :
       Opens(s, prefix)
  \/ HasWindowsDrivePrefix(s) \/ job.onDisk

(* What comes before the first c; everything without one.                  *)
UpTo(s, c) ==
  LET at_ == {i \in DOMAIN s : s[i] = c}
  IN  IF at_ = {} THEN s ELSE SubSeq(s, 1, (CHOOSE i \in at_ : \A j \in at_ : i <= j) - 1)

IsLoopbackHost(s) ==
  LET host == IF s # <<>> /\ s[1] = "[" THEN UpTo(Tail(s), "]") ELSE UpTo(s, ":")
  IN  s \in {<<ip>> : ip \in LoopbackIps}
      \/ host \in {<<h>> : h \in LoopbackIps \union {"localhost"}}

Trimmed(url) ==
  LET kept == {i \in DOMAIN url : url[i] # "/"}
  IN  SubSeq(url, 1, CHOOSE i \in kept : \A j \in kept : j <= i)

AppendWellKnownPath(url) ==
  IF "/" \in Range(Trimmed(url)) THEN url ELSE Append(Trimmed(url), WellKnown)

NormalizeCardReference(s) ==
  CASE Opens(s, <<"file", "://">>) ->
         LET rest == SubSeq(s, 3, Len(s))
         IN  [is |-> "file",
              of |-> IF rest # <<>> /\ rest[1] = "/" /\ HasWindowsDrivePrefix(Tail(rest))
                     THEN Tail(rest) ELSE rest]
    [] "://" \notin Range(s) /\ LooksLikeFilePath(s) -> [is |-> "file", of |-> s]
    [] "://" \notin Range(s) /\ ~LooksLikeFilePath(s) ->
         [is |-> "url",
          of |-> AppendWellKnownPath(<<IF IsLoopbackHost(s) THEN "http" ELSE "https", "://">> \o s)]
    [] OTHER -> [is |-> "url", of |-> AppendWellKnownPath(s)]

ResolveReference == job.kind = "card" /\ Makes(NormalizeCardReference(Spelled(job)))

-----------------------------------------------------------------------------
(* A line of a .env file, from its tokens; blanks are trimmed already.     *)

Stripped(value, quote) ==
  Len(value) >= 2 /\ value[1] = quote /\ value[Len(value)] = quote

Unquoted(value) ==
  IF Stripped(value, "dq") \/ Stripped(value, "sq") THEN SubSeq(value, 2, Len(value) - 1) ELSE value

ParseLine(line) ==
  LET rest == IF Opens(line, <<"export ">>) THEN Tail(line) ELSE line
      key  == UpTo(rest, "=")
  IN  IF line = <<>> \/ Opens(line, <<"#">>) \/ "=" \notin Range(rest) THEN <<>>
      ELSE <<key, Unquoted(SubSeq(rest, Len(key) + 2, Len(rest)))>>

ParseDotenv == job.kind = "dotenv" /\ Makes(ParseLine(job.line))

-----------------------------------------------------------------------------
(* Values of flags; clap reports what a parser refuses.                    *)

Magnitudes == {"5", "-1", "inf", "huge"}
Numbers == ("0" :> 0) @@ ("1" :> 1) @@ ("3" :> 3)

Closes(s, suffix) ==
  Len(s) >= Len(suffix) /\ SubSeq(s, Len(s) - Len(suffix) + 1, Len(s)) = suffix

(* "ms" is looked for before "s" and "m"; seconds are the default.         *)
UnitOf(s) ==
  CASE Closes(s, <<"m", "s">>)                             -> [unit |-> "ms", of |-> SubSeq(s, 1, Len(s) - 2)]
    [] ~Closes(s, <<"m", "s">>) /\ Closes(s, <<"s">>)      -> [unit |-> "s", of |-> Front(s)]
    [] Closes(s, <<"m">>)                                  -> [unit |-> "m", of |-> Front(s)]
    [] OTHER                                               -> [unit |-> "s", of |-> s]

(* Duration::from_secs_f64 panics on what is finite and too large.         *)
ParseDuration ==
  /\ job.kind = "duration" /\ step = "begin" /\ UNCHANGED <<job, taken, msgParts, piped>>
  /\ LET d == UnitOf(job.line)
     IN  CASE d.of \notin {<<n>> : n \in Magnitudes} \/ d.of \in {<<"-1">>, <<"inf">>} -> FailsWith("Usage")
           [] d.of = <<"huge">> -> FailsWith("panic")
           [] OTHER -> Becomes(d)

ParseHeader ==
  /\ job.kind = "header" /\ step = "begin" /\ UNCHANGED <<job, taken, msgParts, piped>>
  /\ LET name == UpTo(job.line, ":")
     IN  IF ":" \notin Range(job.line) \/ name = <<>> THEN FailsWith("Usage")
         ELSE Becomes(<<name, SubSeq(job.line, Len(name) + 2, Len(job.line))>>)

(* What follows the second dot is not looked at.                           *)
ParseProtocolVersion(s) ==
  LET major == UpTo(s, ".")
      minor == UpTo(SubSeq(s, Len(major) + 2, Len(s)), ".")
      OK(n) == n \in {<<d>> : d \in DOMAIN Numbers}
  IN  IF ~OK(major) \/ ("." \in Range(s) /\ ~OK(minor)) THEN <<>>
      ELSE <<Numbers[major[1]], IF "." \in Range(s) THEN Numbers[minor[1]] ELSE 0>>

ValidateA2aVersion ==
  /\ job.kind = "version" /\ step = "begin" /\ UNCHANGED <<job, taken, msgParts, piped>>
  /\ LET v == ParseProtocolVersion(job.line)
     IN  IF v # <<>> /\ v[1] = 1 THEN Becomes(v) ELSE FailsWith("InvalidInput")

-----------------------------------------------------------------------------
(* Credentials.  job: [bearer, apiKey, params, insecure]; params are       *)
(* headers of the caller's.  A header: <<name, value>>.                    *)

VisibleHeaders == {"a2a-version", "accept", "accept-encoding", "content-length", "content-type",
                   "host", "user-agent"}

(* apply_request_auth for the card, interceptors for the calls.            *)
RequestHeaders ==
  (IF job.bearer THEN <<<<"authorization", "secret">>>> ELSE <<>>)
    \o (IF job.apiKey THEN <<<<"x-api-key", "secret">>>> ELSE <<>>) \o job.params

(* AuthInterceptor.before, one after the other: values gather by name.     *)
ParamsOf(headers) ==
  [n \in {h[1] : h \in Range(headers)} |->
     LET own == SelectSeq(headers, LAMBDA h : h[1] = n) IN [i \in DOMAIN own |-> own[i][2]]]

(* render_headers.                                                         *)
RenderHeaders(headers) ==
  {<<h[1], IF h[1] \in VisibleHeaders THEN h[2] ELSE "redacted">> : h \in headers}

(* send: the request is built, logged as it is built, and goes out.        *)
Sent(headers) == RenderHeaders(Range(headers))

RedactSecret(given) == IF given THEN "set" ELSE "not set"

WarnIfInsecure ==
  IF ~job.insecure THEN "none"
  ELSE IF job.bearer \/ job.apiKey THEN "credentials at risk" ELSE "insecure"

(* One command: the card, the call, what is logged and what is shown.      *)
UseCredentials ==
  /\ job.kind = "credentials"
  /\ Makes([card   |-> RequestHeaders,
            call   |-> ParamsOf(RequestHeaders),
            logged |-> Sent(RequestHeaders),
            shown  |-> [bearer |-> RedactSecret(job.bearer), apiKey |-> RedactSecret(job.apiKey)],
            warned |-> WarnIfInsecure])

-----------------------------------------------------------------------------
(* Reports.  A failure of the card's request: [decode, status].            *)

HttpError(e) ==
  CASE e.decode                               -> "CardInvalid"
    [] ~e.decode /\ e.status \in {401, 403}   -> "unauthorized"
    [] ~e.decode /\ e.status \notin {0, 401, 403} -> "not found"
    [] OTHER                                  -> "unreachable"

(* The code of the error envelope.                                         *)
Symbol(e) ==
  CASE e = "A2A"                                      -> "reason"
    [] e \in {"Usage", "InvalidInput", "ReadFile"}     -> "USAGE"
    [] e \in {"CardFile", "not found"}                 -> "CARD_NOT_FOUND"
    [] e \in {"CardInvalid", "CardSchemaInvalid"}      -> "CARD_INVALID"
    [] e = "unreachable"                               -> "UNREACHABLE"
    [] e = "unauthorized"                              -> "AUTH_FAILED"
    [] e = "Timeout"                                   -> "TIMEOUT"
    [] OTHER                                           -> "INTERNAL"

Failures == {"A2A", "Json", "InvalidInput", "ReadFile", "SaveFilePart", "Timeout", "CardFile",
             "CardInvalid", "CardSchemaInvalid", "Usage"}

Envelope(e) ==
  [code |-> Symbol(e), a2a |-> e = "A2A", all |-> e = "CardSchemaInvalid"]

(* main: the envelope on stderr, whatever the output format, and the       *)
(* status.                                                                 *)
ReportFailure ==
  /\ job.kind = "failure"
  /\ LET e == IF job.of = "Http" THEN HttpError(job.http) ELSE job.of
     IN  Makes([stdout |-> <<>>, exit |-> ExitCode(e),
                stderr |-> <<Envelope(e)>>])

(* task_outcome_note.                                                      *)
Noted(state) == state \in {"Failed", "Rejected", "InputRequired", "AuthRequired"}

(* TaskOutcome: what carries the state of a task.                          *)
WarnOutcome(is, state) ==
  IF is \in {"task", "statusUpdate"} /\ Noted(state) THEN <<state>> ELSE <<>>

PrintOutput ==
  CASE job.output = "text"                   -> "text"
    [] job.output = "json" /\ job.compact    -> "line"
    [] OTHER                                 -> "pretty"

PrintStreamValue == IF job.output = "text" THEN "text" ELSE "line"

(* report: the warning, then the answer; print_or_destroy for an event.    *)
ReportAnswer ==
  /\ job.kind = "answer"
  /\ Makes([stdout |-> <<IF job.streamed THEN PrintStreamValue ELSE PrintOutput>>, exit |-> 0,
            stderr |-> WarnOutcome(job.is, job.state)])

-----------------------------------------------------------------------------

InputNext ==
  \/ CheckLine \/ TakeToken \/ BuildSendMessageRequest \/ BuildPushNotificationConfig
  \/ BuildListTasksRequest \/ ParseDuration \/ ParseHeader \/ ValidateA2aVersion
  \/ ResolveReference \/ ParseDotenv \/ UseCredentials \/ ReportFailure \/ ReportAnswer

InputTypeOK ==
  /\ step \in {"begin", "tokens", "done"} /\ taken \in 0 .. 9
  /\ piped \in {"good", "bad", "unreadable", "drained"}

Ended(kind) == job.kind = kind /\ step = "done"

Made == result.value[1]

(* The places of part flags, and the flags that follow one up to the next. *)
PartPlaces == {i \in DOMAIN job.line : job.line[i].flag # "media"}
Following(i) ==
  {j \in DOMAIN job.line : i < j /\ \A k \in PartPlaces : k <= i \/ j < k}

(* The media type that was typed last for the part at i.                   *)
MediaTyped(i) ==
  IF Following(i) = {} THEN "none"
  ELSE job.line[CHOOSE j \in Following(i) : \A k \in Following(i) : k <= j].of

(* A request has the parts that were typed, in that order, each with the   *)
(* media type typed after it; a file that is there is sent or its failure  *)
(* reported, never taken for JSON, and stdin makes at most one part.  What *)
(* cannot be placed is refused.  A configuration holds what was asked for. *)
MessageAsTyped ==
  Ended("send") /\ result.error = "none" =>
    /\ IF PartPlaces = {} THEN msgParts = <<MadePart("text", job.text)>> /\ job.line = <<>>
       ELSE /\ job.text = "none" /\ 1 \in PartPlaces
            /\ Len(msgParts) = Cardinality(PartPlaces)
            /\ \A i \in PartPlaces :
                 LET p == msgParts[Cardinality({k \in PartPlaces : k <= i})]  t == job.line[i]
                 IN  /\ p.media = MediaTyped(i)
                     /\ p.kind \in [text |-> {"text"}, file |-> {"url", "raw"}, data |-> {"data"}][t.flag]
                     /\ p.of # t.of => t.flag = "data" /\ (t.shape = "-" \/ t.read # "ok")
                     /\ p.of = "inline" => t.read \notin {"ok", "InvalidData", "PermissionDenied"}
    /\ Cardinality({i \in DOMAIN msgParts : msgParts[i].of = "stdin"}) <= 1
    /\ Made.parts = msgParts
    /\ Made.configuration \union Made.ids = job.given

(* Path shapes, by how they are typed.                                     *)
PathShaped == job.host # <<>> /\ (job.host[1] \in {"/", ".", "..", "\\"} \/ HasWindowsDrivePrefix(job.host))
Loopback == job.host \in {<<"localhost">>, <<"127.0.0.1">>, <<"::1">>, <<"[", "::1", "]">>}
BareHost == \A i \in DOMAIN job.path : job.path[i] = "/"

(* A reference names a file when it is shaped like one or is one, and a    *)
(* host otherwise: no path is fetched, no URL is opened as a file.  A URL  *)
(* keeps its scheme; without one it is https for every host that is not    *)
(* this machine (and for this one too when a path follows the bare name).  *)
(* A host alone gets the well-known path, a path is kept as it is.         *)
ReferenceAsMeant ==
  Ended("card") =>
    LET v == Made
    IN  CASE job.scheme = "file" ->
               /\ v.is = "file" /\ v.of \in {job.host \o job.path, Tail(job.host \o job.path)}
               /\ Len(v.of) < Len(job.host \o job.path) => HasWindowsDrivePrefix(v.of)
               /\ v.of[1] = "/" => ~HasWindowsDrivePrefix(Tail(v.of))
          [] job.scheme = "none" /\ (PathShaped \/ job.onDisk) ->
               v = [is |-> "file", of |-> Spelled(job)]
          [] OTHER ->
               /\ v.is = "url" /\ v.of[2] = "://"
               /\ job.scheme # "none" => v.of[1] = job.scheme
               /\ job.scheme = "none" /\ v.of[1] = "http" => Loopback
               /\ job.scheme = "none" /\ v.of[1] # "http" =>
                    ~Loopback \/ (job.path # <<>> /\ ~job.port)
               /\ IF BareHost THEN v.of = Append(SubSeq(v.of, 1, Len(v.of) - 1), WellKnown)
                                   /\ "/" \notin Range(v.of)
                  ELSE Opens(SubSeq(v.of, 3, Len(v.of)), job.host) /\ WellKnown \notin Range(v.of)

(* A setting of a .env file is read as it was meant, quoted or not, with   *)
(* one pair of quotes taken off and an = in it kept.                       *)
LineAsMeant ==
  Ended("dotenv") =>
    Made = IF job.comment THEN <<>> ELSE <<<<"KEY">>, job.meant>>

(* A duration has the unit that was typed, and is never negative; a header *)
(* keeps the colons of its value; a version that is let through has the    *)
(* major number 1.  What is refused is reported, but for a duration that   *)
(* is too large for the clock.                                             *)
ValuesAsMeant ==
  /\ Ended("duration") =>
       IF result.error = "none" THEN Made = [unit |-> job.unit, of |-> <<"5">>]
       ELSE job.line[1] # "5" \/ Len(job.line) > 1
  /\ Ended("duration") => result.error \in {"none", "Usage"} \/ job.line[1] = "huge"
  /\ Ended("header") =>
       IF result.error = "none"
       THEN job.line = Made[1] \o <<":">> \o Made[2]
            /\ Made[1] # <<>> /\ ":" \notin Range(Made[1])
       ELSE result.error = "Usage" /\ (job.line = <<>> \/ ":" \notin Range(Tail(job.line)) \/ job.line[1] = ":")
  /\ Ended("version") =>
       IF result.error = "none" THEN job.line[1] = "1" /\ Made[1] = 1
       ELSE ~Opens(job.line, <<"1">>) \/ Len(job.line) > 1
  /\ Ended("list") => Made = job.given

(* A credential goes with the card's request and with the call alike, and  *)
(* nowhere else: not into the log, where a header of the caller's own is   *)
(* hidden too, not into config show; and nobody turns verification off     *)
(* without being told, and told what it puts at risk.                      *)
SecretsStay ==
  Ended("credentials") =>
    LET v == Made
    IN  /\ \A h \in Range(v.card) : h[2] \in Range(v.call[h[1]])
        /\ \A n \in DOMAIN v.call : \A i \in DOMAIN v.call[n] : <<n, v.call[n][i]>> \in Range(v.card)
        /\ \A h \in v.logged : h[2] # "secret" /\ (h[1] = "x" => h[2] # "param")
        /\ {v.shown.bearer, v.shown.apiKey} \subseteq {"set", "not set"}
        /\ job.insecure <=> v.warned # "none"
        /\ v.warned = "insecure" => "secret" \notin {h[2] : h \in Range(v.card)}

(* A report can be acted on: one symbol has one status, the same whether   *)
(* a card came from a URL or a file, an A2A code comes with errors of the  *)
(* agent only; a task that is settled and did not succeed, other than by   *)
(* being canceled, is pointed out, and nothing but an answer is printed    *)
(* where answers are.                                                      *)
ReportAgrees ==
  /\ Ended("failure") =>
       /\ Made.exit # 0 /\ Made.stdout = <<>> /\ Len(Made.stderr) = 1
       /\ LET line == Made.stderr[1]
          IN  /\ \A e \in Failures \union {"unreachable", "not found", "unauthorized"} :
                   Symbol(e) = line.code => ExitCode(e) = Made.exit
              /\ line.a2a <=> job.of = "A2A"
              /\ line.code = "CARD_NOT_FOUND" \/ line.code = "UNREACHABLE" <=> Made.exit = 3
  /\ Ended("answer") =>
       /\ Made.exit = 0 /\ Len(Made.stdout) = 1
       /\ job.is = "task" /\ IsSettled(job.state) /\ job.state \notin {"Completed", "Canceled"} =>
            Made.stderr # <<>>
       /\ Made.stderr # <<>> => IsSettled(job.state) /\ job.is \notin {"message", "artifactUpdate"}
       /\ job.output = "json" /\ job.streamed => Made.stdout = <<"line">>

(* What was typed is what is sent, and what is told is what happened.      *)
InputFaithful ==
  MessageAsTyped /\ ReferenceAsMeant /\ LineAsMeant /\ ValuesAsMeant /\ SecretsStay /\ ReportAgrees

=============================================================================
