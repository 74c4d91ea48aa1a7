------------------------------ MODULE JsonForms ------------------------------
(***************************************************************************)
(* The two JSON forms of the protocol's types.  The serde form is that of  *)
(* agent cards, webhook bodies, the output of the command line client and  *)
(* the push config a JSON-RPC client creates; the ProtoJSON form, made     *)
(* from the protobuf messages (ProtoConv), is that of every other payload. *)
(* Documents of one form meet readers of the other.                        *)
(*                                                                         *)
(* A JSON value is "absent", "null", or a value of ProtoConv.  What serde  *)
(* does with a field depends on its attributes:                            *)
(*   required   none;                                                      *)
(*   default    a default, always written;                                 *)
(*   nullable   the same, null is read as the default;                     *)
(*   omitted    a default, not written when empty;                         *)
(*   option     an Option, not written when None;                          *)
(*   bag        an Option that is not written when empty either.           *)
(* A field whose value is a message is "value" or absent: what that        *)
(* message holds is a document of its own.                                 *)
(***************************************************************************)
EXTENDS Integers, Sequences, FiniteSets, ProtoConv, TLC

CONSTANTS
  FormParts,         \* JSON of parts nobody here wrote
  FormRequirements,  \* the same of security requirements, with what each says
  FormOrigins        \* Origin headers of a request for the card

VARIABLES
  doc,      \* the document: [kind, form, value, json]
  readings  \* reader -> what it took the document for

formVars == <<doc, readings>>

Refusal == [refused |-> TRUE]
Readers == {"serde", "protojson", "compat"}
NoDoc == [kind |-> "none", form |-> "none", value |-> <<>>, json |-> <<>>]

FormsInit == doc = NoDoc /\ readings = <<>>

Serde(required, option) == [f \in required |-> "required"] @@ [f \in option |-> "option"]

-----------------------------------------------------------------------------
(* Fields.                                                                 *)

SerdeWritten(kind, v) ==
  CASE kind = "option"  /\ v = "none"            -> "absent"
    [] kind = "omitted" /\ v = "zero"            -> "absent"
    [] kind = "bag"     /\ v \in {"none", "zero"} -> "absent"
    [] OTHER                                     -> v

(* Slip: a default covers only a field that is absent.                     *)
SerdeTakenStrictly(kind, j) ==
  CASE j \notin {"absent", "null"}                            -> j
    [] kind \in {"option", "bag"}                             -> "none"
    [] kind \in {"default", "nullable"} /\ j = "absent"       -> "zero"
    [] OTHER                                                  -> "refused"

SerdeTaken(kind, j) ==
  CASE j \notin {"absent", "null"}                                 -> j
    [] kind \in {"option", "bag"}                                  -> "none"
    [] kind = "nullable"                                           -> "zero"
    [] kind \in {"default", "omitted"} /\ j = "absent"             -> "zero"
    [] OTHER                                                       -> "refused"

HasPresence(kind) == kind \notin {"plain", "default"}

(* ProtoJSON leaves out a zero without presence.                           *)
ProtoJsonWritten(kind, v) ==
  LET w == ToProto(kind, v)
  IN  IF w = "none" \/ (w = "zero" /\ ~HasPresence(kind)) THEN "absent" ELSE w

ProtoJsonTaken(kind, j) ==
  FromProto(kind, IF j # "absent" THEN j ELSE IF HasPresence(kind) THEN "none" ELSE "zero")

-----------------------------------------------------------------------------
(* The serde forms of the messages.                                        *)

PartJson == Serde({"content"}, {"filename", "media_type"}) @@ [metadata |-> "bag"]

MessageJson ==
  Serde({"message_id", "role", "parts"},
        {"context_id", "task_id", "metadata", "extensions", "reference_task_ids"})

TaskStatusJson == Serde({"state"}, {"message", "timestamp"})

TaskJson == Serde({"id", "context_id", "status"}, {"artifacts", "history", "metadata"})

ArtifactJson ==
  Serde({"artifact_id", "parts"}, {"name", "description", "metadata", "extensions"})

SendMessageConfigurationJson ==
  Serde({}, {"accepted_output_modes", "task_push_notification_config", "history_length",
             "return_immediately"})

SendMessageRequestJson == Serde({"message"}, {"configuration", "metadata", "tenant"})

GetTaskRequestJson == Serde({"id"}, {"history_length", "tenant"})

ListTasksRequestJson ==
  Serde({}, {"context_id", "status", "page_size", "page_token", "history_length",
             "status_timestamp_after", "include_artifacts", "tenant"})

ListTasksResponseJson == Serde({"tasks", "next_page_token", "page_size", "total_size"}, {})

CancelTaskRequestJson == Serde({"id"}, {"metadata", "tenant"})

SubscribeToTaskRequestJson == Serde({"id"}, {"tenant"})

GetExtendedAgentCardRequestJson == Serde({}, {"tenant"})

AuthenticationInfoJson == Serde({"scheme"}, {"credentials"})

PushConfigJson ==
  Serde({"url"}, {"id", "token", "authentication", "tenant"}) @@ [task_id |-> "omitted"]

GetPushConfigRequestJson == Serde({"task_id", "id"}, {"tenant"})

ListPushConfigsRequestJson == Serde({"task_id"}, {"page_size", "page_token", "tenant"})

ListPushConfigsResponseJson == Serde({}, {"next_page_token"}) @@ [configs |-> "omitted"]

DeletePushConfigRequestJson == Serde({"task_id", "id"}, {"tenant"})

StatusUpdateJson == Serde({"task_id", "context_id", "status"}, {"metadata"})

ArtifactUpdateJson ==
  Serde({"task_id", "context_id", "artifact"}, {"append", "last_chunk", "metadata"})

AgentCardJson ==
  Serde({"name", "version", "supported_interfaces", "capabilities"},
        {"provider", "documentation_url", "icon_url", "security_schemes",
         "security_requirements", "signatures"})
    @@ [description |-> "default", default_input_modes |-> "default",
        default_output_modes |-> "default", skills |-> "nullable"]

AgentInterfaceJson == Serde({"url", "protocol_binding", "protocol_version"}, {"tenant"})

AgentProviderJson == Serde({"organization", "url"}, {})

AgentCapabilitiesJson ==
  Serde({}, {"streaming", "push_notifications", "extensions", "extended_agent_card"})

AgentExtensionJson == Serde({"uri"}, {"description", "required", "params"})

AgentSkillJson ==
  Serde({"id", "name", "description", "tags"},
        {"examples", "input_modes", "output_modes", "security_requirements"})

AgentCardSignatureJson == Serde({"protected", "signature"}, {"header"})

(* The five schemes and the five flows; what is required has no presence   *)
(* in protobuf, and neither has an option.                                 *)
SchemeJson ==
  [apiKeySecurityScheme        |-> Serde({"location", "name"}, {"description"}),
   httpAuthSecurityScheme      |-> Serde({"scheme"}, {"description", "bearer_format"}),
   oauth2SecurityScheme        |-> Serde({"flows"}, {"description", "oauth2_metadata_url"}),
   openIdConnectSecurityScheme |-> Serde({"open_id_connect_url"}, {"description"}),
   mtlsSecurityScheme          |-> Serde({}, {"description"})]

FlowJson ==
  [authorizationCode |-> Serde({"authorization_url", "token_url", "scopes"},
                               {"refresh_url", "pkce_required"}),
   clientCredentials |-> Serde({"token_url", "scopes"}, {"refresh_url"}),
   deviceCode        |-> Serde({"device_authorization_url", "token_url", "scopes"}, {"refresh_url"}),
   implicit          |-> Serde({"authorization_url", "scopes"}, {"refresh_url"}),
   password          |-> Serde({"token_url", "scopes"}, {"refresh_url"})]

Both(json, pb) == [json |-> json, pb |-> pb]
Alike(shapes) ==
  [n \in DOMAIN shapes |->
     Both(shapes[n], [f \in DOMAIN shapes[n] |->
                        IF shapes[n][f] = "required" THEN "plain" ELSE "default"])]

Structs ==
  [Part |-> Both(PartJson, PartShape), Message |-> Both(MessageJson, MessageShape),
   TaskStatus |-> Both(TaskStatusJson, TaskStatusShape), Task |-> Both(TaskJson, TaskShape),
   Artifact |-> Both(ArtifactJson, ArtifactShape),
   SendMessageConfiguration |-> Both(SendMessageConfigurationJson, SendMessageConfigurationShape),
   SendMessageRequest |-> Both(SendMessageRequestJson, SendMessageRequestShape),
   GetTaskRequest |-> Both(GetTaskRequestJson, GetTaskRequestShape),
   ListTasksRequest |-> Both(ListTasksRequestJson, ListTasksRequestShape),
   ListTasksResponse |-> Both(ListTasksResponseJson, ListTasksResponseShape),
   CancelTaskRequest |-> Both(CancelTaskRequestJson, CancelTaskRequestShape),
   SubscribeToTaskRequest |-> Both(SubscribeToTaskRequestJson, SubscribeToTaskRequestShape),
   GetExtendedAgentCardRequest |->
     Both(GetExtendedAgentCardRequestJson, GetExtendedAgentCardRequestShape),
   AuthenticationInfo |-> Both(AuthenticationInfoJson, AuthenticationInfoShape),
   PushConfig |-> Both(PushConfigJson, PushConfigShape),
   GetPushConfigRequest |-> Both(GetPushConfigRequestJson, GetPushConfigRequestShape),
   ListPushConfigsRequest |-> Both(ListPushConfigsRequestJson, ListPushConfigsRequestShape),
   ListPushConfigsResponse |-> Both(ListPushConfigsResponseJson, ListPushConfigsResponseShape),
   DeletePushConfigRequest |-> Both(DeletePushConfigRequestJson, DeletePushConfigRequestShape),
   StatusUpdate |-> Both(StatusUpdateJson, StatusUpdateShape),
   ArtifactUpdate |-> Both(ArtifactUpdateJson, ArtifactUpdateShape),
   AgentCard |-> Both(AgentCardJson, AgentCardShape),
   AgentInterface |-> Both(AgentInterfaceJson, AgentInterfaceShape),
   AgentProvider |-> Both(AgentProviderJson, AgentProviderShape),
   AgentCapabilities |-> Both(AgentCapabilitiesJson, AgentCapabilitiesShape),
   AgentExtension |-> Both(AgentExtensionJson, AgentExtensionShape),
   AgentSkill |-> Both(AgentSkillJson, AgentSkillShape),
   AgentCardSignature |-> Both(AgentCardSignatureJson, AgentCardSignatureShape)]
    @@ Alike(SchemeJson) @@ Alike(FlowJson)

-----------------------------------------------------------------------------
(* Structs, written and read whole.                                        *)

(* normalize_json: required fields ProtoJSON would leave out.              *)
InsertedRequired ==
  [ListTasksResponse |-> {"tasks", "next_page_token", "page_size", "total_size"},
   AgentCard |-> {"name", "description", "supported_interfaces", "version",
                  "default_input_modes", "default_output_modes", "skills"}]

InsertRequired(name, f, j) ==
  IF j = "absent" /\ name \in DOMAIN InsertedRequired /\ f \in InsertedRequired[name]
  THEN "zero" ELSE j

WriteStruct(form, name, v) ==
  [f \in DOMAIN v |->
     IF form = "serde" THEN SerdeWritten(Structs[name].json[f], v[f])
     ELSE InsertRequired(name, f, ProtoJsonWritten(Structs[name].pb[f], v[f]))]

(* An array of one config; neither form of any struct.                     *)
ConfigArray == [array |-> "value"]

ReadStruct(form, name, j) ==
  LET taken == [f \in DOMAIN j |->
                  CASE j = ConfigArray -> "refused"
                    [] form = "serde" -> SerdeTaken(Structs[name].json[f], j[f])
                    [] OTHER          -> ProtoJsonTaken(Structs[name].pb[f], j[f])]
  IN  IF \E f \in DOMAIN j : taken[f] = "refused" THEN Refusal ELSE taken

(* deserialize_task_push_notification_config and its list: the serde form, *)
(* a bare array for a list, then the other form.                           *)
ReadCompat(name, j) ==
  CASE ReadStruct("serde", name, j) # Refusal -> ReadStruct("serde", name, j)
    [] j = ConfigArray /\ name = "ListPushConfigsResponse" ->
         [configs |-> "value", next_page_token |-> "none"]
    [] OTHER -> ReadStruct("protojson", name, j)

IsCompat(name) == name \in {"PushConfig", "ListPushConfigsResponse"}

-----------------------------------------------------------------------------
(* Names, unions, parts.                                                   *)

RoleNames ==
  [Unspecified |-> "ROLE_UNSPECIFIED", User |-> "ROLE_USER", Agent |-> "ROLE_AGENT"]

TaskStateNames ==
  [Unspecified |-> "TASK_STATE_UNSPECIFIED", Submitted |-> "TASK_STATE_SUBMITTED",
   Working |-> "TASK_STATE_WORKING", Completed |-> "TASK_STATE_COMPLETED",
   Failed |-> "TASK_STATE_FAILED", Canceled |-> "TASK_STATE_CANCELED",
   InputRequired |-> "TASK_STATE_INPUT_REQUIRED", Rejected |-> "TASK_STATE_REJECTED",
   AuthRequired |-> "TASK_STATE_AUTH_REQUIRED"]

(* The enumerators of the protobuf enum have the same names; its default   *)
(* is left out, and stands for Unspecified with whatever is unknown.       *)
WriteName(form, names, v) ==
  IF form = "protojson" /\ v = "Unspecified" THEN "absent" ELSE names[v]

ReadName(form, names, j) ==
  LET known == {v \in DOMAIN names : names[v] = j}
  IN  CASE known # {} -> CHOOSE v \in known : TRUE
        [] known = {} /\ j = "" /\ form = "serde"          -> "Unspecified"
        [] known = {} /\ j = "absent" /\ form = "protojson" -> "Unspecified"
        [] OTHER -> "refused"

(* The members of a union by name, in the order they are looked for.       *)
ResponseUnion == <<"task", "message">>
StreamUnion == <<"message", "task", "statusUpdate", "artifactUpdate">>
SchemeUnion ==
  <<"apiKeySecurityScheme", "httpAuthSecurityScheme", "oauth2SecurityScheme",
    "openIdConnectSecurityScheme", "mtlsSecurityScheme">>
FlowUnion == <<"authorizationCode", "clientCredentials", "deviceCode", "implicit", "password">>

Unions == {ResponseUnion, StreamUnion, SchemeUnion, FlowUnion}

ReadUnion(order, members) ==
  LET at == {i \in DOMAIN order : order[i] \in members}
  IN  IF at = {} THEN "refused" ELSE order[CHOOSE i \in at : \A k \in at : i <= k]

(* A part's content is one of four; text, raw and url are JSON strings,    *)
(* data is anything.                                                       *)
PartContents ==
  {[is |-> k, of |-> "string"] : k \in {"text", "url"}} \union
  {[is |-> "raw", of |-> "base64"]} \union
  {[is |-> "data", of |-> t] : t \in {"string", "base64", "object", "null"}}

WritePart(c) == c.is :> c.of

IsString(j, k) == k \in DOMAIN j /\ j[k] \in {"string", "base64"}

ReadPart(j) ==
  CASE IsString(j, "text") -> [is |-> "text", of |-> "string"]
    [] ~IsString(j, "text") /\ IsString(j, "raw") ->
         IF j["raw"] = "base64" THEN [is |-> "raw", of |-> "base64"] ELSE Refusal
    [] ~IsString(j, "text") /\ ~IsString(j, "raw") /\ IsString(j, "url") ->
         [is |-> "url", of |-> "string"]
    [] \A k \in {"text", "raw", "url"} : ~IsString(j, k) ->
         IF "data" \in DOMAIN j THEN [is |-> "data", of |-> j["data"]] ELSE Refusal

-----------------------------------------------------------------------------
(* Security requirements: scheme -> scopes.  JSON: [type, of], of an array *)
(* the strings in it, of an object its members.                            *)

Array(scopes) == [type |-> "array", of |-> scopes]
Object(members) == [type |-> "object", of |-> members]

(* serialize_optional_security_requirements.                               *)
WriteRequirement(r) ==
  Object("schemes" :> Object([s \in DOMAIN r |-> Object("list" :> Array(r[s]))]))

NoScopes == <<"refused">>

ReadScopes(j) ==
  CASE j.type = "array" -> j.of
    [] j.type = "object" /\ "list" \in DOMAIN j.of ->
         IF j.of["list"].type = "array" THEN j.of["list"].of ELSE NoScopes
    [] j.type = "object" /\ DOMAIN j.of = {} -> <<>>
    [] OTHER -> NoScopes

ReadSchemes(j) ==
  IF j.type # "object" \/ \E s \in DOMAIN j.of : ReadScopes(j.of[s]) = NoScopes THEN Refusal
  ELSE [s \in DOMAIN j.of |-> ReadScopes(j.of[s])]

(* parse_security_requirement_value: the flat form first.                  *)
ReadRequirement(j) ==
  CASE j.type = "object" /\ (\A s \in DOMAIN j.of : j.of[s].type = "array") ->
         [s \in DOMAIN j.of |-> j.of[s].of]
    [] j.type = "object" /\ (\E s \in DOMAIN j.of : j.of[s].type # "array") ->
         IF "schemes" \in DOMAIN j.of THEN ReadSchemes(j.of["schemes"]) ELSE Refusal
    [] OTHER -> Refusal

-----------------------------------------------------------------------------
(* An interface's URL: whether it has the prefix http://.                  *)

Grpc == {"GRPC", "grpc"}

Normalized(i) == [i EXCEPT !.http = @ /\ i.binding \notin Grpc]

Interfaces == [http : BOOLEAN, binding : {"GRPC", "grpc", "JSONRPC"}]

(* serialize (wire_url), to_proto_agent_interface, deserialize; protobuf   *)
(* is read as it is.                                                       *)
WriteInterface(i) == Normalized(i)
ReadInterface(form, i) == IF form = "serde" THEN Normalized(i) ELSE i

(* Details of an error: a member "@type" beside those of its value.        *)
DetailTypes == {"ErrorInfo", "BadRequest", "Struct"}

WriteDetail(d) == ("@type" :> d.type) @@ [k \in d.members |-> "value"]
ReadDetail(j) ==
  [type |-> IF "@type" \in DOMAIN j THEN j["@type"] ELSE "Struct", members |-> DOMAIN j \ {"@type"}]

-----------------------------------------------------------------------------
(* The card by HTTP: what an origin is told, and what a client makes of an *)
(* answer.                                                                 *)

HandleAgentCard(origin) ==
  LET named == origin \notin {"none", "unreadable", "*"}
  IN  [allow |-> IF named THEN origin ELSE "*", credentials |-> named, vary |-> named]

Resolve(fault, j) ==
  IF fault # "none" THEN Refusal ELSE ReadStruct("serde", "AgentCard", j)

-----------------------------------------------------------------------------

(* Fields that hold a message.                                             *)
Nested == {"content", "status", "artifact", "capabilities", "flows", "message", "configuration",
           "task_push_notification_config", "authentication", "provider"}

FieldValues(name, f) ==
  LET kind == Structs[name].pb[f]
  IN  ValuesOf(kind) \ (IF f \in Nested THEN {"zero", "far"} ELSE {"far"})

(* Any two fields at any value, the others set.                            *)
StructValues(name) ==
  LET fs == DOMAIN Structs[name].pb
  IN  {[f \in fs |-> IF f = p[1] THEN p[2] ELSE IF f = q[1] THEN q[2] ELSE "value"] :
         p, q \in UNION {{f} \X FieldValues(name, f) : f \in fs}}

Write(kind, form, v, j) ==
  /\ doc' = [kind |-> kind, form |-> form, value |-> v, json |-> j]
  /\ UNCHANGED readings

WriteStructDoc ==
  \E name \in DOMAIN Structs, form \in {"serde", "protojson"} :
    \E v \in StructValues(name) : Write(name, form, v, WriteStruct(form, name, v))

(* A list as older servers send it.                                        *)
WriteArrayDoc ==
  Write("ListPushConfigsResponse", "array", [configs |-> "value", next_page_token |-> "none"],
        ConfigArray)

WriteNameDoc ==
  \E names \in {RoleNames, TaskStateNames}, form \in {"serde", "protojson"} :
    \E v \in DOMAIN names : Write("name", form, <<names, v>>, WriteName(form, names, v))

WriteUnionDoc ==
  \E order \in Unions : \E m \in {order[i] : i \in DOMAIN order} :
    Write("union", "serde", <<order, m>>, {m})

WritePartDoc ==
  \/ \E c \in PartContents : Write("part", "serde", c, WritePart(c))
  \/ \E j \in FormParts : Write("part", "foreign", Refusal, j)

Scopes == {<<>>, <<"s">>}

WriteRequirementDoc ==
  \/ \E names \in SUBSET {"schemes", "list", "k"} : \E r \in [names -> Scopes] :
       Write("requirement", "serde", r, WriteRequirement(r))
  \/ \E i \in DOMAIN FormRequirements :
       Write("requirement", "foreign", FormRequirements[i].value, FormRequirements[i].json)

WriteInterfaceDoc ==
  \E i \in Interfaces, form \in {"serde", "protojson"} : Write("interface", form, i, WriteInterface(i))

WriteDetailDoc ==
  \E d \in [type : DetailTypes, members : SUBSET {"reason", "domain", "fieldViolations"}] :
    Write("detail", "serde", d, WriteDetail(d))

Read(reader, r) ==
  /\ reader \notin DOMAIN readings /\ readings' = (reader :> r) @@ readings
  /\ UNCHANGED doc

ReadSerde ==
  CASE doc.kind \in DOMAIN Structs -> Read("serde", ReadStruct("serde", doc.kind, doc.json))
    [] doc.kind = "name"        -> Read("serde", ReadName("serde", doc.value[1], doc.json))
    [] doc.kind = "union"       -> Read("serde", ReadUnion(doc.value[1], doc.json))
    [] doc.kind = "part"        -> Read("serde", ReadPart(doc.json))
    [] doc.kind = "requirement" -> Read("serde", ReadRequirement(doc.json))
    [] doc.kind = "interface"   -> Read("serde", ReadInterface("serde", doc.json))
    [] doc.kind = "detail"      -> Read("serde", ReadDetail(doc.json))
    [] OTHER -> FALSE

ReadProtoJson ==
  CASE doc.kind \in DOMAIN Structs -> Read("protojson", ReadStruct("protojson", doc.kind, doc.json))
    [] doc.kind = "name"      -> Read("protojson", ReadName("protojson", doc.value[1], doc.json))
    [] doc.kind = "interface" -> Read("protojson", ReadInterface("protojson", doc.json))
    [] OTHER -> FALSE

ReadByCompat == IsCompat(doc.kind) /\ Read("compat", ReadCompat(doc.kind, doc.json))

(* A client, or a page of some origin, fetches the card a server serves,   *)
(* or one it wrote with null for an empty list.                            *)
FetchCard ==
  /\ doc.kind = "AgentCard"
  /\ \E origin \in FormOrigins, fault \in {"none", "network", "status"}, nulls \in BOOLEAN :
       Read("client",
            [origin |-> origin, headers |-> HandleAgentCard(origin), fault |-> fault,
             nulls |-> nulls,
             card |-> Resolve(fault, IF nulls /\ doc.json.skills \in {"absent", "zero"}
                                     THEN [doc.json EXCEPT !.skills = "null"] ELSE doc.json)])

FormsNext ==
  \/ /\ doc.kind = "none"
     /\ \/ WriteStructDoc \/ WriteArrayDoc \/ WriteNameDoc \/ WriteUnionDoc \/ WritePartDoc
        \/ WriteRequirementDoc \/ WriteInterfaceDoc \/ WriteDetailDoc
  \/ ReadSerde \/ ReadProtoJson \/ ReadByCompat \/ FetchCard

-----------------------------------------------------------------------------

FormsTypeOK == doc.form \in {"none", "serde", "protojson", "foreign", "array"}
               /\ DOMAIN readings \subseteq Readers \union {"client"}

(* What a value says: none and empty fall together where protobuf has no   *)
(* presence, and an empty map says nothing.                                *)
Meaning(name, v) ==
  [f \in DOMAIN v |->
     LET kind == Structs[name].pb[f]
     IN  IF kind = "json" /\ v[f] = "zero" THEN "none" ELSE FromProto(kind, ToProto(kind, v[f]))]

Reads(reader) == readings[reader]

(* One document, one meaning.  Whoever reads what this code wrote, in      *)
(* whichever of the two forms, takes it for what was meant or refuses it;  *)
(* the serde form is refused by no reader, ProtoJSON not by its own, push  *)
(* configs and their lists, in an older form too, not by the client, and a *)
(* list of tasks or a card by nobody.  A union is read as the member that  *)
(* was written, a part as its content even when that is null or looks like *)
(* another, a requirement as its schemes whatever they are called and in   *)
(* whichever form.  No interface of gRPC keeps a scheme its transport      *)
(* cannot dial.  A fetched card is the served one, and only an origin that *)
(* is named may use credentials.                                           *)
OneMeaning ==
  /\ doc.kind \in DOMAIN Structs => \A r \in DOMAIN readings \ {"client"} :
       IF Reads(r) = Refusal
       THEN \/ doc.form = "protojson" /\ r = "serde" /\ doc.kind \notin DOMAIN InsertedRequired
            \/ doc.form = "array" /\ r # "compat"
       ELSE Meaning(doc.kind, Reads(r)) = Meaning(doc.kind, doc.value)
  /\ doc.kind \in {"name", "union"} => \A r \in DOMAIN readings :
       Reads(r) = doc.value[2] \/ (Reads(r) = "refused" /\ doc.value[2] = "Unspecified" /\ r # doc.form)
  /\ doc.kind \in {"part", "requirement", "detail"} => \A r \in DOMAIN readings :
       IF doc.kind = "part" /\ doc.form = "foreign"
       THEN Reads(r) # Refusal => /\ Reads(r).is \in DOMAIN doc.json
                                  /\ Reads(r).is = "data" \/ IsString(doc.json, Reads(r).is)
       ELSE Reads(r) = doc.value
  /\ doc.kind = "interface" => \A r \in DOMAIN readings :
       Reads(r) = IF doc.value.binding \in Grpc THEN [doc.value EXCEPT !.http = FALSE] ELSE doc.value
  /\ "client" \in DOMAIN readings =>
       LET c == Reads("client")
       IN  /\ c.fault # "none" \/ Meaning("AgentCard", c.card) = Meaning("AgentCard", doc.value)
           /\ c.headers.credentials => c.headers.allow = c.origin /\ c.origin # "*"

=============================================================================
