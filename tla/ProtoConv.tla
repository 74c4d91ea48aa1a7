------------------------------ MODULE ProtoConv ------------------------------
(***************************************************************************)
(* The conversions between the protocol's types and their protobuf         *)
(* messages (pbconv.rs), field by field.  Every binding sends what         *)
(* to_proto_* makes and hands on what from_proto_* makes of it, gRPC and   *)
(* SLIM as bytes, JSON-RPC and REST as ProtoJSON.                          *)
(*                                                                         *)
(* A value is "none" (Option::None), "zero" (the empty string or list,     *)
(* false, 0), "value", "negative" (of an integer) or "far" (a time outside *)
(* the range of a protobuf Timestamp, a number no double holds).  What a   *)
(* conversion does to a value depends on the kind of its field:            *)
(*   plain      always there, sent as it is;                               *)
(*   default    an Option, but a field without presence on the wire;       *)
(*   optional   an Option with presence on the wire;                       *)
(*   positive   the same, read as absent unless it is positive;            *)
(*   time       an optional timestamp;                                     *)
(*   json       an optional map of JSON values.                            *)
(***************************************************************************)
EXTENDS FiniteSets

Fields(plain, default, optional, json) ==
  [f \in plain \union default \union optional \union json |->
     CASE f \in plain -> "plain" [] f \in default -> "default"
       [] f \in optional -> "optional" [] f \in json -> "json"]

(* A message with one more field.                                          *)
And(shape, field, kind) ==
  [f \in DOMAIN shape \union {field} |-> IF f = field THEN kind ELSE shape[f]]

ValuesOf(kind) ==
  CASE kind = "plain"                  -> {"zero", "value"}
    [] kind \in {"default", "optional"} -> {"none", "zero", "value"}
    [] kind = "positive"               -> {"none", "zero", "negative", "value"}
    [] OTHER                           -> {"none", "zero", "value", "far"}

(* The helpers of the to_proto_ functions: unwrap_or_default,              *)
(* to_proto_timestamp, opt_metadata_to_proto.                              *)
ToProto(kind, v) ==
  CASE kind = "default" /\ v = "none" -> "zero"
    [] kind = "time" /\ v = "far"     -> "none"
    [] kind = "json" /\ v = "far"     -> "rounded"
    [] OTHER                          -> v

(* The helpers of the from_proto_ functions: empty_to_none, the tests for  *)
(* empty lists and false, non_positive_to_none.                            *)
(* Slip: an optional field is read like one without presence.              *)
FromProtoDropsZero(kind, w) ==
  IF w = "zero" /\ kind \in {"default", "optional", "positive"} THEN "none" ELSE w

FromProto(kind, w) ==
  CASE kind = "default" /\ w = "zero"                   -> "none"
    [] kind = "positive" /\ w \in {"zero", "negative"}  -> "none"
    [] OTHER                                            -> w

-----------------------------------------------------------------------------
(* The messages.                                                           *)

PartShape == Fields({"content"}, {"filename", "media_type"}, {}, {"metadata"})

MessageShape ==
  Fields({"message_id", "role", "parts"},
         {"context_id", "task_id", "extensions", "reference_task_ids"}, {}, {"metadata"})

TaskStatusShape == And(Fields({"state"}, {}, {"message"}, {}), "timestamp", "time")

ArtifactShape ==
  Fields({"artifact_id", "parts"}, {"name", "description", "extensions"}, {}, {"metadata"})

TaskShape ==
  Fields({"id", "context_id", "status"}, {"artifacts", "history"}, {}, {"metadata"})

AuthenticationInfoShape == Fields({"scheme"}, {"credentials"}, {}, {})

PushConfigShape ==
  Fields({"task_id", "url"}, {"tenant", "id", "token"}, {"authentication"}, {})

SendMessageConfigurationShape ==
  Fields({}, {"accepted_output_modes", "return_immediately"},
         {"task_push_notification_config", "history_length"}, {})

SendMessageRequestShape ==
  Fields({"message"}, {"tenant"}, {"configuration"}, {"metadata"})

GetTaskRequestShape == Fields({"id"}, {"tenant"}, {"history_length"}, {})

ListTasksRequestShape ==
  And(And(Fields({}, {"tenant", "context_id", "status", "page_token"},
                 {"history_length", "include_artifacts"}, {}),
          "page_size", "positive"), "status_timestamp_after", "time")

ListTasksResponseShape ==
  Fields({"tasks", "next_page_token", "page_size", "total_size"}, {}, {}, {})

CancelTaskRequestShape == Fields({"id"}, {"tenant"}, {}, {"metadata"})

SubscribeToTaskRequestShape == Fields({"id"}, {"tenant"}, {}, {})

GetExtendedAgentCardRequestShape == Fields({}, {"tenant"}, {}, {})

GetPushConfigRequestShape == Fields({"task_id", "id"}, {"tenant"}, {}, {})

DeletePushConfigRequestShape == Fields({"task_id", "id"}, {"tenant"}, {}, {})

ListPushConfigsRequestShape ==
  Fields({"task_id"}, {"tenant", "page_size", "page_token"}, {}, {})

ListPushConfigsResponseShape == Fields({"configs"}, {"next_page_token"}, {}, {})

StatusUpdateShape ==
  Fields({"task_id", "context_id", "status"}, {}, {}, {"metadata"})

ArtifactUpdateShape ==
  Fields({"task_id", "context_id", "artifact"}, {"append", "last_chunk"}, {}, {"metadata"})

AgentInterfaceShape ==
  Fields({"url", "protocol_binding", "protocol_version"}, {"tenant"}, {}, {})

AgentProviderShape == Fields({"organization", "url"}, {}, {}, {})

AgentExtensionShape == Fields({"uri"}, {"description", "required"}, {}, {"params"})

AgentCapabilitiesShape ==
  Fields({}, {"extensions"}, {"streaming", "push_notifications", "extended_agent_card"}, {})

AgentSkillShape ==
  Fields({"id", "name", "description", "tags"},
         {"examples", "input_modes", "output_modes", "security_requirements"}, {}, {})

AgentCardSignatureShape == Fields({"protected", "signature"}, {}, {}, {"header"})

(* The five schemes: what each holds of its own is plain.                  *)
SecuritySchemeShape ==
  Fields({"scheme", "name", "url", "flows"},
         {"description", "bearer_format", "oauth2_metadata_url"}, {}, {})

SecurityRequirementShape == Fields({"schemes"}, {}, {}, {})

OAuthFlowsShape ==
  Fields({"flow", "urls", "scopes"}, {"refresh_url", "pkce_required"}, {}, {})

AgentCardShape ==
  Fields({"name", "description", "version", "supported_interfaces", "capabilities",
          "default_input_modes", "default_output_modes", "skills"},
         {"security_schemes", "security_requirements", "signatures"},
         {"provider", "documentation_url", "icon_url"}, {})

-----------------------------------------------------------------------------
(* What each call carries, nested messages included.                       *)

Shapes ==
  [Part |-> PartShape, Message |-> MessageShape, Task |-> TaskShape, TaskStatus |-> TaskStatusShape,
   Artifact |-> ArtifactShape, TaskPushNotificationConfig |-> PushConfigShape,
   AuthenticationInfo |-> AuthenticationInfoShape, SendMessageRequest |-> SendMessageRequestShape,
   SendMessageConfiguration |-> SendMessageConfigurationShape, StatusUpdate |-> StatusUpdateShape,
   ArtifactUpdate |-> ArtifactUpdateShape, GetTaskRequest |-> GetTaskRequestShape,
   ListTasksRequest |-> ListTasksRequestShape, ListTasksResponse |-> ListTasksResponseShape,
   CancelTaskRequest |-> CancelTaskRequestShape,
   SubscribeToTaskRequest |-> SubscribeToTaskRequestShape,
   GetPushConfigRequest |-> GetPushConfigRequestShape,
   ListPushConfigsRequest |-> ListPushConfigsRequestShape,
   ListPushConfigsResponse |-> ListPushConfigsResponseShape,
   DeletePushConfigRequest |-> DeletePushConfigRequestShape,
   GetExtendedAgentCardRequest |-> GetExtendedAgentCardRequestShape,
   AgentCard |-> AgentCardShape, AgentInterface |-> AgentInterfaceShape,
   AgentProvider |-> AgentProviderShape, AgentExtension |-> AgentExtensionShape,
   AgentCapabilities |-> AgentCapabilitiesShape, AgentSkill |-> AgentSkillShape,
   AgentCardSignature |-> AgentCardSignatureShape, SecurityScheme |-> SecuritySchemeShape,
   SecurityRequirement |-> SecurityRequirementShape, OAuthFlows |-> OAuthFlowsShape]

Content == {"Part", "Message"}

TaskContent == Content \union {"Task", "TaskStatus", "Artifact"}

PushConfigContent == {"TaskPushNotificationConfig", "AuthenticationInfo"}

SendContent ==
  Content \union PushConfigContent \union {"SendMessageRequest", "SendMessageConfiguration"}

StreamContent == TaskContent \union {"StatusUpdate", "ArtifactUpdate"}

CardContent ==
  {"AgentCard", "AgentInterface", "AgentProvider", "AgentExtension", "AgentCapabilities",
   "AgentSkill", "AgentCardSignature", "SecurityScheme", "SecurityRequirement", "OAuthFlows"}

Call(request, response) == [request |-> request, response |-> response]

(* The methods of the protocol, by the messages they send and return.      *)
Methods ==
  [SendMessage          |-> Call(SendContent, TaskContent),
   SendStreamingMessage |-> Call(SendContent, StreamContent),
   GetTask              |-> Call({"GetTaskRequest"}, TaskContent),
   ListTasks            |-> Call({"ListTasksRequest"}, TaskContent \union {"ListTasksResponse"}),
   CancelTask           |-> Call({"CancelTaskRequest"}, TaskContent),
   SubscribeToTask      |-> Call({"SubscribeToTaskRequest"}, StreamContent),
   CreatePushConfig     |-> Call(PushConfigContent, PushConfigContent),
   GetPushConfig        |-> Call({"GetPushConfigRequest"}, PushConfigContent),
   ListPushConfigs      |-> Call({"ListPushConfigsRequest"},
                                 PushConfigContent \union {"ListPushConfigsResponse"}),
   DeletePushConfig     |-> Call({"DeletePushConfigRequest"}, {}),
   GetExtendedAgentCard |-> Call({"GetExtendedAgentCardRequest"}, CardContent)]

=============================================================================
