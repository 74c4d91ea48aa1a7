------------------------------ MODULE ErrorCodes ------------------------------
(***************************************************************************)
(* How an error of the request handler travels back to the client, on each *)
(* binding: what the server writes and what the client makes of it.        *)
(*                                                                         *)
(* An error is [code, details, missing]: its A2A code, the kinds of its    *)
(* typed details ("info" an ErrorInfo, "bad" a BadRequest, "struct" any    *)
(* other) and whether its message speaks of something not found.           *)
(***************************************************************************)
EXTENDS FiniteSets

Codes ==
  {"TASK_NOT_FOUND", "TASK_NOT_CANCELABLE", "PUSH_NOTIFICATION_NOT_SUPPORTED",
   "UNSUPPORTED_OPERATION", "CONTENT_TYPE_NOT_SUPPORTED", "INVALID_AGENT_RESPONSE",
   "EXTENDED_CARD_NOT_CONFIGURED", "EXTENSION_SUPPORT_REQUIRED", "VERSION_NOT_SUPPORTED",
   "PARSE_ERROR", "INVALID_REQUEST", "METHOD_NOT_FOUND", "INVALID_PARAMS", "INTERNAL_ERROR"}

(* A code of the agent's own, outside the protocol's.                      *)
OtherCode == "OTHER"

Error(code, details, missing) == [code |-> code, details |-> details, missing |-> missing]

(* An error made by the client or the transport: no details.               *)
Internal(missing) == Error("INTERNAL_ERROR", {}, missing)

NoReason == "none"

-----------------------------------------------------------------------------

ErrorReason(code) ==
  CASE code = "EXTENDED_CARD_NOT_CONFIGURED" -> "EXTENDED_AGENT_CARD_NOT_CONFIGURED"
    [] code \in Codes \ {"EXTENDED_CARD_NOT_CONFIGURED"} -> code
    [] OTHER -> "INTERNAL_ERROR"

(* reason_to_error_code.                                                   *)
(* Slip: a reason names the code it is spelled like.                       *)
ReasonToErrorCodeStrict(reason) == IF reason \in Codes THEN reason ELSE NoReason

ReasonToErrorCode(reason) ==
  CASE reason = "EXTENDED_AGENT_CARD_NOT_CONFIGURED" -> "EXTENDED_CARD_NOT_CONFIGURED"
    [] reason = "UNSUPPORTED_CONTENT_TYPE" -> "CONTENT_TYPE_NOT_SUPPORTED"
    [] reason \in Codes -> reason
    [] OTHER -> NoReason

(* a2a_error_from_details: the reason of a protocol ErrorInfo decides;     *)
(* else a BadRequest makes an internal error one of the parameters.        *)
FromDetails(code, reason, details, missing) ==
  LET named == ReasonToErrorCode(reason)
      own   == CASE named # NoReason -> named
                 [] named = NoReason /\ "bad" \in details /\ code = "INTERNAL_ERROR" -> "INVALID_PARAMS"
                 [] OTHER -> code
  IN  Error(own, details, missing)

(* JSON-RPC: to_jsonrpc_error always appends an ErrorInfo of its own in    *)
(* the place of any other; parse_jsonrpc_error reads code and details.     *)
ToJsonRpcError(e) ==
  [code |-> e.code, reason |-> ErrorReason(e.code), details |-> e.details \union {"info"},
   missing |-> e.missing]

ParseJsonRpcError(w) == FromDetails(w.code, w.reason, w.details, w.missing)

JsonRpcError(e) == ParseJsonRpcError(ToJsonRpcError(e))

(* REST: rest_error_envelope does the same, but names no A2A code;         *)
(* rest_error has only the details to tell it from.                        *)
RestErrorEnvelope(e) ==
  [reason |-> ErrorReason(e.code), details |-> e.details \union {"info"}, missing |-> e.missing]

ParseRestError(w) == FromDetails("INTERNAL_ERROR", w.reason, w.details, w.missing)

RestError(e) == ParseRestError(RestErrorEnvelope(e))

(* gRPC: a2a_error_to_status, then status_to_a2a_error.                    *)
GrpcCode(code) ==
  CASE code = "TASK_NOT_FOUND" -> "NotFound"
    [] code \in {"TASK_NOT_CANCELABLE", "PUSH_NOTIFICATION_NOT_SUPPORTED",
                 "UNSUPPORTED_OPERATION", "EXTENDED_CARD_NOT_CONFIGURED",
                 "EXTENSION_SUPPORT_REQUIRED", "VERSION_NOT_SUPPORTED"} -> "FailedPrecondition"
    [] code \in {"CONTENT_TYPE_NOT_SUPPORTED", "PARSE_ERROR", "INVALID_REQUEST",
                 "INVALID_PARAMS"} -> "InvalidArgument"
    [] code = "METHOD_NOT_FOUND" -> "Unimplemented"
    [] code \in {"INVALID_AGENT_RESPONSE", "INTERNAL_ERROR"} -> "Internal"
    [] OTHER -> "Unknown"

FromGrpcCode(status) ==
  CASE status = "NotFound" -> "TASK_NOT_FOUND"
    [] status = "FailedPrecondition" -> "TASK_NOT_CANCELABLE"
    [] status = "Unimplemented" -> "METHOD_NOT_FOUND"
    [] status = "InvalidArgument" -> "INVALID_PARAMS"
    [] OTHER -> "INTERNAL_ERROR"

GrpcStatus(status, reason, details, missing) ==
  FromDetails(FromGrpcCode(status), reason, details, missing)

GrpcError(e) ==
  GrpcStatus(GrpcCode(e.code), ErrorReason(e.code),
             (e.details \intersect {"bad"}) \union {"info"}, e.missing)

(* SLIM: a2a_error_to_rpc_error, then rpc_error_to_a2a_error; only a code  *)
(* and the message travel.                                                 *)
SlimCode(code) ==
  IF code = "METHOD_NOT_FOUND" THEN "Unknown" ELSE GrpcCode(code)

SlimError(e) ==
  LET status == SlimCode(e.code)
  IN  Error(IF status = "Unimplemented" THEN "UNSUPPORTED_OPERATION" ELSE FromGrpcCode(status),
            {}, e.missing)

ErrorOver(binding, e) ==
  CASE binding = "JSONRPC"   -> JsonRpcError(e)
    [] binding = "HTTP+JSON" -> RestError(e)
    [] binding = "GRPC"      -> GrpcError(e)
    [] binding = "SLIMRPC"   -> SlimError(e)
    [] binding = "plugin"    -> GrpcError(SlimError(e))

(* is_connection_failure of the CLI.                                       *)
IsConnectionFailure(e) == e.code = "INTERNAL_ERROR" /\ e.details = {}

=============================================================================
