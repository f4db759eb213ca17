---------------------------- MODULE FailureTypes ----------------------------
(***************************************************************************)
(* The failure_type vocabulary of send_failed, shared by those that write  *)
(* it (core-service, api-service) and by retry-service, which reads it.    *)
(***************************************************************************)

RETRYABLE_FAILURE_TYPES ==
    {"api_timeout", "api_5xx", "rate_limit", "network_error",
     "temporary_unavailable", "circuit_open", "unknown"}

NON_RETRYABLE_FAILURE_TYPES ==
    {"validation_error", "missing_required_field", "invalid_token",
     "permission_denied", "unsupported_action"}
=============================================================================
