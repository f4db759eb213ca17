--------------------------- MODULE MCRetryService ---------------------------
(* RetryService with one or two commands and a budget of two attempts. *)
EXTENDS RetryService

CONSTANTS c1, c2

Report(c, n, type, key) ==
    [command |-> c, retry_count |-> n, max_retries |-> 2,
     failure_type |-> type, retryable |-> key]

MCCommands == {c1, c2}

\* Retryable failures with 0, 1 and 2 attempts used, and a final one.
MCFailures ==
    {Report(c1, n, "api_5xx", "yes") : n \in 0..2}
        \cup {Report(c1, 0, "invalid_token", "no"),
              Report(c2, 1, "api_timeout", "absent"),
              Report(c2, 1, "permission_denied", "absent")}

MCFewFailures ==
    {Report(c1, 0, "api_5xx", "yes"), Report(c1, 2, "api_5xx", "yes")}
=============================================================================
