---------------------------- MODULE MCApiWorker -----------------------------
(* ApiWorker with a comment to hide, a message to send, and one answer for   *)
(* each way the worker may take a failed call.                               *)
EXTENDS ApiWorker

Hide == [command |-> "c1", action_type |-> "hide_comment",
         retry_count |-> 0, max_retries |-> 0]
Message == [command |-> "c2", action_type |-> "reply_message",
            retry_count |-> 1, max_retries |-> 3]

MCCommandIds == {"c1", "c2"}
MCCommands == {Hide, Message}
MCHide == {Hide}

Http(code, words) == [kind |-> "http", error |-> [status_code |-> code, message |-> words]]

MCOk == {[kind |-> "ok"]}
MCSilent == {[kind |-> "ok"], [kind |-> "silent"]}

\* Every branch of classify_facebook_failure.
MCAnswers ==
    {[kind |-> "ok"], [kind |-> "unreachable"], [kind |-> "silent"]}
        \cup {Http(400, {"token"}), Http(404, {}), Http(403, {}), Http(429, {}),
              Http(500, {}), Http(418, {"timeout"}), Http(418, {})}
=============================================================================
