----------------------------- MODULE MCPipeline -----------------------------
(* Pipeline with one comment, and an AI that may change its mind. *)
EXTENDS Pipeline

CONSTANTS e1

MCCallers == {"core-worker", "core-retry-worker", "web"}

Deciding(action, escalate, valid) ==
    [action_type |-> action, should_execute |-> TRUE,
     escalate |-> escalate, valid |-> valid]

Reply == Deciding("reply_comment", FALSE, TRUE)
HideAndReview == Deciding("hide_comment", TRUE, TRUE)
InvalidReply == Deciding("reply_message", FALSE, FALSE)

MCDecisions == {Reply, HideAndReview}
MCReplies == {Reply, InvalidReply}

Http(code) == [kind |-> "http", error |-> [status_code |-> code, message |-> {}]]

\* Done, to be tried again, refused for good.
MCAnswers == {[kind |-> "ok"], [kind |-> "unreachable"], Http(400)}
MCRefused == {Http(400)}
=============================================================================
