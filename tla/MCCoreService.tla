--------------------------- MODULE MCCoreService ----------------------------
(* CoreService with decisions that take different paths through process(). *)
EXTENDS CoreService

CONSTANTS e1

MCCallers == {"core-worker", "core-retry-worker", "web"}

Deciding(action) ==
    [action_type |-> action, should_execute |-> TRUE, escalate |-> FALSE, valid |-> TRUE]

Reply == Deciding("reply_comment")
Escalate == Deciding("escalate")

MCDecisions == {Reply, Escalate}
=============================================================================
