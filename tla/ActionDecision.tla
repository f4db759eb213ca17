--------------------------- MODULE ActionDecision ---------------------------
(***************************************************************************)
(* The decisions DecisionEngine.decide() hands to EventProcessor.process().*)
(***************************************************************************)

FacebookActions == {"hide_comment", "reply_comment", "reply_message"}

Actions == FacebookActions \cup {"escalate", "ignore"}

\* ActionDecision: `escalate` is the payload's flag, `valid` whether the
\* payload has the fields its action needs.
Decision ==
    [action_type : Actions, should_execute : BOOLEAN,
     escalate : BOOLEAN, valid : BOOLEAN]

\* What process() relies on: every action but "ignore" is to be executed, and
\* only a Facebook action is flagged for review besides.
Admissible(d) ==
    /\ d \in Decision
    /\ d.should_execute <=> d.action_type # "ignore"
    /\ d.escalate => d.action_type \in FacebookActions
=============================================================================
