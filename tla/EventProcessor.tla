--------------------------- MODULE EventProcessor ---------------------------
(***************************************************************************)
(* EventProcessor.process() of core-service, one step per database or      *)
(* Kafka operation, run by several callers at once on the same MongoDB     *)
(* collections: the raw_events worker, the send_retry worker and the       *)
(* manual retry requests of the web application.  CoreService adds those   *)
(* callers.                                                                *)
(*                                                                         *)
(* calls[a] holds the local variables of a's call: `pc` names the next     *)
(* operation, "done" and "raised" tell the caller how the call ended.      *)
(***************************************************************************)
EXTENDS ActionDecision, Naturals, Sequences, FiniteSets

CONSTANTS
    Events,       \* event ids
    Callers,      \* processes that call process()
    Decisions,    \* what DecisionEngine.decide() may return: a subset of Decision
    MaxRetries    \* KAFKA_MAX_RETRIES

TERMINAL_STATUSES ==
    {"processed", "ignored", "action_queued", "review_pending", "dlq_published"}

\* Mutant of RETRYABLE_STATUSES: a retry that was cut short is in flight.
RetryableButRetrying == {"failed", "send_failed"}

RETRYABLE_STATUSES == {"failed", "retrying", "send_failed"}

Statuses == TERMINAL_STATUSES \cup RETRYABLE_STATUSES \cup {"received"}

NoDecision ==
    [action_type |-> "ignore", should_execute |-> FALSE,
     escalate |-> FALSE, valid |-> FALSE]

\* Moderation shows this of decide().
ASSUME ProcessorAssumption ==
    /\ \A d \in Decisions : Admissible(d)
    /\ MaxRetries \in Nat
    /\ IsFiniteSet(Events) /\ Events # {}

VARIABLES
    docs,           \* processed_events, by event_id (unique index)
    logs,           \* action_logs: status by idempotency key (unique index)
    reviews,        \* manual_review_queue: entries of each event
    replyCommands,  \* topic reply_commands
    calls           \* the calls in progress

collections == <<docs, logs, reviews, replyCommands>>

\* The _retry_count and _max_retries an event carries: <<n, max>>, or <<>>
\* when it has none.
NotGiven == <<>>

\* No document: `status` is "absent".  `decision` is "" until a save sets it;
\* `given` is what its raw_event carries.
NoDoc == [status |-> "absent", retry_count |-> 0, decision |-> "", given |-> NotGiven]

\* build_command_id.  Two ids of the same event and action differ in what
\* they take for the target: the "object" that is acted upon (the comment, the
\* recipient), or the event's "target" (the post, the page).
CommandId(e, action, target) == <<e, action, target>>

EventOf(command) == command[1]

\* The idempotency key of an action names its object.
Keys == {CommandId(e, action, "object") : e \in Events, action \in Actions}

NoCall(e, force, given) ==
    [pc |-> "find", event |-> e, force |-> force, given |-> given,
     retry_count |-> 0, decision |-> NoDecision, final_status |-> "", saved |-> ""]

\* The event a caller without a call points at is of no account.
Idle == [NoCall(CHOOSE e \in Events : TRUE, FALSE, NotGiven) EXCEPT !.pc = "idle"]

ProcessorInit ==
    /\ docs = [e \in Events |-> NoDoc]
    /\ logs = [k \in Keys |-> "absent"]
    /\ reviews = [e \in Events |-> 0]
    /\ replyCommands = <<>>
    /\ calls = [a \in Callers |-> Idle]

At(a, pc) == calls[a].pc = pc

Doc(a) == docs[calls[a].event]

Key(a) == CommandId(calls[a].event, calls[a].decision.action_type, "object")

Goto(a, pc) == calls' = [calls EXCEPT ![a].pc = pc]

\* The exception leaves process(): every operation may raise.
Throw(a) == Goto(a, "raised")

-----------------------------------------------------------------------------
(* 1. Deduplicate *)

\* A terminal event, or one that another call seems to have in hand.
Skips(doc, force) == ~force /\ doc.status \notin RETRYABLE_STATUSES

FindNew(a) ==
    /\ At(a, "find")
    /\ Doc(a).status = "absent"
    /\ Goto(a, "create")
    /\ UNCHANGED collections

FindDuplicate(a) ==
    /\ At(a, "find")
    /\ Doc(a).status # "absent"
    /\ Skips(Doc(a), calls[a].force)
    /\ calls' = [calls EXCEPT ![a].pc = "done", ![a].final_status = Doc(a).status]
    /\ UNCHANGED collections

FindRetry(a) ==
    /\ At(a, "find")
    /\ Doc(a).status # "absent"
    /\ ~Skips(Doc(a), calls[a].force)
    /\ calls' = [calls EXCEPT
            ![a].pc = "mark_retrying",
            ![a].retry_count = Doc(a).retry_count + IF calls[a].force THEN 1 ELSE 0]
    /\ UNCHANGED collections

MarkRetrying(a) ==
    /\ At(a, "mark_retrying")
    /\ docs' = [docs EXCEPT ![calls[a].event].status = "retrying",
                            ![calls[a].event].retry_count = calls[a].retry_count]
    /\ Goto(a, "reread")
    /\ UNCHANGED <<logs, reviews, replyCommands>>

Reread(a) ==
    /\ At(a, "reread")
    /\ calls' = [calls EXCEPT ![a].pc = "decide",
                              ![a].retry_count = Doc(a).retry_count,
                              ![a].saved = Doc(a).decision]
    /\ UNCHANGED collections

(* 2. Persist *)

Create(a) ==
    /\ At(a, "create")
    /\ Doc(a).status = "absent"
    /\ docs' = [docs EXCEPT ![calls[a].event].status = "received",
                            ![calls[a].event].given = calls[a].given]
    /\ Goto(a, "decide")
    /\ UNCHANGED <<logs, reviews, replyCommands>>

CreateDuplicateKey(a) ==
    /\ At(a, "create")
    /\ Doc(a).status # "absent"
    /\ Throw(a)
    /\ UNCHANGED collections

(* 3. Decide: rules, AI and the sender's history make any outcome possible. *)

Decide(a) ==
    /\ At(a, "decide")
    /\ \E d \in Decisions :
          calls' = [calls EXCEPT
              ![a].decision = d,
              ![a].pc = IF d.should_execute THEN "find_success" ELSE "save",
              ![a].final_status =
                  IF d.action_type = "ignore" THEN "ignored" ELSE "processed"]
    /\ UNCHANGED collections

DecideFails(a) ==
    /\ At(a, "decide")
    /\ Goto(a, "save_failure")
    /\ UNCHANGED collections

\* Mutant of SaveFailure: the failure is returned, but not saved.
SaveFailureForgotten(a) ==
    /\ At(a, "save_failure")
    /\ calls' = [calls EXCEPT ![a].pc = "done", ![a].final_status = "failed"]
    /\ UNCHANGED collections

SaveFailure(a) ==
    /\ At(a, "save_failure")
    /\ docs' = [docs EXCEPT ![calls[a].event].status = "failed"]
    /\ calls' = [calls EXCEPT ![a].pc = "done", ![a].final_status = "failed"]
    /\ UNCHANGED <<logs, reviews, replyCommands>>

-----------------------------------------------------------------------------
(* 4. Execute *)

\* How process() goes on from what _execute_action() returned.
Executed(a, status) ==
    LET d == calls[a].decision
        reviewed == status # "failed" /\ (d.action_type = "escalate" \/ d.escalate)
    IN  calls' = [calls EXCEPT
            ![a].pc = IF reviewed THEN "review" ELSE "save",
            ![a].final_status =
                CASE status = "failed" -> "failed"
                  [] status = "queued" -> "action_queued"
                  [] OTHER             -> "processed"]

FindSuccess(a) ==
    /\ At(a, "find_success")
    /\ IF logs[Key(a)] = "success" THEN Executed(a, "success") ELSE Goto(a, "find_log")
    /\ UNCHANGED collections

\* Mutant of FindLog: the pending log is not written before the command.
FindLogAndPublish(a) ==
    /\ At(a, "find_log")
    /\ Goto(a, "publish")
    /\ UNCHANGED collections

FindLog(a) ==
    /\ At(a, "find_log")
    /\ Goto(a, IF logs[Key(a)] = "absent" THEN "insert_log" ELSE "update_log")
    /\ UNCHANGED collections

\* A valid Facebook action is published; the others end in their log.
LogPending(a) ==
    /\ At(a, "update_log") \/ (At(a, "insert_log") /\ logs[Key(a)] = "absent")
    /\ logs' = [logs EXCEPT ![Key(a)] = "pending"]
    /\ Goto(a, IF ~calls[a].decision.valid THEN "log_skipped"
               ELSE IF calls[a].decision.action_type \in FacebookActions THEN "publish"
               ELSE "log_escalated")
    /\ UNCHANGED <<docs, reviews, replyCommands>>

LogDuplicateKey(a) ==
    /\ At(a, "insert_log")
    /\ logs[Key(a)] # "absent"
    /\ Throw(a)
    /\ UNCHANGED collections

LogOutcome(a, pc, logStatus, status) ==
    /\ At(a, pc)
    /\ logs' = [logs EXCEPT ![Key(a)] = logStatus]
    /\ Executed(a, status)
    /\ UNCHANGED <<docs, reviews, replyCommands>>

LogSkipped(a) == LogOutcome(a, "log_skipped", "skipped", "skipped")

LogEscalated(a) == LogOutcome(a, "log_escalated", "success", "success")

\* build_reply_command
Command(a) ==
    [command |-> Key(a),
     action_type |-> calls[a].decision.action_type,
     retry_count |-> IF calls[a].given = NotGiven THEN calls[a].retry_count
                                                  ELSE calls[a].given[1],
     max_retries |-> IF calls[a].given = NotGiven \/ calls[a].given[2] = 0
                     THEN MaxRetries ELSE calls[a].given[2]]

Publish(a) ==
    /\ At(a, "publish")
    /\ replyCommands' = Append(replyCommands, Command(a))
    /\ Goto(a, "log_queued")
    /\ UNCHANGED <<docs, logs, reviews>>

\* Mutant of PublishFails: the exception is swallowed.
PublishFailsSilently(a) ==
    /\ At(a, "publish")
    /\ replyCommands' \in {replyCommands, Append(replyCommands, Command(a))}
    /\ Goto(a, "log_queued")
    /\ UNCHANGED <<docs, logs, reviews>>

\* send(), future.get() or flush() raised: the command may be on the topic.
PublishFails(a) ==
    /\ At(a, "publish")
    /\ replyCommands' \in {replyCommands, Append(replyCommands, Command(a))}
    /\ Goto(a, "log_failed")
    /\ UNCHANGED <<docs, logs, reviews>>

LogQueued(a) == LogOutcome(a, "log_queued", "queued", "queued")

LogFailed(a) == LogOutcome(a, "log_failed", "failed", "failed")

(* 5. Manual review *)

CreateReview(a) ==
    /\ At(a, "review")
    /\ reviews' = [reviews EXCEPT ![calls[a].event] = @ + 1]
    /\ calls' = [calls EXCEPT ![a].pc = "save", ![a].final_status = "review_pending"]
    /\ UNCHANGED <<docs, logs, replyCommands>>

Save(a) ==
    /\ At(a, "save")
    /\ docs' = [docs EXCEPT ![calls[a].event].status = calls[a].final_status,
                            ![calls[a].event].decision = calls[a].decision.action_type]
    /\ calls' = [calls EXCEPT ![a].pc = "done",
                              ![a].saved = calls[a].decision.action_type]
    /\ UNCHANGED <<logs, reviews, replyCommands>>

-----------------------------------------------------------------------------

\* A caller calls process().
Call(a, e, force, given) == calls' = [calls EXCEPT ![a] = NoCall(e, force, given)]

Hangup(a) == calls' = [calls EXCEPT ![a] = Idle]

Running(a) == calls[a].pc \notin {"idle", "raised"}

\* Mutant of Failed: whatever is not through is a failure.
FailedUnlessProcessed(a) ==
    \/ At(a, "raised")
    \/ At(a, "done") /\ calls[a].final_status \notin {"processed", "ignored"}

Failed(a) == At(a, "raised") \/ (At(a, "done") /\ calls[a].final_status = "failed")

Succeeded(a) == At(a, "done") /\ calls[a].final_status # "failed"

\* The next operation of a call, when nothing outside fails.
ProcessStep(a) ==
    \/ FindNew(a) \/ FindDuplicate(a) \/ FindRetry(a)
    \/ MarkRetrying(a) \/ Reread(a)
    \/ Create(a) \/ CreateDuplicateKey(a)
    \/ Decide(a) \/ SaveFailure(a)
    \/ FindSuccess(a) \/ FindLog(a) \/ LogPending(a) \/ LogDuplicateKey(a)
    \/ LogSkipped(a) \/ LogEscalated(a)
    \/ Publish(a) \/ LogQueued(a) \/ LogFailed(a)
    \/ CreateReview(a) \/ Save(a)

\* Any operation raises.  A write that raises may have been applied or not:
\* the call raises behind the write (at "done" behind the last) or before it.
ProcessRaises(a) == Running(a) /\ Throw(a) /\ UNCHANGED collections
=============================================================================
