---------------------------- MODULE CoreService -----------------------------
(***************************************************************************)
(* core-service: the raw_events worker with its fast retries, the          *)
(* send_retry worker and manual retry requests, which all run              *)
(* EventProcessor.process() on the same collections, and the failures they *)
(* publish to send_failed.                                                 *)
(*                                                                         *)
(* Around it: the webhook publishes each event once, and the rest of the   *)
(* pipeline may answer a command or a failure with a send_retry of the     *)
(* next attempt.                                                           *)
(***************************************************************************)
EXTENDS EventProcessor

CONSTANTS
    FastRetries,     \* KAFKA_CONSUMER_FAST_RETRIES
    MaxPoll,         \* max_poll_records of both workers
    MaxSendRetries,  \* bound: length of send_retry
    MaxManual,       \* bound: manual retry requests
    MaxFaults,       \* bound: faults and manual retries together
    FaultKinds       \* which faults happen

worker == "core-worker"
retrier == "core-retry-worker"
web == "web"

ASSUME CoreAssumption ==
    /\ Callers = {worker, retrier, web}
    /\ FastRetries \in Nat
    /\ MaxPoll \in Nat \ {0}
    /\ MaxSendRetries \in Nat
    /\ MaxManual \in Nat
    /\ MaxFaults \in Nat
    /\ FaultKinds \subseteq {"crash", "raise", "rejoin", "publish", "decide"}

VARIABLES
    rawEvents,     \* topic raw_events: event ids
    sendRetry,     \* topic send_retry: commands with the attempt's retry_count
    sendFailed,    \* topic send_failed, as far as core-service writes it
    stage,         \* of each worker: what its loop body does next
    attempt,       \* fast retry attempt of the raw_events worker
    rawConsumer, rawHandled,      \* see KafkaConsumer
    retryConsumer, retryHandled,
    manual,        \* manual retry requests so far
    faults         \* faults so far

CommandIds ==
    {CommandId(e, action, target) : e \in Events,
        action \in Actions \cup {"process_event"}, target \in {"object", "target"}}

topics == <<rawEvents, sendRetry, sendFailed>>
rawLoop == <<rawConsumer, rawHandled>>
retryLoop == <<retryConsumer, retryHandled>>

vars == <<collections, calls, topics, stage, attempt, rawLoop, retryLoop, manual, faults>>

RetryCommand == [command : CommandIds, retry_count : Nat, max_retries : Nat]

RawEvents == INSTANCE KafkaConsumer WITH
    Records <- Events, MaxRecords <- Cardinality(Events),
    log <- rawEvents, consumer <- rawConsumer, handled <- rawHandled

SendRetries == INSTANCE KafkaConsumer WITH
    Records <- RetryCommand, MaxRecords <- MaxSendRetries,
    log <- sendRetry, consumer <- retryConsumer, handled <- retryHandled

Init ==
    /\ ProcessorInit
    /\ rawEvents = <<>> /\ sendRetry = <<>> /\ sendFailed = <<>>
    /\ stage = [a \in {worker, retrier} |-> "idle"]
    /\ attempt = 0
    /\ rawConsumer = RawEvents!InitialConsumer /\ rawHandled = {}
    /\ retryConsumer = SendRetries!InitialConsumer /\ retryHandled = {}
    /\ manual = 0
    /\ faults = 0

Fault(kind) ==
    /\ kind \in FaultKinds
    /\ faults + manual < MaxFaults
    /\ faults' = faults + 1

Stage(a, s) == stage' = [stage EXCEPT ![a] = s]

\* The topic position a process has next.
rawEvent == RawEvents!Current
retryCommand == SendRetries!Current

\* build_failure_payload.  The document process() returned has a target_id,
\* and a decision when one was saved; when the call raised, both are missing.
\* Whatever the reason says, classify_failure makes it retryable.
FailureOf(a, n, max) ==
    [command |-> IF At(a, "raised")
                 THEN CommandId(calls[a].event, "process_event", "object")
                 ELSE CommandId(calls[a].event,
                                IF calls[a].saved = "" THEN "process_event"
                                                       ELSE calls[a].saved,
                                "target"),
     retry_count |-> n, max_retries |-> max,
     failure_type |-> "unknown", retryable |-> "yes"]

-----------------------------------------------------------------------------
(* consume_events: _process_with_fast_retry and the loop around it. *)

\* Mutant of Attempts: the first attempt is counted twice.
AttemptsMiscounted == FastRetries + 2

Attempts == FastRetries + 1

WorkerBegins ==
    /\ RawEvents!HasRecord
    /\ stage[worker] = "idle"
    /\ Call(worker, rawEvent, FALSE, NotGiven)
    /\ Stage(worker, "process")
    /\ attempt' = 0
    /\ UNCHANGED <<collections, topics, rawLoop, retryLoop, manual, faults>>

WorkerSucceeds ==
    /\ stage[worker] = "process"
    /\ Succeeded(worker)
    /\ RawEvents!Finish
    /\ Hangup(worker)
    /\ Stage(worker, "idle")
    /\ attempt' = 0
    /\ UNCHANGED <<collections, sendRetry, sendFailed, retryLoop, manual, faults>>

\* update_by_event_id does not insert: nothing happens without a document.
MarkDoc(e, status, n) ==
    docs' = IF docs[e].status = "absent" THEN docs
            ELSE [docs EXCEPT ![e].status = status, ![e].retry_count = n]

WorkerRetries ==
    /\ stage[worker] = "process"
    /\ Failed(worker)
    /\ attempt + 1 < Attempts
    /\ MarkDoc(rawEvent, "retrying", attempt + 1)
    /\ Call(worker, rawEvent, TRUE, NotGiven)
    /\ attempt' = attempt + 1
    /\ UNCHANGED <<logs, reviews, replyCommands, topics, stage, rawLoop, retryLoop,
                   manual, faults>>

WorkerGivesUp ==
    /\ stage[worker] = "process"
    /\ Failed(worker)
    /\ attempt + 1 = Attempts
    /\ MarkDoc(rawEvent, "send_failed", Attempts - 1)
    /\ Stage(worker, "publish_failed")
    /\ UNCHANGED <<logs, reviews, replyCommands, calls, topics, attempt, rawLoop,
                   retryLoop, manual, faults>>

WorkerPublishesFailure ==
    /\ stage[worker] = "publish_failed"
    /\ sendFailed' = Append(sendFailed, FailureOf(worker, Attempts - 1, MaxRetries))
    /\ Stage(worker, "finish")
    /\ UNCHANGED <<collections, calls, rawEvents, sendRetry, attempt, rawLoop,
                   retryLoop, manual, faults>>

WorkerFinishes ==
    /\ stage[worker] = "finish"
    /\ RawEvents!Finish
    /\ Hangup(worker)
    /\ Stage(worker, "idle")
    /\ attempt' = 0
    /\ UNCHANGED <<collections, sendRetry, sendFailed, retryLoop, manual, faults>>

WorkerLoop ==
    /\ stage[worker] = "idle"
    /\ RawEvents!Start \/ RawEvents!Poll \/ RawEvents!Commit
    /\ UNCHANGED <<collections, calls, sendRetry, sendFailed, stage, attempt,
                   retryLoop, manual, faults>>

\* A failing update between attempts, a failing publication or commit.
WorkerRaises ==
    /\ \/ Failed(worker)
       \/ (At(worker, "find") /\ attempt > 0)
       \/ stage[worker] # "process"
    /\ RawEvents!Raise
    /\ Fault("raise")
    /\ Hangup(worker)
    /\ Stage(worker, "idle")
    /\ attempt' = 0
    /\ UNCHANGED <<collections, sendRetry, sendFailed, retryLoop, manual>>

WorkerCrashes ==
    /\ RawEvents!Crash
    /\ Fault("crash")
    /\ Hangup(worker)
    /\ Stage(worker, "idle")
    /\ attempt' = 0
    /\ UNCHANGED <<collections, sendRetry, sendFailed, retryLoop, manual>>

WorkerRejoins ==
    /\ RawEvents!Rejoin
    /\ Fault("rejoin")
    /\ UNCHANGED <<collections, calls, sendRetry, sendFailed, stage, attempt,
                   retryLoop, manual>>

-----------------------------------------------------------------------------
(* consume_retry_commands *)

RetrierBegins ==
    /\ SendRetries!HasRecord
    /\ stage[retrier] = "idle"
    /\ Call(retrier, EventOf(retryCommand.command), TRUE,
            <<retryCommand.retry_count, retryCommand.max_retries>>)
    /\ Stage(retrier, "process")
    /\ UNCHANGED <<collections, topics, attempt, rawLoop, retryLoop, manual, faults>>

RetrierSucceeds ==
    /\ stage[retrier] = "process"
    /\ Succeeded(retrier)
    /\ SendRetries!Finish
    /\ Hangup(retrier)
    /\ Stage(retrier, "idle")
    /\ UNCHANGED <<collections, rawEvents, sendFailed, attempt, rawLoop, manual, faults>>

RetrierPublishesFailure ==
    /\ stage[retrier] = "process"
    /\ At(retrier, "done") /\ Failed(retrier)
    /\ sendFailed' = Append(sendFailed, FailureOf(retrier, retryCommand.retry_count,
                                                  retryCommand.max_retries))
    /\ Stage(retrier, "finish")
    /\ UNCHANGED <<collections, calls, rawEvents, sendRetry, attempt, rawLoop,
                   retryLoop, manual, faults>>

RetrierFinishes ==
    /\ stage[retrier] = "finish"
    /\ SendRetries!Finish
    /\ Hangup(retrier)
    /\ Stage(retrier, "idle")
    /\ UNCHANGED <<collections, rawEvents, sendFailed, attempt, rawLoop, manual, faults>>

RetrierLoop ==
    /\ stage[retrier] = "idle"
    /\ SendRetries!Start \/ SendRetries!Poll \/ SendRetries!Commit
    /\ UNCHANGED <<collections, calls, rawEvents, sendFailed, stage, attempt,
                   rawLoop, manual, faults>>

\* An exception of process() is not caught before the loop: the batch ends.
RetrierAbandons ==
    /\ At(retrier, "raised")
    /\ SendRetries!Raise
    /\ Hangup(retrier)
    /\ Stage(retrier, "idle")
    /\ UNCHANGED <<collections, rawEvents, sendFailed, attempt, rawLoop, manual, faults>>

RetrierRaises ==
    /\ At(retrier, "done") \/ stage[retrier] # "process"
    /\ SendRetries!Raise
    /\ Fault("raise")
    /\ Hangup(retrier)
    /\ Stage(retrier, "idle")
    /\ UNCHANGED <<collections, rawEvents, sendFailed, attempt, rawLoop, manual>>

RetrierCrashes ==
    /\ SendRetries!Crash
    /\ Fault("crash")
    /\ Hangup(retrier)
    /\ Stage(retrier, "idle")
    /\ UNCHANGED <<collections, rawEvents, sendFailed, attempt, rawLoop, manual>>

RetrierRejoins ==
    /\ SendRetries!Rejoin
    /\ Fault("rejoin")
    /\ UNCHANGED <<collections, calls, rawEvents, sendFailed, stage, attempt,
                   rawLoop, manual>>

-----------------------------------------------------------------------------
(* POST /core/events/{event_id}/retry *)

ManuallyRetryable == {"failed", "retrying", "send_failed", "dlq_published"}

WebRetries(e) ==
    /\ At(web, "idle")
    /\ manual < MaxManual /\ faults + manual < MaxFaults
    /\ docs[e].status \in ManuallyRetryable
    /\ Call(web, e, TRUE, docs[e].given)
    /\ manual' = manual + 1
    /\ UNCHANGED <<collections, topics, stage, attempt, rawLoop, retryLoop, faults>>

WebAnswers ==
    /\ At(web, "done") \/ At(web, "raised")
    /\ Hangup(web)
    /\ UNCHANGED <<collections, topics, stage, attempt, rawLoop, retryLoop, manual, faults>>

WebCrashes ==
    /\ ~At(web, "idle")
    /\ Fault("crash")
    /\ Hangup(web)
    /\ UNCHANGED <<collections, topics, stage, attempt, rawLoop, retryLoop, manual>>

-----------------------------------------------------------------------------
(* process() itself, and its failures. *)

loops == <<topics, stage, attempt, rawLoop, retryLoop, manual>>

Step(a) == ProcessStep(a) /\ UNCHANGED <<loops, faults>>

DecisionFailure(a) == DecideFails(a) /\ Fault("decide") /\ UNCHANGED loops

PublishFailure(a) == PublishFails(a) /\ Fault("publish") /\ UNCHANGED loops

CallRaises(a) == ProcessRaises(a) /\ Fault("raise") /\ UNCHANGED loops

-----------------------------------------------------------------------------
(* The rest of the pipeline *)

WebhookPublishes(e) ==
    /\ \A i \in DOMAIN rawEvents : rawEvents[i] # e
    /\ RawEvents!Produce(e)
    /\ UNCHANGED <<collections, calls, sendRetry, sendFailed, stage, attempt,
                   retryLoop, manual, faults>>

\* A command that api-service could not send, or a failure of this service,
\* comes back as the next attempt.
RetryScheduled(m) ==
    /\ m.retry_count < m.max_retries
    /\ SendRetries!Produce([command |-> m.command, retry_count |-> m.retry_count + 1,
                            max_retries |-> m.max_retries])
    /\ UNCHANGED <<collections, calls, rawEvents, sendFailed, stage, attempt,
                   rawLoop, manual, faults>>

PipelineRetries ==
    \/ \E i \in DOMAIN replyCommands : RetryScheduled(replyCommands[i])
    \/ \E i \in DOMAIN sendFailed : RetryScheduled(sendFailed[i])

Worker ==
    \/ WorkerBegins \/ WorkerSucceeds \/ WorkerRetries \/ WorkerGivesUp
    \/ WorkerPublishesFailure \/ WorkerFinishes \/ WorkerLoop \/ Step(worker)

Retrier ==
    \/ RetrierBegins \/ RetrierSucceeds \/ RetrierPublishesFailure
    \/ RetrierFinishes \/ RetrierLoop \/ RetrierAbandons \/ Step(retrier)

Web == WebAnswers \/ Step(web)

Next ==
    \/ Worker \/ WorkerRaises \/ WorkerCrashes \/ WorkerRejoins
    \/ Retrier \/ RetrierRaises \/ RetrierCrashes \/ RetrierRejoins
    \/ Web \/ WebCrashes \/ \E e \in Events : WebRetries(e)
    \/ \E a \in Callers : DecisionFailure(a) \/ PublishFailure(a) \/ CallRaises(a)
    \/ PipelineRetries \/ \E e \in Events : WebhookPublishes(e)

Spec == Init /\ [][Next]_vars

-----------------------------------------------------------------------------
(* Properties *)

Operations ==
    {"idle", "find", "mark_retrying", "reread", "create", "decide", "save_failure",
     "find_success", "find_log", "insert_log", "update_log", "log_skipped",
     "log_escalated", "publish", "log_queued", "log_failed", "review", "save",
     "done", "raised"}

Call_ == [pc : Operations, event : Events, force : BOOLEAN,
          given : Seq(Nat), retry_count : Nat, decision : Decision,
          final_status : Statuses \cup {""}, saved : Actions \cup {""}]

\* Types of the variables.
TypeOK ==
    /\ docs \in [Events -> [status : Statuses \cup {"absent"}, retry_count : Nat,
                            decision : Actions \cup {""}, given : Seq(Nat)]]
    /\ logs \in [Keys -> {"absent", "pending", "queued", "success", "failed", "skipped"}]
    /\ reviews \in [Events -> Nat]
    /\ replyCommands \in Seq([command : Keys, action_type : FacebookActions,
                              retry_count : Nat, max_retries : {MaxRetries}])
    /\ calls \in [Callers -> Call_]
    /\ rawEvents \in Seq(Events)
    /\ sendRetry \in Seq(RetryCommand)
    /\ sendFailed \in Seq([command : CommandIds, retry_count : Nat,
                           max_retries : {MaxRetries}, failure_type : {"unknown"},
                           retryable : {"yes"}])
    /\ stage \in [{worker, retrier} -> {"idle", "process", "publish_failed", "finish"}]
    /\ attempt \in 0..FastRetries
    /\ rawConsumer \in RawEvents!ConsumerType /\ rawHandled \subseteq Nat
    /\ retryConsumer \in SendRetries!ConsumerType /\ retryHandled \subseteq Nat
    /\ manual \in 0..MaxManual
    /\ faults \in Nat

\* The messages of a topic about e.
About(topic, e) == {i \in DOMAIN topic : EventOf(topic[i].command) = e}

\* These are never ahead of their effects: whoever else wrote the document,
\* action_queued means that a command is on the topic, review_pending that
\* the review is in the queue, and a queued log that its command is out.
StatusIsBacked ==
    /\ \A e \in Events :
          /\ docs[e].status = "action_queued" => About(replyCommands, e) # {}
          /\ docs[e].status = "review_pending" => reviews[e] > 0
    /\ \A k \in Keys : logs[k] = "queued" =>
          \E i \in DOMAIN replyCommands : replyCommands[i].command = k

\* No command leaves the service without an action log under its command id.
CommandIsLogged ==
    \A i \in DOMAIN replyCommands : logs[replyCommands[i].command] # "absent"

\* How often e may be attempted: once, once more per retry that was asked for,
\* and per fault what that may repeat: the event itself, or the retries of it,
\* which may all be in the batches behind the committed offset.
AttemptsAt(e) ==
    LET retries == Cardinality(About(sendRetry, e))
        redelivered == IF retries = 0 THEN 1 ELSE retries
    IN  1 + retries + manual + faults * redelivered

\* However an event is redelivered, it gets no more commands than attempts.
CommandsBounded ==
    \A e \in Events : Cardinality(About(replyCommands, e)) <= AttemptsAt(e)

Outcome(e) ==
    \/ docs[e].status \in TERMINAL_STATUSES
    \/ About(replyCommands, e) # {}
    \/ About(sendFailed, e) # {}
    \/ reviews[e] > 0

\* Where an event may rest.
Settled(e) == docs[e].status \in TERMINAL_STATUSES \cup {"absent", "failed", "send_failed"}

\* However an event is redelivered, its entries in the review queue are no
\* more than the attempts at it.
ReviewsBounded == \A e \in Events : reviews[e] <= AttemptsAt(e)

\* An event whose last delivery was worked off has an outcome, or was created
\* by an attempt that ended before it had one: its status says "received".
\* (An operator's retry that dies may overwrite any status.)
HandledHasOutcome ==
    manual = 0 => \A i \in rawHandled :
        Outcome(rawEvents[i]) \/ docs[rawEvents[i]].status = "received"

\* docs/tai_lieu.md: the consumer loses no data and leaves out no event.
\* Every event the worker is done with has an outcome.
NoEventStranded == \A i \in rawHandled : Outcome(rawEvents[i])
=============================================================================
