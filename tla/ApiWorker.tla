----------------------------- MODULE ApiWorker ------------------------------
(***************************************************************************)
(* The reply_commands worker of api-service: it executes each command as a *)
(* call of the Facebook Graph API, and publishes a failed call to          *)
(* send_failed.                                                            *)
(*                                                                         *)
(* A call has two sides, which the model keeps apart: whether the action   *)
(* took effect on the page, and what the worker gets to see.  The worker   *)
(* may crash, and a publication may raise, at every step.                  *)
(***************************************************************************)
EXTENDS FailureTypes, Naturals, Sequences, FiniteSets

CONSTANTS
    CommandIds,
    Commands,     \* the reply_commands core-service may publish
    Malformed,    \* a record that does not decode, or does not validate
    NonObject,    \* a record that is JSON, but not an object
    Answers,      \* how Facebook may answer: a subset of Answer
    DefaultMaxRetries,    \* KAFKA_MAX_RETRIES of api-service
    MaxPoll, MaxRecords, MaxFaults, FaultKinds    \* see KafkaConsumer

\* The words of an error message that the classification looks for.
Words == {"token", "timeout", "connection", "temporar"}

Command ==
    [command : CommandIds, action_type : {"hide_comment", "reply_comment", "reply_message"},
     retry_count : Nat, max_retries : Nat]

\* FacebookServiceError, without its details.
Error == [status_code : Nat, message : SUBSET Words]

NoError == [status_code |-> 0, message |-> {}]

\* "ok": done, and acknowledged.  "http": an error status and its message.
\* "unreachable": no request went out (URLError).  "silent": the request went
\* out, and no answer that could be read came back (a read timeout, a dropped
\* connection, a body that is not JSON).
Answer ==
    [kind : {"ok", "unreachable", "silent"}] \cup [kind : {"http"}, error : Error]

ASSUME ApiAssumption ==
    /\ \A m \in Commands : m \in Command
    /\ {Malformed, NonObject} \cap Commands = {}
    /\ \A answer \in Answers :
          \/ answer.kind \in {"ok", "unreachable", "silent"}
          \/ answer.kind = "http" /\ answer.error.status_code \in 400..599
    /\ DefaultMaxRetries \in Nat
    /\ MaxPoll \in Nat \ {0}
    /\ MaxRecords \in Nat
    /\ MaxFaults \in Nat
    /\ FaultKinds \subseteq {"crash", "raise", "rejoin"}

VARIABLES
    replyCommands,  \* topic reply_commands
    sendFailed,     \* topic send_failed, as far as api-service writes it
    executed,       \* history: how often the command at an offset took effect
    step,           \* what process() does next with the current record
    error,          \* the exception it is handling
    consumer, handled, faults                     \* see KafkaConsumer

vars == <<replyCommands, sendFailed, executed, step, error,
          consumer, handled, faults>>

local == <<sendFailed, executed>>

Kafka == INSTANCE KafkaConsumer WITH
            Records <- Commands \cup {Malformed, NonObject}, log <- replyCommands

Init ==
    /\ Kafka!Init
    /\ sendFailed = <<>>
    /\ executed = [i \in 1..MaxRecords |-> 0]
    /\ step = "idle"
    /\ error = NoError

-----------------------------------------------------------------------------
(* classify_facebook_failure *)

RETRYABLE_STATUS_CODES == {408, 409, 425, 429, 500, 502, 503, 504}

NON_RETRYABLE_STATUS_CODES == {400, 401, 403, 404, 422}

\* Mutant of FailureType: a type retry-service does not know.
FailureTypeByCode(e) ==
    IF e.status_code \in RETRYABLE_STATUS_CODES THEN "server_error" ELSE "validation_error"

FailureType(e) ==
    CASE e.status_code = 429                     -> "rate_limit"
      [] e.status_code = 408                     -> "api_timeout"
      [] e.status_code \in RETRYABLE_STATUS_CODES \ {408, 429} -> "api_5xx"
      [] e.status_code \in {401, 403}            -> "permission_denied"
      [] e.status_code \in NON_RETRYABLE_STATUS_CODES \ {401, 403} ->
            IF "token" \in e.message THEN "invalid_token" ELSE "validation_error"
      [] OTHER ->
            IF "timeout" \in e.message THEN "api_timeout"
            ELSE IF e.message \cap {"connection", "temporar"} # {} THEN "network_error"
            ELSE "unknown"

\* Mutant of IsRetryable: an unknown status is final.
IsKnownRetryable(e) == e.status_code \in RETRYABLE_STATUS_CODES

IsRetryable(e) == e.status_code \notin NON_RETRYABLE_STATUS_CODES

\* _build_failure_payload
FailureOf(m, e) ==
    [command |-> m.command, retry_count |-> m.retry_count,
     max_retries |-> IF m.max_retries = 0 THEN DefaultMaxRetries ELSE m.max_retries,
     failure_type |-> FailureType(e), retryable |-> IF IsRetryable(e) THEN "yes" ELSE "no"]

-----------------------------------------------------------------------------
(* ReplyCommandProcessor and FacebookGraphService *)

message == Kafka!Current

offset == consumer.next + 1

ReadyFor(s) == Kafka!HasRecord /\ step = s

\* A command that validates is about to be executed.
Executes == ReadyFor("idle") /\ message \in Commands

SkipMalformed ==
    /\ ReadyFor("idle")
    /\ message = Malformed
    /\ Kafka!Finish
    /\ UNCHANGED <<local, step, error, faults>>

\* The loop logs command.get(...) before process() could validate: what is
\* not an object raises, and ends the batch.
NonObjectRaises ==
    /\ ReadyFor("idle")
    /\ message = NonObject
    /\ Kafka!Raise
    /\ UNCHANGED <<local, step, error, faults>>

TakesEffect == executed' = [executed EXCEPT ![offset] = @ + 1]

MayTakeEffect == TakesEffect \/ UNCHANGED executed

\* FacebookServiceError: process() catches it and publishes a failure.
Refuse(e) ==
    /\ error' = e
    /\ step' = "publish"
    /\ UNCHANGED <<replyCommands, sendFailed, consumer, handled, faults>>

\* send_message turns every exception into a 502 of its own; the exception's
\* text, whatever words it has, follows "Send message failed".
Reported(m, e) ==
    IF m.action_type = "reply_message" THEN [e EXCEPT !.status_code = 502] ELSE e

Succeed ==
    /\ Executes
    /\ \E answer \in Answers : answer.kind = "ok"
    /\ TakesEffect
    /\ step' = "return"
    /\ UNCHANGED <<replyCommands, sendFailed, error, consumer, handled, faults>>

\* An error status below 500 says that nothing was done.
HttpError ==
    /\ Executes
    /\ \E answer \in Answers :
          /\ answer.kind = "http"
          /\ IF answer.error.status_code < 500 THEN UNCHANGED executed ELSE MayTakeEffect
          /\ Refuse(Reported(message, answer.error))

Unreachable ==
    /\ Executes
    /\ \E answer \in Answers : answer.kind = "unreachable"
    /\ UNCHANGED executed
    /\ Refuse(Reported(message, [status_code |-> 503, message |-> {"connection"}]))

\* _request() catches HTTPError and URLError only.
SilenceEscapes ==
    /\ Executes
    /\ message.action_type # "reply_message"
    /\ \E answer \in Answers : answer.kind = "silent"
    /\ MayTakeEffect
    /\ Kafka!Raise
    /\ UNCHANGED <<sendFailed, step, error, faults>>

SilenceReported ==
    /\ Executes
    /\ message.action_type = "reply_message"
    /\ \E answer \in Answers : answer.kind = "silent"
    /\ MayTakeEffect
    /\ Refuse(Reported(message, [status_code |-> 0, message |-> {"timeout"}]))

\* Mutant of PublishFailure: send() without waiting for its future.
PublishFailureUnconfirmed ==
    /\ ReadyFor("publish")
    /\ sendFailed' \in {sendFailed, Append(sendFailed, FailureOf(message, error))}
    /\ step' = "return"
    /\ UNCHANGED <<replyCommands, executed, error, consumer, handled, faults>>

\* Mutant of PublishFailure: a send that was not confirmed is tried again.
PublishFailureAgain ==
    /\ ReadyFor("publish")
    /\ sendFailed' = Append(sendFailed, FailureOf(message, error))
    /\ step' \in {"publish", "return"}
    /\ UNCHANGED <<replyCommands, executed, error, consumer, handled, faults>>

PublishFailure ==
    /\ ReadyFor("publish")
    /\ sendFailed' = Append(sendFailed, FailureOf(message, error))
    /\ step' = "return"
    /\ UNCHANGED <<replyCommands, executed, error, consumer, handled, faults>>

Return ==
    /\ ReadyFor("return")
    /\ Kafka!Finish
    /\ step' = "idle"
    /\ error' = NoError
    /\ UNCHANGED <<local, faults>>

-----------------------------------------------------------------------------
(* The loop around it, faults, and core-service. *)

Loop ==
    /\ step = "idle"
    /\ Kafka!Start \/ Kafka!Poll \/ Kafka!Commit
    /\ UNCHANGED <<local, step, error, faults>>

Abandon(action, kind) ==
    /\ action
    /\ Kafka!Fault(kind)
    /\ step' = "idle"
    /\ error' = NoError
    /\ UNCHANGED local

\* A publication or commit() raises.
Raise == (step # "idle" \/ ~Kafka!HasRecord) /\ Abandon(Kafka!Raise, "raise")

Rejoin == Abandon(Kafka!Rejoin, "rejoin")

Crash == Abandon(Kafka!Crash, "crash")

Produce ==
    /\ \E m \in Commands \cup {Malformed, NonObject} : Kafka!Produce(m)
    /\ UNCHANGED <<local, step, error, faults>>

Worker ==
    \/ SkipMalformed \/ NonObjectRaises
    \/ Succeed \/ HttpError \/ Unreachable \/ SilenceEscapes \/ SilenceReported
    \/ PublishFailure \/ Return \/ Loop

Next == Worker \/ Raise \/ Rejoin \/ Crash \/ Produce

Spec == Init /\ [][Next]_vars

-----------------------------------------------------------------------------
(* Properties *)

Report ==
    [command : CommandIds, retry_count : Nat, max_retries : Nat,
     retryable : {"yes", "no"},
     failure_type : RETRYABLE_FAILURE_TYPES \cup NON_RETRYABLE_FAILURE_TYPES]

\* Types of the variables.
TypeOK ==
    /\ replyCommands \in Seq(Commands \cup {Malformed, NonObject})
    /\ sendFailed \in Seq(Report)
    /\ executed \in [1..MaxRecords -> Nat]
    /\ step \in {"idle", "publish", "return"}
    /\ consumer \in Kafka!ConsumerType
    /\ handled \subseteq 1..Len(replyCommands)
    /\ faults \in Nat

SameAttempt(m, n) == m.command = n.command /\ m.retry_count = n.retry_count

Reports(m) == {j \in DOMAIN sendFailed : SameAttempt(sendFailed[j], m)}

\* The records that ask for the attempt of m.
Requests(m) ==
    {i \in DOMAIN replyCommands :
        replyCommands[i] \in Commands /\ SameAttempt(replyCommands[i], m)}

IsReported(m) == Reports(m) # {}

\* The command took effect, or its failure is on its way to a retry.
Settled(i) ==
    \/ replyCommands[i] \notin Commands
    \/ executed[i] > 0
    \/ IsReported(replyCommands[i])

\* A command whose iteration ran to its end took effect or was reported
\* under its own attempt, whatever came of its earlier deliveries.
HandledIsSettled == \A i \in handled : Settled(i)

\* The producer's verdict, which retry-service follows when there is one, is
\* the verdict retry-service's own table gives to the failure_type.
TaxonomyAgrees ==
    \A j \in DOMAIN sendFailed :
        sendFailed[j].retryable = "yes" <=> sendFailed[j].failure_type \in RETRYABLE_FAILURE_TYPES

\* At least once, but not at will: a command of one offset takes effect
\* once, and once more for each fault at most.
ExecutionsBounded == \A i \in DOMAIN replyCommands : executed[i] <= 1 + faults

\* A failure that is published again after its record came back (a crash, or
\* a commit() that raised, behind the publication) is paid for by a fault:
\* an attempt is reported once for each record that asked for it, and once
\* more for each fault at most.
ReportsBounded ==
    \A j \in DOMAIN sendFailed :
        Cardinality(Reports(sendFailed[j]))
            <= Cardinality(Requests(sendFailed[j])) * (1 + faults)

\* docs/tai_lieu.md: each reply is sent exactly once, even when its message
\* is consumed several times.  No record's action takes effect twice.
ExecutedOnce == \A i \in DOMAIN replyCommands : executed[i] <= 1

\* docs/tai_lieu.md: when the call of the Facebook API times out, send_failed
\* is published.  No command behind the committed offset got lost.
CommittedIsSettled == \A i \in 1..consumer.committed : Settled(i)
=============================================================================
