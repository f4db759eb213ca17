---------------------------- MODULE RetryService ----------------------------
(***************************************************************************)
(* The retry worker: it consumes send_failed, and answers each failure     *)
(* with a send_retry message, a dead_letter message, or nothing when the   *)
(* retry_attempts ledger in MongoDB says that it was answered before.      *)
(*                                                                         *)
(* RetryProcessor.process() is one step per outside call: the ledger read  *)
(* with the decision that follows from it, the publication, the ledger     *)
(* write, the return to the loop.  The worker may crash, and any call may  *)
(* raise, between any two of them.                                         *)
(***************************************************************************)
EXTENDS FailureTypes, Naturals, Sequences, FiniteSets

CONSTANTS
    Commands,     \* command ids
    Failures,     \* the send_failed messages producers may publish
    NullRecord,   \* a record that does not decode, or does not validate
    MaxPoll, MaxRecords, MaxFaults, FaultKinds    \* see KafkaConsumer

\* `retryable` is the key of that name; "absent" when a producer left it out.
Failure ==
    [command : Commands, retry_count : Nat, max_retries : Nat,
     failure_type : RETRYABLE_FAILURE_TYPES \cup NON_RETRYABLE_FAILURE_TYPES,
     retryable : {"yes", "no", "absent"}]

ASSUME RetryAssumption ==
    /\ Failures \subseteq Failure
    /\ NullRecord \notin Failure
    /\ MaxPoll \in Nat \ {0}
    /\ MaxRecords \in Nat
    /\ MaxFaults \in Nat
    /\ FaultKinds \subseteq {"crash", "raise", "rejoin"}

VARIABLES
    sendFailed,   \* topic send_failed
    sendRetry,    \* topic send_retry
    deadLetter,   \* topic dead_letter
    ledger,       \* collection retry_attempts, by command_id
    step,         \* what process() does next with the current record
    consumer, handled, faults                     \* see KafkaConsumer

vars == <<sendFailed, sendRetry, deadLetter, ledger, step, consumer, handled, faults>>

local == <<sendRetry, deadLetter, ledger>>

Kafka == INSTANCE KafkaConsumer WITH
            Records <- Failures \cup {NullRecord}, log <- sendFailed

NoAttempt == [status |-> "none", retry_count |-> 0, scheduled_retry_counts |-> {}]

Init ==
    /\ Kafka!Init
    /\ sendRetry = <<>>
    /\ deadLetter = <<>>
    /\ ledger = [c \in Commands |-> NoAttempt]
    /\ step = "idle"

-----------------------------------------------------------------------------
(* RetryProcessor *)

message == Kafka!Current

\* _is_retryable: the key decides when the message has it, else the type.
IsRetryable(m) ==
    \/ m.retryable = "yes"
    \/ m.retryable = "absent" /\ m.failure_type \in RETRYABLE_FAILURE_TYPES

\* Mutant of Exhausted: one attempt too many.
ExhaustedTooLate(m) == m.retry_count > m.max_retries

Exhausted(m) == m.retry_count >= m.max_retries

\* Mutant of AlreadyDeadLettered: of this attempt only.
DeadLetteredAtThisCount(m) ==
    ledger[m.command].status = "dead_lettered"
        /\ ledger[m.command].retry_count = m.retry_count

\* Mutant of DuplicateRetry: looks up the attempt that failed, not the next.
DuplicateOfFailed(m) == m.retry_count \in ledger[m.command].scheduled_retry_counts

\* The two reasons for which process() returns "skipped".
AlreadyDeadLettered(m) == ledger[m.command].status = "dead_lettered"

DuplicateRetry(m) ==
    m.retry_count + 1 \in ledger[m.command].scheduled_retry_counts

ReadyFor(s) == Kafka!HasRecord /\ step = s

SkipInvalid ==
    /\ ReadyFor("idle")
    /\ message = NullRecord
    /\ Kafka!Finish
    /\ UNCHANGED <<local, step, faults>>

SkipDeadLettered ==
    /\ ReadyFor("idle")
    /\ message # NullRecord
    /\ AlreadyDeadLettered(message)
    /\ Kafka!Finish
    /\ UNCHANGED <<local, step, faults>>

SkipDuplicate ==
    /\ ReadyFor("idle")
    /\ message # NullRecord
    /\ ~AlreadyDeadLettered(message)
    /\ IsRetryable(message) /\ ~Exhausted(message)
    /\ DuplicateRetry(message)
    /\ Kafka!Finish
    /\ UNCHANGED <<local, step, faults>>

\* Mutant of GiveUp: a duplicate is given up, not skipped.
GiveUpDuplicate ==
    /\ ReadyFor("idle")
    /\ message # NullRecord
    /\ ~AlreadyDeadLettered(message)
    /\ ~IsRetryable(message) \/ Exhausted(message) \/ DuplicateRetry(message)
    /\ step' = "publish_dead_letter"
    /\ UNCHANGED <<sendFailed, local, consumer, handled, faults>>

GiveUp ==
    /\ ReadyFor("idle")
    /\ message # NullRecord
    /\ ~AlreadyDeadLettered(message)
    /\ ~IsRetryable(message) \/ Exhausted(message)
    /\ step' = "publish_dead_letter"
    /\ UNCHANGED <<sendFailed, local, consumer, handled, faults>>

\* The worker now sleeps out the backoff, whose length nothing depends on.
Schedule ==
    /\ ReadyFor("idle")
    /\ message # NullRecord
    /\ ~AlreadyDeadLettered(message)
    /\ IsRetryable(message) /\ ~Exhausted(message)
    /\ ~DuplicateRetry(message)
    /\ step' = "publish_retry"
    /\ UNCHANGED <<sendFailed, local, consumer, handled, faults>>

DeadLetterOf(m) ==
    [command |-> m.command, retry_count |-> m.retry_count,
     reason |-> IF Exhausted(m) THEN "max retries exceeded" ELSE "reported"]

\* Mutant of PublishDeadLetter: send() without waiting for its future.
PublishDeadLetterUnconfirmed ==
    /\ ReadyFor("publish_dead_letter")
    /\ deadLetter' \in {deadLetter, Append(deadLetter, DeadLetterOf(message))}
    /\ step' = "mark_dead_lettered"
    /\ UNCHANGED <<sendFailed, sendRetry, ledger, consumer, handled, faults>>

PublishDeadLetter ==
    /\ ReadyFor("publish_dead_letter")
    /\ deadLetter' = Append(deadLetter, DeadLetterOf(message))
    /\ step' = "mark_dead_lettered"
    /\ UNCHANGED <<sendFailed, sendRetry, ledger, consumer, handled, faults>>

MarkDeadLettered ==
    /\ ReadyFor("mark_dead_lettered")
    /\ ledger' = [ledger EXCEPT ![message.command].status = "dead_lettered",
                                ![message.command].retry_count = message.retry_count]
    /\ step' = "return"
    /\ UNCHANGED <<sendFailed, sendRetry, deadLetter, consumer, handled, faults>>

\* Mutant of SendRetryOf: the budget is not passed on.
SendRetryWithoutBudget(m) ==
    [command |-> m.command, retry_count |-> m.retry_count + 1]

SendRetryOf(m) ==
    [command |-> m.command, retry_count |-> m.retry_count + 1,
     max_retries |-> m.max_retries]

\* Mutant of PublishRetry: send() without waiting for its future.
PublishRetryUnconfirmed ==
    /\ ReadyFor("publish_retry")
    /\ sendRetry' \in {sendRetry, Append(sendRetry, SendRetryOf(message))}
    /\ step' = "mark_scheduled"
    /\ UNCHANGED <<sendFailed, deadLetter, ledger, consumer, handled, faults>>

PublishRetry ==
    /\ ReadyFor("publish_retry")
    /\ sendRetry' = Append(sendRetry, SendRetryOf(message))
    /\ step' = "mark_scheduled"
    /\ UNCHANGED <<sendFailed, deadLetter, ledger, consumer, handled, faults>>

MarkScheduled ==
    /\ ReadyFor("mark_scheduled")
    /\ ledger' = [ledger EXCEPT ![message.command] =
            [status |-> "scheduled",
             retry_count |-> message.retry_count + 1,
             scheduled_retry_counts |-> @.scheduled_retry_counts
                                            \cup {message.retry_count + 1}]]
    /\ step' = "return"
    /\ UNCHANGED <<sendFailed, sendRetry, deadLetter, consumer, handled, faults>>

Return ==
    /\ ReadyFor("return")
    /\ Kafka!Finish
    /\ step' = "idle"
    /\ UNCHANGED <<local, faults>>

-----------------------------------------------------------------------------
(* The loop around it, faults, and the producers of send_failed. *)

Loop ==
    /\ step = "idle"
    /\ Kafka!Start \/ Kafka!Poll \/ Kafka!Commit
    /\ UNCHANGED <<local, step, faults>>

Raise ==
    /\ Kafka!Raise
    /\ Kafka!Fault("raise")
    /\ step' = "idle"
    /\ UNCHANGED local

Rejoin ==
    /\ Kafka!Rejoin
    /\ Kafka!Fault("rejoin")
    /\ UNCHANGED <<local, step>>

Crash ==
    /\ Kafka!Crash
    /\ Kafka!Fault("crash")
    /\ step' = "idle"
    /\ UNCHANGED local

Produce ==
    /\ \E m \in Failures \cup {NullRecord} : Kafka!Produce(m)
    /\ UNCHANGED <<local, step, faults>>

Worker ==
    \/ SkipInvalid \/ SkipDeadLettered \/ SkipDuplicate
    \/ GiveUp \/ PublishDeadLetter \/ MarkDeadLettered
    \/ Schedule \/ PublishRetry \/ MarkScheduled
    \/ Return \/ Loop

Next == Worker \/ Raise \/ Rejoin \/ Crash \/ Produce

\* One thread runs the worker, and the container's restart policy is
\* unless-stopped: it always takes its next step.
Spec == Init /\ [][Next]_vars /\ WF_vars(Worker)

-----------------------------------------------------------------------------
(* Properties *)

Steps == {"idle", "publish_dead_letter", "mark_dead_lettered", "publish_retry",
          "mark_scheduled", "return"}

Attempt == [status : {"none", "scheduled", "dead_lettered"}, retry_count : Nat,
            scheduled_retry_counts : SUBSET Nat]

SendRetry == [command : Commands, retry_count : Nat, max_retries : Nat]

DeadLetter == [command : Commands, retry_count : Nat,
               reason : {"max retries exceeded", "reported"}]

\* Types of the variables.
TypeOK ==
    /\ sendFailed \in Seq(Failures \cup {NullRecord})
    /\ sendRetry \in Seq(SendRetry)
    /\ deadLetter \in Seq(DeadLetter)
    /\ ledger \in [Commands -> Attempt]
    /\ step \in Steps
    /\ consumer \in Kafka!ConsumerType
    /\ handled \subseteq Nat
    /\ faults \in Nat

IsDeadLettered(c) == \E i \in DOMAIN deadLetter : deadLetter[i].command = c

IsScheduled(c, n) ==
    \E i \in DOMAIN sendRetry :
        sendRetry[i].command = c /\ sendRetry[i].retry_count = n

Answered(m) ==
    \/ m = NullRecord
    \/ IsDeadLettered(m.command)
    \/ IsScheduled(m.command, m.retry_count + 1)

\* The ledger never claims what did not reach Kafka: process() publishes
\* before it marks, so a command the ledger makes it skip is not lost in
\* a crash between the two.
LedgerIsBacked ==
    \A c \in Commands :
        /\ ledger[c].status = "dead_lettered" => IsDeadLettered(c)
        /\ \A n \in ledger[c].scheduled_retry_counts : IsScheduled(c, n)

\* A failure whose iteration ran to its end, whichever of the skips and
\* publications that was, is answered: retried or dead-lettered.
HandledIsAnswered == \A i \in handled : Answered(sendFailed[i])

\* A retry is the answer to a failure of the same command that was retryable
\* and one attempt earlier, and never exceeds that failure's budget.
RetryIsJustified ==
    \A i \in DOMAIN sendRetry : \E j \in DOMAIN sendFailed :
        /\ sendFailed[j] # NullRecord
        /\ sendRetry[i] = SendRetryOf(sendFailed[j])
        /\ IsRetryable(sendFailed[j])
        /\ sendRetry[i].retry_count <= sendFailed[j].max_retries

\* A dead letter is the answer to a failure that may not be retried: its own
\* record says it is final, or its budget is spent.
DeadLetterIsJustified ==
    \A i \in DOMAIN deadLetter : \E j \in DOMAIN sendFailed :
        /\ sendFailed[j] # NullRecord
        /\ deadLetter[i] = DeadLetterOf(sendFailed[j])
        /\ deadLetter[i].reason = "reported" => ~IsRetryable(sendFailed[j])

Copies(c, n) ==
    Cardinality({i \in DOMAIN sendRetry :
        sendRetry[i].command = c /\ sendRetry[i].retry_count = n})

\* However often a failure is redelivered or reported again, an attempt of a
\* command is published once, and once more per fault at most.
DuplicatesBounded ==
    \A i \in DOMAIN sendRetry :
        Copies(sendRetry[i].command, sendRetry[i].retry_count) <= 1 + faults

\* Once the ledger says dead_lettered it stays so, and no attempt of the
\* command is published any more.
DeadLetterIsFinal ==
    [][\A c \in Commands : ledger[c].status = "dead_lettered" =>
          /\ ledger'[c].status = "dead_lettered"
          /\ \A n \in 1..Len(sendRetry') : n > Len(sendRetry) =>
                sendRetry'[n].command # c]_vars

\* docs/tai_lieu.md: a failed send is not lost, it goes through retry and DLQ.
\* Every failure behind the committed offset is answered.
CommittedIsAnswered ==
    \A i \in 1..consumer.committed : Answered(sendFailed[i])
=============================================================================
