------------------------------ MODULE Pipeline ------------------------------
(***************************************************************************)
(* core-service, api-service and retry-service on the topics they share:   *)
(*                                                                         *)
(*   raw_events -> core -> reply_commands -> api -> Facebook               *)
(*                 core, api -> send_failed -> retry -> send_retry -> core *)
(*                                             retry -> dead_letter        *)
(*                                                                         *)
(* A step of the pipeline is a step of one service.  The faults are those  *)
(* after which each service goes on by itself; runs of the services on     *)
(* their own show what an exception that leaves a batch, or a crash of     *)
(* core-service, costs.                                                    *)
(***************************************************************************)
EXTENDS Integers, Sequences, FiniteSets

CONSTANTS
    Events, Callers, Decisions,       \* see EventProcessor
    Answers,                          \* see ApiWorker
    FastRetries, MaxRetries,          \* see CoreService
    NoRecord,      \* stands for the records nobody here publishes
    MaxPoll,       \* max_poll_records of every worker
    MaxCommands,   \* bound: length of reply_commands
    MaxManual, MaxFaults,             \* bounds, see CoreService
    CoreFaults,    \* the faults of core-service
    WorkerFaults   \* the faults of api-worker and retry-worker

VARIABLES
    \* the topics
    rawEvents, replyCommands, sendFailed, sendRetry, deadLetter,
    \* core-service
    docs, logs, reviews, calls, stage, attempt, manual,
    rawConsumer, rawHandled, retryConsumer, retryHandled,
    \* api-worker
    executed, apiStep, error, apiConsumer, apiHandled,
    \* retry-worker
    ledger, retryStep, failedConsumer, failedHandled,
    faults,        \* faults so far, of all services
    concluded      \* history: events that have, or had, an outcome

coreVars == <<docs, logs, reviews, calls, stage, attempt, manual,
              rawConsumer, rawHandled, retryConsumer, retryHandled, rawEvents>>

apiVars == <<executed, apiStep, error, apiConsumer, apiHandled>>

retryVars == <<ledger, retryStep, failedConsumer, failedHandled, deadLetter>>

vars == <<coreVars, apiVars, retryVars, replyCommands, sendFailed, sendRetry,
          faults, concluded>>

Core == INSTANCE CoreService WITH FaultKinds <- CoreFaults, MaxSendRetries <- 0

Api == INSTANCE ApiWorker WITH
    CommandIds <- Core!CommandIds,
    Commands <- [command : Core!CommandIds, action_type : Core!FacebookActions,
                 retry_count : Nat, max_retries : Nat],
    Malformed <- NoRecord, NonObject <- NoRecord,
    DefaultMaxRetries <- MaxRetries, MaxRecords <- MaxCommands,
    FaultKinds <- WorkerFaults,
    step <- apiStep, consumer <- apiConsumer, handled <- apiHandled

Retry == INSTANCE RetryService WITH
    Commands <- Core!CommandIds, Failures <- {}, NullRecord <- NoRecord,
    MaxRecords <- 0, FaultKinds <- WorkerFaults,
    step <- retryStep, consumer <- failedConsumer, handled <- failedHandled

ASSUME PipelineAssumption ==
    /\ IsFiniteSet(Events) /\ Events # {}
    /\ Callers = {Core!worker, Core!retrier, Core!web}
    /\ \A d \in Decisions : Core!Admissible(d)
    /\ FastRetries \in Nat /\ MaxRetries \in Nat
    /\ MaxPoll \in Nat \ {0}
    /\ MaxCommands \in Nat /\ MaxManual \in Nat /\ MaxFaults \in Nat
    /\ CoreFaults \subseteq {"publish", "decide"}
    /\ WorkerFaults \subseteq {"crash"}

-----------------------------------------------------------------------------

\* The offsets a worker has not put behind it: neither handled nor, while it
\* is past them, reachable again without a restart.
Unread(consumer, topic) ==
    CASE consumer.mode = "down"    -> consumer.committed + 1 .. Len(topic)
      [] consumer.mode = "polling" -> consumer.position + 1 .. Len(topic)
      [] consumer.mode = "batch"   -> consumer.next + 1 .. Len(topic)

\* Some service has a message about e to work on, or an operator waits for it.
Busy(e) ==
    \/ \E i \in Unread(rawConsumer, rawEvents) : rawEvents[i] = e
    \/ Unread(retryConsumer, sendRetry) \cap Core!About(sendRetry, e) # {}
    \/ Unread(apiConsumer, replyCommands) \cap Core!About(replyCommands, e) # {}
    \/ Unread(failedConsumer, sendFailed) \cap Core!About(sendFailed, e) # {}
    \/ ~Core!At(Core!web, "idle") /\ calls[Core!web].event = e

Arrived(e) == \E i \in DOMAIN rawEvents : rawEvents[i] = e

\* Done on the page, for a person to see, nothing to do, or given up.
HasOutcome(e) ==
    \/ \E i \in Core!About(replyCommands, e) : executed[i] > 0
    \/ reviews[e] > 0
    \/ docs[e].status \in {"ignored", "processed"}
    \/ Core!About(deadLetter, e) # {}

Init ==
    /\ Core!Init
    /\ Api!Init
    /\ Retry!Init
    /\ concluded = {}

History == concluded' = concluded \cup {e \in Events : HasOutcome(e)'}

CoreStep(A) == UNCHANGED <<apiVars, retryVars>> /\ A /\ History

ApiStep(A) == UNCHANGED <<coreVars, retryVars, sendRetry>> /\ A /\ History

RetryStep(A) == UNCHANGED <<coreVars, apiVars, replyCommands>> /\ A /\ History

CoreWorker == CoreStep(Core!Worker)
CoreRetrier == CoreStep(Core!Retrier)
CoreWeb == CoreStep(Core!Web)
ApiWorker == ApiStep(Api!Worker)
RetryWorker == RetryStep(Retry!Worker)

CoreFault ==
    CoreStep(\E a \in Callers : Core!DecisionFailure(a) \/ Core!PublishFailure(a))

Environment ==
    CoreStep(\E e \in Events : Core!WebhookPublishes(e) \/ Core!WebRetries(e))

Services == CoreWorker \/ CoreRetrier \/ CoreWeb \/ ApiWorker \/ RetryWorker

Next ==
    \/ Services
    \/ CoreFault \/ ApiStep(Api!Crash) \/ RetryStep(Retry!Crash)
    \/ Environment

\* Each worker runs its loop, and a request runs to its end.
Spec ==
    /\ Init /\ [][Next]_vars
    /\ WF_vars(Services)

-----------------------------------------------------------------------------
(* Properties *)

Lifecycle == INSTANCE EventLifecycle WITH
    seen <- {e \in Events : Arrived(e)}, busy <- {e \in Events : Busy(e)}

\* The services together keep the promise of EventLifecycle: no event comes to
\* rest, in whichever service, before it has an outcome.
ImplementsLifecycle == Lifecycle!Spec

\* Nor does it rest in a status that says it is under way.
RestsSettled == \A e \in Events : ~Busy(e) => Core!Settled(e)

\* However decisions change and failures repeat on the way, an event is
\* retried no more often than its budget allows, for each time it was begun.
RetriesBounded ==
    \A e \in Events :
        Cardinality(Core!About(sendRetry, e)) <= MaxRetries * (1 + manual + faults)

\* Every event gets its outcome.
EventuallyConcluded == \A e \in Events : Arrived(e) ~> e \in concluded
=============================================================================
