--------------------------- MODULE PipelineProofs ---------------------------
(***************************************************************************)
(* What the services keep together, for every set of events and decisions, *)
(* every budget of retries, batch size and number of faults.  What         *)
(* core-service keeps on its own is taken from CoreAttemptsProofs: its     *)
(* steps are the same here, and the other services only publish to the     *)
(* topics it reads.                                                        *)
(***************************************************************************)
EXTENDS Pipeline, FiniteSetTheorems, TLAPS

CoreFacts == INSTANCE CoreAttemptsProofs WITH
    FaultKinds <- CoreFaults, MaxSendRetries <- 0

ApiLoop == INSTANCE KafkaConsumerProofs WITH
    Records <- CoreFacts!ReplyCommand, MaxRecords <- 0, FaultKinds <- {},
    log <- replyCommands, consumer <- apiConsumer, handled <- apiHandled

FailedLoop == INSTANCE KafkaConsumerProofs WITH
    Records <- CoreFacts!FailureReport, MaxRecords <- 0, FaultKinds <- {},
    log <- sendFailed, consumer <- failedConsumer, handled <- failedHandled

\* The steps of core-service, among those of the pipeline.
CoreSteps == CoreWorker \/ CoreRetrier \/ CoreWeb \/ CoreFault \/ Environment

-----------------------------------------------------------------------------
(* Assumptions *)

(* What the proofs about the services take for granted holds here. *)
LEMMA Assumptions ==
    /\ CoreFacts!CoreAssumption /\ CoreFacts!ProcessorAssumption
    /\ ApiLoop!ConsumerAssumption /\ FailedLoop!ConsumerAssumption
  <1>1. CoreFacts!CoreAssumption
    BY PipelineAssumption
    DEF CoreFacts!CoreAssumption, Core!worker, Core!retrier, Core!web,
        CoreFacts!worker, CoreFacts!retrier, CoreFacts!web
  <1>2. CoreFacts!ProcessorAssumption
    <2>1. \A d : Core!Admissible(d) <=> CoreFacts!Admissible(d)
      BY DEF Core!Admissible, CoreFacts!Admissible, Core!Decision, CoreFacts!Decision,
         Core!Actions, CoreFacts!Actions, Core!FacebookActions, CoreFacts!FacebookActions
    <2>2. CoreFacts!IsFiniteSet(Events)
      BY PipelineAssumption DEF IsFiniteSet, CoreFacts!IsFiniteSet
    <2>. QED  BY <2>1, <2>2, PipelineAssumption DEF CoreFacts!ProcessorAssumption
  <1>. QED
    BY <1>1, <1>2, PipelineAssumption DEF ApiLoop!ConsumerAssumption, ApiLoop!Faults,
       FailedLoop!ConsumerAssumption, FailedLoop!Faults

(* process() is the same. *)
LEMMA ProcessSame ==
    ASSUME NEW a \in Callers
    PROVE  /\ Core!ProcessStep(a) <=> CoreFacts!ProcessStep(a)
           /\ Core!DecideFails(a) <=> CoreFacts!DecideFails(a)
           /\ Core!PublishFails(a) <=> CoreFacts!PublishFails(a)
  BY DEF Core!FacebookActions, CoreFacts!FacebookActions, Core!RETRYABLE_STATUSES,
     CoreFacts!RETRYABLE_STATUSES, Core!collections, CoreFacts!collections,
     Core!NotGiven, CoreFacts!NotGiven, Core!CommandId, CoreFacts!CommandId, Core!At,
     CoreFacts!At, Core!Doc, CoreFacts!Doc, Core!Key, CoreFacts!Key, Core!Goto,
     CoreFacts!Goto, Core!Throw, CoreFacts!Throw, Core!Skips, CoreFacts!Skips,
     Core!FindNew, CoreFacts!FindNew, Core!FindDuplicate, CoreFacts!FindDuplicate,
     Core!FindRetry, CoreFacts!FindRetry, Core!MarkRetrying, CoreFacts!MarkRetrying,
     Core!Reread, CoreFacts!Reread, Core!Create, CoreFacts!Create,
     Core!CreateDuplicateKey, CoreFacts!CreateDuplicateKey, Core!Decide,
     CoreFacts!Decide, Core!DecideFails, CoreFacts!DecideFails, Core!SaveFailure,
     CoreFacts!SaveFailure, Core!Executed, CoreFacts!Executed, Core!FindSuccess,
     CoreFacts!FindSuccess, Core!FindLog, CoreFacts!FindLog, Core!LogPending,
     CoreFacts!LogPending, Core!LogDuplicateKey, CoreFacts!LogDuplicateKey,
     Core!LogOutcome, CoreFacts!LogOutcome, Core!LogSkipped, CoreFacts!LogSkipped,
     Core!LogEscalated, CoreFacts!LogEscalated, Core!Command, CoreFacts!Command,
     Core!Publish, CoreFacts!Publish, Core!PublishFails, CoreFacts!PublishFails,
     Core!LogQueued, CoreFacts!LogQueued, Core!LogFailed, CoreFacts!LogFailed,
     Core!CreateReview, CoreFacts!CreateReview, Core!Save, CoreFacts!Save,
     Core!ProcessStep, CoreFacts!ProcessStep

(* So is what the callers do around it. *)
LEMMA WorkerSame ==
    /\ Core!WorkerBegins => CoreFacts!WorkerBegins
    /\ Core!WorkerSucceeds => CoreFacts!WorkerSucceeds
    /\ Core!WorkerRetries => CoreFacts!WorkerRetries
    /\ Core!WorkerGivesUp => CoreFacts!WorkerGivesUp
    /\ Core!WorkerPublishesFailure => CoreFacts!WorkerPublishesFailure
    /\ Core!WorkerFinishes => CoreFacts!WorkerFinishes
    /\ Core!WorkerLoop => CoreFacts!WorkerLoop
  BY DEF Core!WorkerBegins, CoreFacts!WorkerBegins, Core!WorkerSucceeds,
     CoreFacts!WorkerSucceeds, Core!WorkerRetries, CoreFacts!WorkerRetries,
     Core!WorkerGivesUp, CoreFacts!WorkerGivesUp, Core!WorkerPublishesFailure,
     CoreFacts!WorkerPublishesFailure, Core!WorkerFinishes, CoreFacts!WorkerFinishes,
     Core!WorkerLoop, CoreFacts!WorkerLoop, Core!RawEvents!HasRecord,
     CoreFacts!RawEvents!HasRecord, Core!worker, CoreFacts!worker, Core!Call,
     CoreFacts!Call, Core!rawEvent, CoreFacts!rawEvent, Core!NotGiven,
     CoreFacts!NotGiven, Core!Stage, CoreFacts!Stage, Core!collections,
     CoreFacts!collections, Core!topics, CoreFacts!topics, Core!rawLoop,
     CoreFacts!rawLoop, Core!retryLoop, CoreFacts!retryLoop, Core!Succeeded,
     CoreFacts!Succeeded, Core!RawEvents!Finish, CoreFacts!RawEvents!Finish,
     Core!Hangup, CoreFacts!Hangup, Core!Failed, CoreFacts!Failed, Core!Attempts,
     CoreFacts!Attempts, Core!MarkDoc, CoreFacts!MarkDoc, Core!FailureOf,
     CoreFacts!FailureOf, Core!RawEvents!Start, CoreFacts!RawEvents!Start,
     Core!RawEvents!Poll, CoreFacts!RawEvents!Poll, Core!RawEvents!Commit,
     CoreFacts!RawEvents!Commit, Core!NoCall, CoreFacts!NoCall, Core!RawEvents!Current,
     CoreFacts!RawEvents!Current, Core!At, CoreFacts!At, Core!Idle, CoreFacts!Idle,
     Core!CommandId, CoreFacts!CommandId, Core!NoDecision, CoreFacts!NoDecision

(* The steps of core-retry-worker are the same. *)
LEMMA RetrierSame ==
    /\ Core!RetrierBegins => CoreFacts!RetrierBegins
    /\ Core!RetrierSucceeds => CoreFacts!RetrierSucceeds
    /\ Core!RetrierPublishesFailure => CoreFacts!RetrierPublishesFailure
    /\ Core!RetrierFinishes => CoreFacts!RetrierFinishes
    /\ Core!RetrierLoop => CoreFacts!RetrierLoop
    /\ Core!RetrierAbandons => CoreFacts!RetrierAbandons
  BY DEF Core!RetrierBegins, CoreFacts!RetrierBegins, Core!RetrierSucceeds,
     CoreFacts!RetrierSucceeds, Core!RetrierPublishesFailure,
     CoreFacts!RetrierPublishesFailure, Core!RetrierFinishes, CoreFacts!RetrierFinishes,
     Core!RetrierLoop, CoreFacts!RetrierLoop, Core!RetrierAbandons,
     CoreFacts!RetrierAbandons, Core!SendRetries!HasRecord,
     CoreFacts!SendRetries!HasRecord, Core!retrier, CoreFacts!retrier, Core!Call,
     CoreFacts!Call, Core!EventOf, CoreFacts!EventOf, Core!retryCommand,
     CoreFacts!retryCommand, Core!Stage, CoreFacts!Stage, Core!collections,
     CoreFacts!collections, Core!topics, CoreFacts!topics, Core!rawLoop,
     CoreFacts!rawLoop, Core!retryLoop, CoreFacts!retryLoop, Core!Succeeded,
     CoreFacts!Succeeded, Core!SendRetries!Finish, CoreFacts!SendRetries!Finish,
     Core!Hangup, CoreFacts!Hangup, Core!At, CoreFacts!At, Core!Failed,
     CoreFacts!Failed, Core!FailureOf, CoreFacts!FailureOf, Core!SendRetries!Start,
     CoreFacts!SendRetries!Start, Core!SendRetries!Poll, CoreFacts!SendRetries!Poll,
     Core!SendRetries!Commit, CoreFacts!SendRetries!Commit, Core!SendRetries!Raise,
     CoreFacts!SendRetries!Raise, Core!worker, CoreFacts!worker, Core!NoCall,
     CoreFacts!NoCall, Core!SendRetries!Current, CoreFacts!SendRetries!Current,
     Core!Idle, CoreFacts!Idle, Core!CommandId, CoreFacts!CommandId, Core!NoDecision,
     CoreFacts!NoDecision, Core!NotGiven, CoreFacts!NotGiven

(* And those of the web server and of the webhook. *)
LEMMA WebSame ==
    /\ Core!WebAnswers => CoreFacts!WebAnswers
    /\ \A e \in Events : Core!WebRetries(e) => CoreFacts!WebRetries(e)
    /\ \A e \in Events : Core!WebhookPublishes(e) => CoreFacts!WebhookPublishes(e)
  BY DEF Core!WebAnswers, CoreFacts!WebAnswers, Core!WebRetries, CoreFacts!WebRetries,
     Core!WebhookPublishes, CoreFacts!WebhookPublishes, Core!At, CoreFacts!At, Core!web,
     CoreFacts!web, Core!Hangup, CoreFacts!Hangup, Core!collections,
     CoreFacts!collections, Core!topics, CoreFacts!topics, Core!rawLoop,
     CoreFacts!rawLoop, Core!retryLoop, CoreFacts!retryLoop, Core!ManuallyRetryable,
     CoreFacts!ManuallyRetryable, Core!Call, CoreFacts!Call, Core!RawEvents!Produce,
     CoreFacts!RawEvents!Produce, Core!Idle, CoreFacts!Idle, Core!NoCall,
     CoreFacts!NoCall, Core!NotGiven, CoreFacts!NotGiven, Core!NoDecision,
     CoreFacts!NoDecision, Core!Cardinality, CoreFacts!Cardinality

(* A step of core-service in the pipeline is one of those CoreAttemptsProofs is
   about, and leaves the other services alone. *)
LEMMA CoreIsCore ==
    ASSUME CoreSteps
    PROVE  CoreFacts!CalmNext /\ UNCHANGED <<apiVars, retryVars>>
  <1>1. UNCHANGED <<apiVars, retryVars>>
    BY DEF CoreSteps, CoreWorker, CoreRetrier, CoreWeb, CoreFault, Environment, CoreStep
  <1>2. /\ Core!worker = CoreFacts!worker /\ Core!worker \in Callers
        /\ Core!retrier = CoreFacts!retrier /\ Core!retrier \in Callers
        /\ Core!web = CoreFacts!web /\ Core!web \in Callers
    BY PipelineAssumption DEF Core!worker, CoreFacts!worker, Core!retrier, CoreFacts!retrier,
       Core!web, CoreFacts!web
  <1>3. ASSUME NEW a \in Callers
        PROVE  /\ Core!Step(a) => CoreFacts!Step(a)
               /\ Core!DecisionFailure(a) => CoreFacts!DecisionFailure(a)
               /\ Core!PublishFailure(a) => CoreFacts!PublishFailure(a)
    BY ProcessSame
    DEF Core!Step, CoreFacts!Step, Core!DecisionFailure, CoreFacts!DecisionFailure,
        Core!PublishFailure, CoreFacts!PublishFailure, Core!Fault, CoreFacts!Fault,
        Core!loops, CoreFacts!loops, Core!topics, CoreFacts!topics, Core!rawLoop,
        CoreFacts!rawLoop, Core!retryLoop, CoreFacts!retryLoop
  <1>4. CASE CoreWorker
    BY <1>2, <1>3, <1>4, WorkerSame
    DEF CoreWorker, CoreStep, Core!Worker, CoreFacts!Worker, CoreFacts!CalmNext
  <1>5. CASE CoreRetrier
    BY <1>2, <1>3, <1>5, RetrierSame
    DEF CoreRetrier, CoreStep, Core!Retrier, CoreFacts!Retrier, CoreFacts!CalmNext
  <1>6. CASE CoreWeb
    BY <1>2, <1>3, <1>6, WebSame
    DEF CoreWeb, CoreStep, Core!Web, CoreFacts!Web, CoreFacts!CalmNext
  <1>7. CASE CoreFault
    BY <1>3, <1>7 DEF CoreFault, CoreStep, CoreFacts!CalmNext
  <1>8. CASE Environment
    BY <1>8, WebSame DEF Environment, CoreStep, CoreFacts!CalmNext
  <1>. QED  BY <1>1, <1>4, <1>5, <1>6, <1>7, <1>8 DEF CoreSteps

-----------------------------------------------------------------------------
(* The loops of api-worker and retry-worker *)

\* Types and order of the other loops' variables, and of what they keep.
Loops == ApiLoop!LoopInv /\ FailedLoop!LoopInv

ApiSteps == ApiWorker \/ ApiStep(Api!Crash)

RetrySteps == RetryWorker \/ RetryStep(Retry!Crash)

(* A failure that api-worker reports has the type of core-service's own. *)
LEMMA ApiReports ==
    ASSUME NEW m \in CoreFacts!ReplyCommand, NEW e
    PROVE  Api!FailureOf(m, e) \in CoreFacts!FailureReport
  <1>1. /\ m.command \in CoreFacts!CommandIds
        /\ m.retry_count \in Nat /\ m.max_retries = MaxRetries
    BY DEF CoreFacts!ReplyCommand, CoreFacts!Keys, CoreFacts!CommandIds
  <1>2. Api!FailureType(e) \in
           CoreFacts!RETRYABLE_FAILURE_TYPES \cup CoreFacts!NON_RETRYABLE_FAILURE_TYPES
    BY DEF Api!FailureType, CoreFacts!RETRYABLE_FAILURE_TYPES,
       CoreFacts!NON_RETRYABLE_FAILURE_TYPES, Api!RETRYABLE_STATUS_CODES,
       Api!NON_RETRYABLE_STATUS_CODES
  <1>. HIDE DEF Api!FailureType
  <1>. QED  BY <1>1, <1>2 DEF Api!FailureOf, CoreFacts!FailureReport

(* What retry-worker makes of a failure is a retry that core-service can take. *)
LEMMA RetriesTyped ==
    ASSUME NEW m \in CoreFacts!FailureReport
    PROVE  Retry!SendRetryOf(m) \in CoreFacts!RetryRecord
  BY DEF CoreFacts!FailureReport, CoreFacts!RetryRecord, Retry!SendRetryOf

(* A step of api-worker moves its own loop, and may report one failure. *)
LEMMA ApiIsAside ==
    ASSUME Loops, faults \in Nat, ApiSteps
    PROVE  /\ UNCHANGED <<coreVars, retryVars, sendRetry, replyCommands>>
           /\ faults' \in Nat /\ faults <= faults'
           /\ \/ sendFailed' = sendFailed
              \/ \E f \in CoreFacts!FailureReport :
                    /\ sendFailed' = Append(sendFailed, f)
                    /\ \E i \in DOMAIN replyCommands :
                          /\ f.command = replyCommands[i].command
                          /\ f.retry_count = replyCommands[i].retry_count
           /\ ApiLoop!LoopStep \/ UNCHANGED <<apiConsumer, apiHandled>>
  <1>1. UNCHANGED <<coreVars, retryVars, sendRetry>>
    BY DEF ApiSteps, ApiWorker, ApiStep
  <1>2. Api!Worker \/ Api!Crash
    BY DEF ApiSteps, ApiWorker, ApiStep
  <1>. USE DEF Api!Worker, Api!SkipMalformed, Api!NonObjectRaises, Api!Succeed, Api!HttpError,
       Api!Unreachable, Api!SilenceEscapes, Api!SilenceReported, Api!PublishFailure,
       Api!Return, Api!Loop, Api!Crash, Api!Abandon, Api!Refuse, Api!local
  <1>3. UNCHANGED replyCommands /\ faults' \in Nat /\ faults <= faults'
    <2>. USE DEF Api!Kafka!Finish, Api!Kafka!Raise, Api!Kafka!Start, Api!Kafka!Poll,
         Api!Kafka!Commit, Api!Kafka!Crash, Api!Kafka!Fault
    <2>1. UNCHANGED replyCommands
      BY <1>2
    <2>2. CASE Api!Worker
      <3>1. UNCHANGED faults
        BY <2>2
      <3>. QED  BY <2>1, <3>1
    <2>3. CASE Api!Crash
      <3>1. faults' = faults + 1
        BY <2>3
      <3>. QED  BY <2>1, <3>1
    <2>. QED  BY <1>2, <2>2, <2>3
  <1>4. \/ sendFailed' = sendFailed
        \/ \E f \in CoreFacts!FailureReport :
              /\ sendFailed' = Append(sendFailed, f)
              /\ \E i \in DOMAIN replyCommands :
                    /\ f.command = replyCommands[i].command
                    /\ f.retry_count = replyCommands[i].retry_count
    <2>1. CASE Api!PublishFailure
      <3>1. Api!message \in CoreFacts!ReplyCommand
        BY <2>1, Assumptions, ApiLoop!CurrentIsRecord
        DEF Loops, Api!ReadyFor, Api!message, Api!Kafka!Current, ApiLoop!Current,
            Api!Kafka!HasRecord, ApiLoop!HasRecord
      <3>2. \E i \in DOMAIN replyCommands : Api!message = replyCommands[i]
        <4>1. apiConsumer.next + 1 \in 1..Len(replyCommands)
          BY <2>1 DEF Loops, ApiLoop!LoopInv, ApiLoop!ConsumerType, ApiLoop!OffsetOrder,
             Api!ReadyFor, Api!Kafka!HasRecord
        <4>2. DOMAIN replyCommands = 1..Len(replyCommands)
          BY DEF Loops, ApiLoop!LoopInv
        <4>. QED  BY <4>1, <4>2 DEF Api!message, Api!Kafka!Current
      <3>3. /\ Api!FailureOf(Api!message, error).command = Api!message.command
            /\ Api!FailureOf(Api!message, error).retry_count = Api!message.retry_count
        BY DEF Api!FailureOf
      <3>4. sendFailed' = Append(sendFailed, Api!FailureOf(Api!message, error))
        BY <2>1
      <3>5. Api!FailureOf(Api!message, error) \in CoreFacts!FailureReport
        BY <3>1, ApiReports
      <3>. QED  BY <3>2, <3>3, <3>4, <3>5
    <2>2. CASE ~Api!PublishFailure
      BY <1>2, <2>2
    <2>. QED  BY <2>1, <2>2
  <1>5. ApiLoop!LoopStep \/ UNCHANGED <<apiConsumer, apiHandled>>
    BY <1>2
    DEF ApiLoop!LoopStep, ApiLoop!OrderlyStep, Api!Kafka!Finish, Api!Kafka!Raise,
        Api!Kafka!Start, Api!Kafka!Poll, Api!Kafka!Commit, Api!Kafka!Crash,
        Api!Kafka!HasRecord, ApiLoop!Finish, ApiLoop!Raise, ApiLoop!Start, ApiLoop!Poll,
        ApiLoop!Commit, ApiLoop!Crash, ApiLoop!HasRecord
  <1>. QED  BY <1>1, <1>3, <1>4, <1>5

(* A step of retry-worker moves its own loop, and may publish one retry. *)
LEMMA RetryIsAside ==
    ASSUME Loops, faults \in Nat, RetrySteps
    PROVE  /\ UNCHANGED <<coreVars, apiVars, replyCommands, sendFailed>>
           /\ faults' \in Nat /\ faults <= faults'
           /\ \/ sendRetry' = sendRetry
              \/ \E r \in CoreFacts!RetryRecord : sendRetry' = Append(sendRetry, r)
           /\ FailedLoop!LoopStep \/ UNCHANGED <<failedConsumer, failedHandled>>
  <1>1. UNCHANGED <<coreVars, apiVars, replyCommands>>
    BY DEF RetrySteps, RetryWorker, RetryStep
  <1>2. Retry!Worker \/ Retry!Crash
    BY DEF RetrySteps, RetryWorker, RetryStep
  <1>. USE DEF Retry!Worker, Retry!SkipInvalid, Retry!SkipDeadLettered, Retry!SkipDuplicate,
       Retry!GiveUp, Retry!PublishDeadLetter, Retry!MarkDeadLettered, Retry!Schedule,
       Retry!PublishRetry, Retry!MarkScheduled, Retry!Return, Retry!Loop, Retry!Crash,
       Retry!local
  <1>3. UNCHANGED sendFailed /\ faults' \in Nat /\ faults <= faults'
    <2>. USE DEF Retry!Kafka!Finish, Retry!Kafka!Start, Retry!Kafka!Poll,
         Retry!Kafka!Commit, Retry!Kafka!Crash, Retry!Kafka!Fault
    <2>1. UNCHANGED sendFailed
      BY <1>2
    <2>2. CASE Retry!Worker
      <3>1. UNCHANGED faults
        BY <2>2
      <3>. QED  BY <2>1, <3>1
    <2>3. CASE Retry!Crash
      <3>1. faults' = faults + 1
        BY <2>3
      <3>. QED  BY <2>1, <3>1
    <2>. QED  BY <1>2, <2>2, <2>3
  <1>4. \/ sendRetry' = sendRetry
        \/ \E r \in CoreFacts!RetryRecord : sendRetry' = Append(sendRetry, r)
    <2>1. CASE Retry!PublishRetry
      <3>1. Retry!message \in CoreFacts!FailureReport
        BY <2>1, Assumptions, FailedLoop!CurrentIsRecord
        DEF Loops, Retry!ReadyFor, Retry!message, Retry!Kafka!Current, FailedLoop!Current,
            Retry!Kafka!HasRecord, FailedLoop!HasRecord
      <3>. QED  BY <2>1, <3>1, RetriesTyped
    <2>2. CASE ~Retry!PublishRetry
      BY <1>2, <2>2
    <2>. QED  BY <2>1, <2>2
  <1>5. FailedLoop!LoopStep \/ UNCHANGED <<failedConsumer, failedHandled>>
    BY <1>2
    DEF FailedLoop!LoopStep, FailedLoop!OrderlyStep, Retry!Kafka!Finish,
        Retry!Kafka!Start, Retry!Kafka!Poll, Retry!Kafka!Commit, Retry!Kafka!Crash,
        Retry!Kafka!HasRecord, FailedLoop!Finish, FailedLoop!Start, FailedLoop!Poll,
        FailedLoop!Commit, FailedLoop!Crash, FailedLoop!HasRecord
  <1>. QED  BY <1>1, <1>3, <1>4, <1>5

-----------------------------------------------------------------------------
(* No event rests under way *)

PipeInv == CoreFacts!TypeInv /\ CoreFacts!OwnInv /\ CoreFacts!OwedInv /\ Loops

(* core-service starts in the pipeline as on its own. *)
LEMMA InitCore == Init => CoreFacts!Init
  <1>. SUFFICES ASSUME Init PROVE CoreFacts!Init
    OBVIOUS
  <1>1. CoreFacts!Keys = Core!Keys
    BY DEF Core!Keys, CoreFacts!Keys, Core!CommandId, CoreFacts!CommandId, Core!Actions,
       CoreFacts!Actions, Core!FacebookActions, CoreFacts!FacebookActions
  <1>2. CoreFacts!Idle = Core!Idle /\ CoreFacts!NoDoc = Core!NoDoc
    BY DEF Core!Idle, CoreFacts!Idle, Core!NoCall, CoreFacts!NoCall, Core!NotGiven,
       CoreFacts!NotGiven, Core!NoDecision, CoreFacts!NoDecision, Core!NoDoc,
       CoreFacts!NoDoc
  <1>3. CoreFacts!ProcessorInit
    BY <1>1, <1>2 DEF Init, Core!Init, Core!ProcessorInit, CoreFacts!ProcessorInit
  <1>. QED
    BY <1>3
    DEF Init, Core!Init, CoreFacts!Init, Core!worker, CoreFacts!worker, Core!retrier,
        CoreFacts!retrier, Core!RawEvents!InitialConsumer,
        CoreFacts!RawEvents!InitialConsumer, Core!SendRetries!InitialConsumer,
        CoreFacts!SendRetries!InitialConsumer

(* It holds at first: nothing was published, and no call made. *)
LEMMA InitPipe == Init => PipeInv
  <1>. SUFFICES ASSUME Init PROVE PipeInv
    OBVIOUS
  <1>1. CoreFacts!Init
    BY InitCore
  <1>2. CoreFacts!TypeInv /\ CoreFacts!OwnInv /\ CoreFacts!OwedInv
    BY <1>1, Assumptions, CoreFacts!TypeInvInductive, CoreFacts!OwnInvInductive,
       CoreFacts!OwedInvKept
  <1>3. Loops
    BY DEF Loops, Init, Api!Init, Retry!Init, Api!Kafka!Init, Retry!Kafka!Init,
       Api!Kafka!InitialConsumer, Retry!Kafka!InitialConsumer, ApiLoop!LoopInv,
       FailedLoop!LoopInv, ApiLoop!ConsumerType, FailedLoop!ConsumerType,
       ApiLoop!OffsetOrder, FailedLoop!OffsetOrder
  <1>. QED  BY <1>2, <1>3 DEF PipeInv

(* core-service keeps it, and what it publishes leaves the other loops in place. *)
LEMMA CoreKeepsPipe ==
    ASSUME PipeInv, CoreSteps
    PROVE  PipeInv'
  <1>1. CoreFacts!CalmNext /\ UNCHANGED <<apiVars, retryVars>>
    BY CoreIsCore
  <1>2. [CoreFacts!Next]_CoreFacts!vars
    BY <1>1, Assumptions, CoreFacts!CalmIsNext
  <1>3. CoreFacts!TypeInv' /\ CoreFacts!OwnInv' /\ CoreFacts!OwedInv'
    BY <1>1, <1>2, Assumptions, CoreFacts!TypeInvInductive, CoreFacts!OwnInvInductive,
       CoreFacts!OwedInvKept DEF PipeInv
  <1>4. CoreFacts!Grows(replyCommands, replyCommands') /\ CoreFacts!Grows(sendFailed, sendFailed')
    BY <1>2, Assumptions, CoreFacts!OutboxesGrow DEF PipeInv
  <1>5. /\ replyCommands' \in Seq(CoreFacts!ReplyCommand)
        /\ sendFailed' \in Seq(CoreFacts!FailureReport)
    BY <1>3 DEF CoreFacts!TypeInv, CoreFacts!CollectionTypes, CoreFacts!ServiceTypes
  <1>6. UNCHANGED <<apiConsumer, apiHandled>> /\ UNCHANGED <<failedConsumer, failedHandled>>
    BY <1>1 DEF apiVars, retryVars
  <1>7. ApiLoop!LoopInv'
    BY <1>4, <1>5, <1>6, Assumptions, ApiLoop!TopicGrows
    DEF PipeInv, Loops, ApiLoop!Grows, CoreFacts!Grows
  <1>8. FailedLoop!LoopInv'
    BY <1>4, <1>5, <1>6, Assumptions, FailedLoop!TopicGrows
    DEF PipeInv, Loops, FailedLoop!Grows, CoreFacts!Grows
  <1>. QED  BY <1>3, <1>7, <1>8 DEF PipeInv, Loops

(* So do the services around it. *)
LEMMA AsideKeepsPipe ==
    ASSUME PipeInv, ApiSteps \/ RetrySteps
    PROVE  PipeInv'
  <1>1. /\ CoreFacts!TypeInv /\ Loops
        /\ sendFailed \in Seq(CoreFacts!FailureReport)
        /\ sendRetry \in Seq(CoreFacts!RetryRecord)
        /\ faults \in Nat
    BY DEF PipeInv, CoreFacts!TypeInv, CoreFacts!ServiceTypes, CoreFacts!RetryLoopInv
  <1>2. CASE ApiSteps
    <2>1. /\ UNCHANGED <<coreVars, retryVars, sendRetry, replyCommands>>
          /\ faults' \in Nat
          /\ \/ sendFailed' = sendFailed
             \/ \E f \in CoreFacts!FailureReport : sendFailed' = Append(sendFailed, f)
          /\ ApiLoop!LoopStep \/ UNCHANGED <<apiConsumer, apiHandled>>
      BY <1>1, <1>2, ApiIsAside
    <2>2. /\ sendFailed' \in Seq(CoreFacts!FailureReport)
          /\ Len(sendFailed) <= Len(sendFailed')
          /\ \A i \in 1..Len(sendFailed) : sendFailed'[i] = sendFailed[i]
      BY <1>1, <2>1
    <2>3. CoreFacts!Grows(sendRetry, sendRetry') /\ sendRetry' \in Seq(CoreFacts!RetryRecord)
      BY <1>1, <2>1 DEF CoreFacts!Grows
    <2>4. CoreFacts!TypeInv' /\ CoreFacts!OwnInv' /\ CoreFacts!OwedInv'
      BY <2>1, <2>2, <2>3, Assumptions, CoreFacts!AsideKeeps DEF PipeInv, coreVars
    <2>5. ApiLoop!LoopInv'
      BY <1>1, <2>1, Assumptions, ApiLoop!LoopStepKeeps DEF Loops
    <2>6. FailedLoop!LoopInv'
      <3>1. UNCHANGED <<failedConsumer, failedHandled>>
        BY <2>1 DEF retryVars
      <3>. QED
        BY <1>1, <2>2, <3>1, Assumptions, FailedLoop!TopicGrows DEF Loops, FailedLoop!Grows
    <2>. QED  BY <2>4, <2>5, <2>6 DEF PipeInv, Loops
  <1>3. CASE RetrySteps
    <2>1. /\ UNCHANGED <<coreVars, apiVars, replyCommands, sendFailed>>
          /\ faults' \in Nat
          /\ \/ sendRetry' = sendRetry
             \/ \E r \in CoreFacts!RetryRecord : sendRetry' = Append(sendRetry, r)
          /\ FailedLoop!LoopStep \/ UNCHANGED <<failedConsumer, failedHandled>>
      BY <1>1, <1>3, RetryIsAside
    <2>2. sendRetry' \in Seq(CoreFacts!RetryRecord) /\ CoreFacts!Grows(sendRetry, sendRetry')
      BY <1>1, <2>1 DEF CoreFacts!Grows
    <2>3. CoreFacts!TypeInv' /\ CoreFacts!OwnInv' /\ CoreFacts!OwedInv'
      BY <1>1, <2>1, <2>2, Assumptions, CoreFacts!AsideKeeps DEF PipeInv, coreVars
    <2>4. UNCHANGED <<replyCommands, apiConsumer, apiHandled>>
      BY <2>1 DEF apiVars
    <2>5. ApiLoop!LoopInv'
      BY <1>1, <2>4, Assumptions, ApiLoop!LoopStepKeeps DEF Loops
    <2>6. FailedLoop!LoopInv'
      BY <1>1, <2>1, Assumptions, FailedLoop!LoopStepKeeps DEF Loops
    <2>. QED  BY <2>3, <2>5, <2>6 DEF PipeInv, Loops
  <1>. QED  BY <1>2, <1>3

(* Nothing changes what it speaks of when nothing changes. *)
LEMMA StutterKeepsPipe ==
    ASSUME PipeInv, UNCHANGED vars
    PROVE  PipeInv'
  <1>1. /\ UNCHANGED <<docs, logs, reviews, calls, rawEvents, stage, attempt, rawConsumer,
                       rawHandled, retryConsumer, retryHandled, manual>>
        /\ UNCHANGED <<replyCommands, sendFailed, sendRetry, faults>>
        /\ UNCHANGED <<apiConsumer, apiHandled>> /\ UNCHANGED <<failedConsumer, failedHandled>>
    BY DEF vars, coreVars, apiVars, retryVars
  <1>2. /\ sendFailed' \in Seq(CoreFacts!FailureReport)
        /\ sendRetry' \in Seq(CoreFacts!RetryRecord)
        /\ CoreFacts!Grows(sendRetry, sendRetry') /\ faults' \in Nat
    BY <1>1 DEF PipeInv, CoreFacts!TypeInv, CoreFacts!ServiceTypes, CoreFacts!RetryLoopInv,
       CoreFacts!Grows
  <1>3. CoreFacts!TypeInv' /\ CoreFacts!OwnInv' /\ CoreFacts!OwedInv'
    BY <1>1, <1>2, Assumptions, CoreFacts!AsideKeeps DEF PipeInv
  <1>4. Loops'
    BY <1>1, Assumptions, ApiLoop!LoopStepKeeps, FailedLoop!LoopStepKeeps DEF PipeInv, Loops
  <1>. QED  BY <1>3, <1>4 DEF PipeInv

(* Whoever owes an event its status is busy with it. *)
LEMMA UnderWayIsBusy ==
    ASSUME PipeInv, NEW e \in Events, ~Core!Settled(e)
    PROVE  Busy(e)
  <1>1. PICK a \in Callers : CoreFacts!Owes(a, e)
    <2>1. docs[e].status \in CoreFacts!Statuses \cup {"absent"}
      BY DEF PipeInv, CoreFacts!TypeInv, CoreFacts!CollectionTypes, CoreFacts!DocType
    <2>2. docs[e].status \in CoreFacts!UnderWay
      BY <2>1 DEF Core!Settled, CoreFacts!UnderWay, CoreFacts!Statuses,
         Core!TERMINAL_STATUSES, CoreFacts!TERMINAL_STATUSES, CoreFacts!RETRYABLE_STATUSES
    <2>. QED  BY <2>2 DEF PipeInv, CoreFacts!OwedInv
  <1>2. \/ /\ CoreFacts!RawEvents!HasRecord
           /\ rawConsumer.next + 1 \in DOMAIN rawEvents
           /\ rawEvents[rawConsumer.next + 1] = e
        \/ /\ CoreFacts!SendRetries!HasRecord
           /\ retryConsumer.next + 1 \in CoreFacts!About(sendRetry, e)
        \/ ~CoreFacts!At(CoreFacts!web, "idle") /\ calls[CoreFacts!web].event = e
    BY <1>1, Assumptions, CoreFacts!WhoOwesIsBusy DEF PipeInv
  <1>3. /\ rawEvents \in Seq(Events) /\ rawConsumer.next \in Nat
        /\ sendRetry \in Seq(CoreFacts!RetryRecord) /\ retryConsumer.next \in Nat
    BY DEF PipeInv, CoreFacts!TypeInv, CoreFacts!RawLoopInv, CoreFacts!RetryLoopInv,
       CoreFacts!RawEvents!ConsumerType, CoreFacts!SendRetries!ConsumerType
  <1>4. CASE /\ CoreFacts!RawEvents!HasRecord
             /\ rawConsumer.next + 1 \in DOMAIN rawEvents
             /\ rawEvents[rawConsumer.next + 1] = e
    <2>1. rawConsumer.next + 1 \in Unread(rawConsumer, rawEvents)
      BY <1>3, <1>4 DEF Unread, CoreFacts!RawEvents!HasRecord
    <2>. QED  BY <1>4, <2>1 DEF Busy
  <1>5. CASE /\ CoreFacts!SendRetries!HasRecord
             /\ retryConsumer.next + 1 \in CoreFacts!About(sendRetry, e)
    <2>1. retryConsumer.next + 1 \in Core!About(sendRetry, e)
      BY <1>5 DEF Core!About, CoreFacts!About, Core!EventOf, CoreFacts!EventOf
    <2>2. retryConsumer.next + 1 \in DOMAIN sendRetry
      BY <2>1 DEF Core!About
    <2>3. retryConsumer.next + 1 \in Unread(retryConsumer, sendRetry)
      BY <1>3, <1>5, <2>2 DEF Unread, CoreFacts!SendRetries!HasRecord
    <2>. QED  BY <2>1, <2>3 DEF Busy
  <1>6. CASE ~CoreFacts!At(CoreFacts!web, "idle") /\ calls[CoreFacts!web].event = e
    BY <1>6 DEF Busy, Core!At, CoreFacts!At, Core!web, CoreFacts!web
  <1>. QED  BY <1>2, <1>4, <1>5, <1>6

(* No event rests in a status that says it is under way, whatever the decisions,
   the answers of Facebook, the retries, and the faults of the pipeline. *)
THEOREM NoEventRestsUnderWay == Spec => []RestsSettled
  <1>1. Init => PipeInv
    BY InitPipe
  <1>2. PipeInv /\ [Next]_vars => PipeInv'
    <2>1. [Next]_vars => CoreSteps \/ ApiSteps \/ RetrySteps \/ UNCHANGED vars
      BY DEF Next, Services, CoreSteps, ApiSteps, RetrySteps
    <2>. QED  BY <2>1, CoreKeepsPipe, AsideKeepsPipe, StutterKeepsPipe
  <1>3. PipeInv => RestsSettled
    BY UnderWayIsBusy DEF RestsSettled
  <1>. QED  BY <1>1, <1>2, <1>3, PTL DEF Spec

-----------------------------------------------------------------------------
(* No event is retried beyond its budget *)

(* What is exchanged for something else keeps its price; what comes for nothing
   costs one. *)
LEMMA Exchanged ==
    ASSUME NEW S, IsFiniteSet(S), NEW N \in Nat, Cardinality(S) <= N,
           NEW T, NEW M \in Nat, N <= M,
           \/ T \subseteq S
           \/ \E c \in S : \E x : T \subseteq (S \ {c}) \cup {x}
           \/ N + 1 <= M /\ \E x : T \subseteq S \cup {x}
    PROVE  IsFiniteSet(T) /\ Cardinality(T) <= M
  <1>1. Cardinality(S) \in Nat
    BY FS_CardinalityType
  <1>2. ASSUME NEW R, IsFiniteSet(R), Cardinality(R) <= M, T \subseteq R
        PROVE  IsFiniteSet(T) /\ Cardinality(T) <= M
    <2>1. IsFiniteSet(T) /\ Cardinality(T) <= Cardinality(R)
      BY <1>2, FS_Subset
    <2>2. Cardinality(T) \in Nat /\ Cardinality(R) \in Nat
      BY <1>2, <2>1, FS_CardinalityType
    <2>. QED  BY <1>2, <2>1, <2>2
  <1>3. CASE T \subseteq S
    BY <1>1, <1>2, <1>3
  <1>4. CASE \E c \in S : \E x : T \subseteq (S \ {c}) \cup {x}
    <2>. PICK c \in S : \E y : T \subseteq (S \ {c}) \cup {y}
      BY <1>4
    <2>1. PICK x : T \subseteq (S \ {c}) \cup {x}
      OBVIOUS
    <2>2. IsFiniteSet(S \ {c}) /\ Cardinality(S \ {c}) = Cardinality(S) - 1
      BY FS_RemoveElement
    <2>3. /\ IsFiniteSet((S \ {c}) \cup {x})
          /\ Cardinality((S \ {c}) \cup {x}) \in {Cardinality(S) - 1, Cardinality(S)}
      <3>1. Cardinality((S \ {c}) \cup {x}) =
                IF x \in S \ {c} THEN Cardinality(S \ {c}) ELSE Cardinality(S \ {c}) + 1
        BY <2>2, FS_AddElement
      <3>. QED  BY <1>1, <2>2, <3>1, FS_AddElement
    <2>. QED  BY <1>1, <1>2, <2>1, <2>3
  <1>5. CASE N + 1 <= M /\ \E x : T \subseteq S \cup {x}
    <2>1. PICK x : T \subseteq S \cup {x}
      BY <1>5
    <2>2. /\ IsFiniteSet(S \cup {x})
          /\ Cardinality(S \cup {x}) \in {Cardinality(S), Cardinality(S) + 1}
      BY FS_AddElement
    <2>. QED  BY <1>1, <1>2, <1>5, <2>1, <2>2
  <1>. QED  BY <1>3, <1>4, <1>5

(* Sets of at most B members on each of N levels have N * B members. *)
LEMMA LevelsAddUp ==
    ASSUME NEW S, NEW N \in Nat, NEW B \in Nat, NEW level \in [S -> 1..N],
           \A m \in 1..N : /\ IsFiniteSet({s \in S : level[s] = m})
                           /\ Cardinality({s \in S : level[s] = m}) <= B
    PROVE  Cardinality(S) <= N * B
  <1>. DEFINE On(m) == {s \in S : level[s] = m}
              Count(m) == CHOOSE f : f \in Bijection(1..Cardinality(On(m)), On(m))
              Place(s) == CHOOSE i \in 1..B : Count(level[s])[i] = s
              h == [s \in S |-> <<level[s], Place(s)>>]
  <1>1. ASSUME NEW s \in S
        PROVE  /\ level[s] \in 1..N
               /\ Place(s) \in 1..B /\ Count(level[s])[Place(s)] = s
    <2>1. level[s] \in 1..N
      OBVIOUS
    <2>. DEFINE m == level[s]
    <2>2. IsFiniteSet(On(m)) /\ Cardinality(On(m)) <= B /\ s \in On(m)
      BY <2>1
    <2>3. Cardinality(On(m)) \in Nat /\ Count(m) \in Bijection(1..Cardinality(On(m)), On(m))
      BY <2>2, FS_CardinalityType DEF ExistsBijection
    <2>4. PICK i \in 1..Cardinality(On(m)) : Count(m)[i] = s
      BY <2>2, <2>3 DEF Bijection, Surjection
    <2>5. i \in 1..B
      BY <2>2, <2>3, <2>4
    <2>. QED  BY <2>1, <2>4, <2>5
  <1>. HIDE DEF Place, Count
  <1>2. h \in Injection(S, (1..N) \X (1..B))
    <2>1. h \in [S -> (1..N) \X (1..B)]
      BY <1>1
    <2>2. ASSUME NEW s \in S, NEW t \in S, h[s] = h[t] PROVE s = t
      <3>1. level[s] = level[t] /\ Place(s) = Place(t)
        BY <2>2
      <3>. QED  BY <1>1, <3>1
    <2>. QED  BY <2>1, <2>2 DEF Injection, IsInjective
  <1>3. /\ IsFiniteSet((1..N) \X (1..B))
        /\ Cardinality((1..N) \X (1..B)) = N * B
    <2>1. /\ IsFiniteSet(1..N) /\ Cardinality(1..N) = N
          /\ IsFiniteSet(1..B) /\ Cardinality(1..B) = B
      <3>1. ASSUME NEW n \in Nat PROVE IsFiniteSet(1..n) /\ Cardinality(1..n) = n
        BY FS_Interval
      <3>. QED  BY <3>1
    <2>2. /\ IsFiniteSet((1..N) \X (1..B))
          /\ Cardinality((1..N) \X (1..B)) = Cardinality(1..N) * Cardinality(1..B)
      BY <2>1, FS_Product
    <2>. QED  BY <2>1, <2>2, Zenon
  <1>. HIDE DEF h
  <1>. QED  BY <1>2, <1>3, FS_Injection

\* The command and the count of the failure that retry-worker is at.
Said == <<Retry!message.command, Retry!message.retry_count>>

\* The retry that follows on a count of a command is out.
Answered(k) ==
    \/ k[2] + 1 \in ledger[k[1]].scheduled_retry_counts
    \/ retryStep = "mark_scheduled" /\ k = Said

\* What was said of e with a count below m, and may still be retried.
Open(e, m) == {k \in CoreFacts!Told(e, m) : ~Answered(k)}

Retried(e, m) == {i \in CoreFacts!About(sendRetry, e) : sendRetry[i].retry_count = m}

\* The retries of e with the count m, and what may still come to one.
Account(e, m) ==
    CoreFacts!Chances(e, m)
    \cup {<<"open", k>> : k \in Open(e, m)} \cup {<<"retried", i>> : i \in Retried(e, m)}

\* retry-worker decides on a failure that it is at.
AtFailure ==
    /\ ledger \in [CoreFacts!CommandIds -> Retry!Attempt]
    /\ retryStep # "idle" => FailedLoop!HasRecord
    /\ retryStep = "publish_retry" =>
          ~Retry!DuplicateRetry(Retry!message) /\ ~Retry!Exhausted(Retry!message)

CountsInBudget == \A i \in DOMAIN sendRetry : sendRetry[i].retry_count \in 1..MaxRetries

\* Each retry with the count m was paid for.
Paid ==
    \A e \in Events : \A m \in 1..MaxRetries :
        /\ IsFiniteSet(Account(e, m))
        /\ Cardinality(Account(e, m)) <= 1 + (manual + faults)

BudgetInv == PipeInv /\ CoreFacts!CarriesCount /\ AtFailure /\ CountsInBudget /\ Paid

(* The failure at hand stays where it is when its topic grows. *)
LEMMA SaidStays ==
    ASSUME PipeInv, AtFailure, retryStep # "idle", UNCHANGED failedConsumer,
           FailedLoop!Grows(sendFailed, sendFailed')
    PROVE  Retry!message' = Retry!message
  <1>1. failedConsumer.next + 1 \in 1..Len(sendFailed)
    BY DEF PipeInv, Loops, AtFailure, FailedLoop!LoopInv, FailedLoop!ConsumerType,
       FailedLoop!OffsetOrder, FailedLoop!HasRecord
  <1>. QED  BY <1>1 DEF FailedLoop!Grows, Retry!message, Retry!Kafka!Current

(* The accounts keep when every step exchanges. *)
LEMMA AccountsKeep ==
    ASSUME Paid, manual + faults \in Nat, manual' + faults' \in Nat,
           manual + faults <= manual' + faults',
           \A e \in Events : \A m \in 1..MaxRetries :
              \/ Account(e, m)' \subseteq Account(e, m)
              \/ \E c \in Account(e, m) : \E x :
                    Account(e, m)' \subseteq (Account(e, m) \ {c}) \cup {x}
              \/ /\ manual + faults + 1 <= manual' + faults'
                 /\ \E x : Account(e, m)' \subseteq Account(e, m) \cup {x}
    PROVE  Paid'
  <1>. SUFFICES ASSUME NEW e \in Events, NEW m \in 1..MaxRetries
                PROVE  /\ IsFiniteSet(Account(e, m)')
                       /\ Cardinality(Account(e, m)') <= 1 + (manual' + faults')
    BY DEF Paid
  <1>. PICK N \in Nat : N = manual + faults
    OBVIOUS
  <1>. PICK M \in Nat : M = manual' + faults'
    OBVIOUS
  <1>1. IsFiniteSet(Account(e, m)) /\ Cardinality(Account(e, m)) <= 1 + N
    BY DEF Paid
  <1>. DEFINE S == Account(e, m)
              T == Account(e, m)'
  <1>2. \/ T \subseteq S
        \/ \E c \in S : \E x : T \subseteq (S \ {c}) \cup {x}
        \/ (1 + N) + 1 <= 1 + M /\ \E x : T \subseteq S \cup {x}
    OBVIOUS
  <1>3. 1 + N \in Nat /\ 1 + M \in Nat /\ 1 + N <= 1 + M
    OBVIOUS
  <1>. HIDE DEF S, T
  <1>4. IsFiniteSet(S) /\ Cardinality(S) <= 1 + N
    BY <1>1 DEF S
  <1>5. IsFiniteSet(T) /\ Cardinality(T) <= 1 + M
    BY <1>2, <1>3, <1>4, Exchanged
  <1>. QED  BY <1>5 DEF T

(* While retry-worker waits, what it decided still holds, and nothing is answered. *)
LEMMA RetrierWaits ==
    ASSUME PipeInv, AtFailure, CountsInBudget,
           sendFailed \in Seq(CoreFacts!FailureReport),
           sendFailed' \in Seq(CoreFacts!FailureReport),
           FailedLoop!Grows(sendFailed, sendFailed'),
           UNCHANGED <<sendRetry, ledger, retryStep, failedConsumer>>
    PROVE  /\ AtFailure' /\ CountsInBudget'
           /\ \A k : Answered(k)' = Answered(k)
           /\ \A e, m : Retried(e, m)' = Retried(e, m)
  <1>1. retryStep # "idle" => Retry!message' = Retry!message
    BY SaidStays
  <1>2. AtFailure'
    <2>1. retryStep # "idle" => FailedLoop!HasRecord'
      BY DEF AtFailure, FailedLoop!HasRecord
    <2>2. retryStep = "publish_retry" =>
              (~Retry!DuplicateRetry(Retry!message) /\ ~Retry!Exhausted(Retry!message))'
      BY <1>1 DEF AtFailure, Retry!DuplicateRetry, Retry!Exhausted
    <2>. QED  BY <2>1, <2>2 DEF AtFailure
  <1>3. CountsInBudget'
    BY DEF CountsInBudget
  <1>4. \A k : Answered(k)' = Answered(k)
    BY <1>1 DEF Answered, Said
  <1>5. \A e, m : Retried(e, m)' = Retried(e, m)
    BY DEF Retried, CoreFacts!About
  <1>. QED  BY <1>2, <1>3, <1>4, <1>5

(* core-service tells of an event what it gives a chance for, or pays. *)
LEMMA CoreKeepsBudget ==
    ASSUME BudgetInv, CoreSteps, PipeInv'
    PROVE  BudgetInv'
  <1>1. CoreFacts!CalmNext /\ UNCHANGED <<apiVars, retryVars>>
    BY CoreIsCore
  <1>2. /\ CoreFacts!TypeInv /\ CoreFacts!OwnInv /\ CoreFacts!OwedInv /\ CoreFacts!CarriesCount
        /\ CoreFacts!TypeInv'
    BY DEF BudgetInv, PipeInv
  <1>3. [CoreFacts!Next]_CoreFacts!vars
    BY <1>1, Assumptions, CoreFacts!CalmIsNext
  <1>4. CoreFacts!CarriesCount'
    BY <1>1, <1>2, Assumptions, CoreFacts!CountCarried
  <1>5. FailedLoop!Grows(sendFailed, sendFailed') /\ UNCHANGED <<sendRetry, ledger, retryStep, failedConsumer>>
    <2>1. FailedLoop!Grows(sendFailed, sendFailed')
      BY <1>2, <1>3, Assumptions, CoreFacts!OutboxesGrow DEF FailedLoop!Grows, CoreFacts!Grows
    <2>2. UNCHANGED sendRetry
      BY <1>1, <1>2, Assumptions, CoreFacts!CalmKeepsRetries
    <2>. QED  BY <1>1, <2>1, <2>2 DEF retryVars
  <1>6. sendFailed \in Seq(CoreFacts!FailureReport) /\ sendFailed' \in Seq(CoreFacts!FailureReport)
    BY <1>2 DEF CoreFacts!TypeInv, CoreFacts!ServiceTypes
  <1>7. /\ AtFailure' /\ CountsInBudget'
        /\ \A k : Answered(k)' = Answered(k)
        /\ \A e, m : Retried(e, m)' = Retried(e, m)
    BY <1>5, <1>6, RetrierWaits DEF BudgetInv
  <1>8. Paid'
    <2>1. \A k : Answered(k)' = Answered(k)
      BY <1>7
    <2>2. \A e, m : Retried(e, m)' = Retried(e, m)
      BY <1>7
    <2>3. /\ manual + faults \in Nat /\ manual' + faults' \in Nat
          /\ manual + faults <= manual' + faults'
      <3>1. manual \in Nat /\ faults \in Nat /\ manual' \in Nat /\ faults' \in Nat
        BY <1>2, Assumptions
        DEF CoreFacts!TypeInv, CoreFacts!ServiceTypes, CoreFacts!CoreAssumption
      <3>2. \E e \in Events : CoreFacts!Exchange(e, 0)
        <4>1. PICK e : e \in Events
          BY PipelineAssumption
        <4>2. 0 \in Nat
          OBVIOUS
        <4>. QED  BY <1>1, <1>2, <4>1, <4>2, Assumptions, CoreFacts!CalmExchanges
      <3>3. \A x, y, z, w \in Nat :
               /\ x + y \in Nat
               /\ x + y + 1 <= z + w => x + y <= z + w
        OBVIOUS
      <3>. QED  BY <3>1, <3>2, <3>3 DEF CoreFacts!Exchange
    <2>4. ASSUME NEW e \in Events, NEW m \in 1..MaxRetries
          PROVE  \/ Account(e, m)' \subseteq Account(e, m)
                 \/ \E c \in Account(e, m) : \E x :
                       Account(e, m)' \subseteq (Account(e, m) \ {c}) \cup {x}
                 \/ /\ manual + faults + 1 <= manual' + faults'
                    /\ \E x : Account(e, m)' \subseteq Account(e, m) \cup {x}
      <3>. DEFINE C == CoreFacts!Chances(e, m)  D == CoreFacts!Chances(e, m)'
                  O == Open(e, m)               P == Open(e, m)'
                  R == Retried(e, m)
      <3>1. CoreFacts!Exchange(e, m)
        <4>1. m \in Nat
          BY PipelineAssumption
        <4>. QED  BY <1>1, <1>2, <4>1, Assumptions, CoreFacts!CalmExchanges
      <3>2. \A c \in C : c[1] # "open" /\ c[1] # "retried"
        BY DEF CoreFacts!Chances
      <3>3. \/ D \subseteq C /\ P \subseteq O
            \/ \E c \in C : \E k : D \subseteq C \ {c} /\ P \subseteq O \cup {k}
            \/ /\ manual + faults + 1 <= manual' + faults'
               /\ \/ D \subseteq C \cup {<<"web", 0>>} /\ P \subseteq O
                  \/ D \subseteq C /\ \E k : P \subseteq O \cup {k}
        <4>1. \A k : P \subseteq O \cup {k} \/ ~(CoreFacts!Told(e, m)' \subseteq CoreFacts!Told(e, m) \cup {k})
          BY <2>1 DEF Open
        <4>2. CoreFacts!Told(e, m)' \subseteq CoreFacts!Told(e, m) => P \subseteq O
          BY <2>1 DEF Open
        <4>. HIDE DEF C, D, O, P
        <4>3. \/ D \subseteq C /\ CoreFacts!Told(e, m)' \subseteq CoreFacts!Told(e, m)
              \/ \E c \in C : \E k : /\ D \subseteq C \ {c}
                                     /\ CoreFacts!Told(e, m)' \subseteq CoreFacts!Told(e, m) \cup {k}
              \/ /\ manual + faults + 1 <= manual' + faults'
                 /\ \/ /\ D \subseteq C \cup {<<"web", 0>>}
                       /\ CoreFacts!Told(e, m)' \subseteq CoreFacts!Told(e, m)
                    \/ /\ D \subseteq C
                       /\ \E k : CoreFacts!Told(e, m)' \subseteq CoreFacts!Told(e, m) \cup {k}
          BY <3>1 DEF CoreFacts!Exchange, C, D
        <4>. QED  BY <4>1, <4>2, <4>3
      <3>4. /\ Account(e, m) = C \cup {<<"open", k>> : k \in O} \cup {<<"retried", i>> : i \in R}
            /\ Account(e, m)' = D \cup {<<"open", k>> : k \in P} \cup {<<"retried", i>> : i \in R}
        BY <2>2 DEF Account
      <3>. HIDE DEF C, D, O, P, R
      <3>5. CASE D \subseteq C /\ P \subseteq O
        BY <3>4, <3>5
      <3>6. ASSUME NEW c \in C, NEW k, D \subseteq C \ {c}, P \subseteq O \cup {k}
            PROVE  \E d \in Account(e, m) : \E x :
                       Account(e, m)' \subseteq (Account(e, m) \ {d}) \cup {x}
        <4>1. c \in Account(e, m)
          BY <3>4
        <4>2. Account(e, m)' \subseteq (Account(e, m) \ {c}) \cup {<<"open", k>>}
          BY <3>2, <3>4, <3>6
        <4>. QED  BY <4>1, <4>2
      <3>7. ASSUME NEW k, D \subseteq C, P \subseteq O \cup {k}
            PROVE  Account(e, m)' \subseteq Account(e, m) \cup {<<"open", k>>}
        BY <3>4, <3>7
      <3>8. ASSUME D \subseteq C \cup {<<"web", 0>>}, P \subseteq O
            PROVE  Account(e, m)' \subseteq Account(e, m) \cup {<<"web", 0>>}
        BY <3>4, <3>8
      <3>. QED  BY <3>3, <3>5, <3>6, <3>7, <3>8
    <2>. QED  BY <2>3, <2>4, AccountsKeep DEF BudgetInv
  <1>. QED  BY <1>4, <1>7, <1>8 DEF BudgetInv

(* Accounts do not grow where nothing is published, and answers are not lost. *)
LEMMA AccountFalls ==
    ASSUME CoreFacts!TypeInv, NEW e, NEW m,
           CoreFacts!Chances(e, m)' \subseteq CoreFacts!Chances(e, m),
           CoreFacts!Told(e, m)' \subseteq CoreFacts!Told(e, m),
           Retried(e, m)' = Retried(e, m),
           \A k \in CoreFacts!CommandIds \X Nat : Answered(k) => Answered(k)'
    PROVE  Account(e, m)' \subseteq Account(e, m)
  <1>1. Open(e, m)' \subseteq Open(e, m)
    <2>1. \A k \in CoreFacts!Told(e, m) : k \in CoreFacts!CommandIds \X Nat
      BY CoreFacts!ToldTyped, Assumptions
    <2>. QED  BY <2>1 DEF Open
  <1>. QED  BY <1>1 DEF Account

(* Faults only come, and so what is paid keeps. *)
LEMMA FaultsPay ==
    ASSUME CoreFacts!TypeInv, UNCHANGED manual, faults' \in Nat, faults <= faults'
    PROVE  /\ manual + faults \in Nat /\ manual' + faults' \in Nat
           /\ manual + faults <= manual' + faults'
           /\ faults' = faults + 1 => manual + faults + 1 <= manual' + faults'
  <1>1. manual \in Nat /\ faults \in Nat
    BY Assumptions DEF CoreFacts!TypeInv, CoreFacts!ServiceTypes, CoreFacts!CoreAssumption
  <1>2. \A x, y, z \in Nat :
           /\ x + y \in Nat /\ (y <= z => x + y <= x + z)
           /\ z = y + 1 => x + y + 1 <= x + z
    OBVIOUS
  <1>3. manual' = manual
    OBVIOUS
  <1>. QED  BY <1>1, <1>2, <1>3

(* api-worker tells of no event what core-service did not. *)
LEMMA ApiKeepsBudget ==
    ASSUME BudgetInv, ApiSteps, PipeInv'
    PROVE  BudgetInv'
  <1>1. /\ CoreFacts!TypeInv /\ CoreFacts!CarriesCount /\ Loops /\ faults \in Nat
        /\ sendFailed \in Seq(CoreFacts!FailureReport) /\ sendFailed' \in Seq(CoreFacts!FailureReport)
    BY DEF BudgetInv, PipeInv, CoreFacts!TypeInv, CoreFacts!ServiceTypes
  <1>2. /\ UNCHANGED <<coreVars, retryVars, sendRetry, replyCommands>>
        /\ faults' \in Nat /\ faults <= faults'
        /\ \/ sendFailed' = sendFailed
           \/ \E f \in CoreFacts!FailureReport :
                 /\ sendFailed' = Append(sendFailed, f)
                 /\ \E i \in DOMAIN replyCommands :
                       /\ f.command = replyCommands[i].command
                       /\ f.retry_count = replyCommands[i].retry_count
    BY <1>1, ApiIsAside
  <1>3. /\ UNCHANGED <<calls, rawEvents, stage, rawConsumer, retryConsumer>>
        /\ UNCHANGED <<sendRetry, ledger, retryStep, failedConsumer>>
        /\ sendRetry' = sendRetry /\ UNCHANGED manual /\ replyCommands' = replyCommands
    BY <1>2 DEF coreVars, retryVars
  <1>4. CoreFacts!CarriesCount' /\ \A e, m : CoreFacts!Chances(e, m)' = CoreFacts!Chances(e, m)
    BY <1>1, <1>3, Assumptions, CoreFacts!AsideBrings
  <1>5. FailedLoop!Grows(sendFailed, sendFailed')
    BY <1>1, <1>2 DEF FailedLoop!Grows
  <1>6. /\ AtFailure' /\ CountsInBudget'
        /\ \A k : Answered(k)' = Answered(k)
        /\ \A e, m : Retried(e, m)' = Retried(e, m)
    BY <1>1, <1>3, <1>5, RetrierWaits DEF BudgetInv
  <1>7. ASSUME NEW e, NEW m
        PROVE  CoreFacts!Told(e, m)' \subseteq CoreFacts!Told(e, m)
    <2>1. CASE sendFailed' = sendFailed
      BY <1>3, <2>1 DEF CoreFacts!Told, CoreFacts!Mentions, CoreFacts!About
    <2>2. ASSUME NEW f \in CoreFacts!FailureReport, NEW i \in DOMAIN replyCommands,
                 sendFailed' = Append(sendFailed, f),
                 f.command = replyCommands[i].command,
                 f.retry_count = replyCommands[i].retry_count
          PROVE  CoreFacts!Told(e, m)' \subseteq CoreFacts!Told(e, m)
      <3>1. CoreFacts!Mentions(replyCommands, e, m)' = CoreFacts!Mentions(replyCommands, e, m)
        BY <1>3 DEF CoreFacts!Mentions, CoreFacts!About
      <3>2. /\ CoreFacts!Mentions(Append(sendFailed, f), e, m) \subseteq
                  CoreFacts!Mentions(sendFailed, e, m) \cup {<<f.command, f.retry_count>>}
            /\ CoreFacts!EventOf(f.command) # e \/ ~(f.retry_count < m) =>
                  CoreFacts!Mentions(Append(sendFailed, f), e, m) \subseteq
                      CoreFacts!Mentions(sendFailed, e, m)
        BY <1>1, <2>2, Assumptions, CoreFacts!MentionAdds
      <3>3. CoreFacts!EventOf(f.command) = e /\ f.retry_count < m =>
                <<f.command, f.retry_count>> \in CoreFacts!Mentions(replyCommands, e, m)
        BY <2>2 DEF CoreFacts!Mentions, CoreFacts!About
      <3>4. CoreFacts!Mentions(sendFailed, e, m)' = CoreFacts!Mentions(Append(sendFailed, f), e, m)
        BY <2>2 DEF CoreFacts!Mentions, CoreFacts!About
      <3>. QED  BY <3>1, <3>2, <3>3, <3>4 DEF CoreFacts!Told
    <2>. QED  BY <1>2, <2>1, <2>2
  <1>8. Paid'
    <2>1. ASSUME NEW e \in Events, NEW m \in 1..MaxRetries
          PROVE  Account(e, m)' \subseteq Account(e, m)
      BY <1>1, <1>4, <1>6, <1>7, AccountFalls
    <2>2. /\ manual + faults \in Nat /\ manual' + faults' \in Nat
          /\ manual + faults <= manual' + faults'
      BY <1>1, <1>2, <1>3, FaultsPay
    <2>. QED  BY <2>1, <2>2, AccountsKeep DEF BudgetInv
  <1>. QED  BY <1>4, <1>6, <1>8 DEF BudgetInv

(* The failure that retry-worker is at is one that was told of. *)
LEMMA SaidIsTold ==
    ASSUME PipeInv, Retry!Kafka!HasRecord, NEW m
    PROVE  /\ Retry!message \in CoreFacts!FailureReport
           /\ Said \in CoreFacts!CommandIds \X Nat
           /\ Retry!message.retry_count < m =>
                 Said \in CoreFacts!Told(CoreFacts!EventOf(Retry!message.command), m)
  <1>1. Retry!message \in CoreFacts!FailureReport
    BY Assumptions, FailedLoop!CurrentIsRecord
    DEF PipeInv, Loops, Retry!message, Retry!Kafka!Current, FailedLoop!Current,
        Retry!Kafka!HasRecord, FailedLoop!HasRecord
  <1>2. failedConsumer.next + 1 \in DOMAIN sendFailed
    BY DEF PipeInv, Loops, FailedLoop!LoopInv, FailedLoop!ConsumerType,
       FailedLoop!OffsetOrder, Retry!Kafka!HasRecord
  <1>3. sendFailed[failedConsumer.next + 1] = Retry!message
    BY DEF Retry!message, Retry!Kafka!Current
  <1>4. Said \in CoreFacts!CommandIds \X Nat
    BY <1>1 DEF Said, CoreFacts!FailureReport
  <1>. QED
    BY <1>1, <1>2, <1>3, <1>4 DEF Said, CoreFacts!Told, CoreFacts!Mentions, CoreFacts!About

(* When retry-worker publishes nothing and forgets no answer, no account grows. *)
LEMMA NothingRetried ==
    ASSUME BudgetInv, RetrySteps, sendRetry' = sendRetry,
           \A k \in CoreFacts!CommandIds \X Nat : Answered(k) => Answered(k)'
    PROVE  CoreFacts!CarriesCount' /\ CountsInBudget' /\ Paid'
  <1>1. CoreFacts!TypeInv /\ CoreFacts!CarriesCount /\ Loops /\ faults \in Nat
    BY DEF BudgetInv, PipeInv, CoreFacts!TypeInv, CoreFacts!ServiceTypes
  <1>2. /\ UNCHANGED <<coreVars, apiVars, replyCommands, sendFailed>>
        /\ faults' \in Nat /\ faults <= faults'
    BY <1>1, RetryIsAside
  <1>3. /\ UNCHANGED <<calls, rawEvents, stage, rawConsumer, retryConsumer>>
        /\ UNCHANGED manual
    BY <1>2 DEF coreVars
  <1>4. CoreFacts!CarriesCount' /\ \A e, m : CoreFacts!Chances(e, m)' = CoreFacts!Chances(e, m)
    BY <1>1, <1>3, Assumptions, CoreFacts!AsideBrings
  <1>5. CountsInBudget' /\ \A e, m : Retried(e, m)' = Retried(e, m)
    BY DEF BudgetInv, CountsInBudget, Retried, CoreFacts!About
  <1>6. \A e, m : CoreFacts!Told(e, m)' = CoreFacts!Told(e, m)
    BY <1>2 DEF CoreFacts!Told, CoreFacts!Mentions, CoreFacts!About
  <1>7. \A e \in Events : \A m \in 1..MaxRetries : Account(e, m)' \subseteq Account(e, m)
    BY <1>1, <1>4, <1>5, <1>6, AccountFalls
  <1>8. /\ manual + faults \in Nat /\ manual' + faults' \in Nat
        /\ manual + faults <= manual' + faults'
    BY <1>1, <1>2, <1>3, FaultsPay
  <1>. QED  BY <1>4, <1>5, <1>7, <1>8, AccountsKeep DEF BudgetInv

(* A retry takes the place of the failure that it answers, or of nothing that
   counts for its level. *)
LEMMA RetryIsPaid ==
    ASSUME BudgetInv, RetryStep(Retry!PublishRetry)
    PROVE  CoreFacts!CarriesCount' /\ AtFailure' /\ CountsInBudget' /\ Paid'
  <1>. DEFINE r == Retry!SendRetryOf(Retry!message)
              n == Retry!message.retry_count
              new == Len(sendRetry) + 1
  <1>1. /\ CoreFacts!TypeInv /\ CoreFacts!CarriesCount /\ PipeInv /\ AtFailure
        /\ faults \in Nat /\ sendRetry \in Seq(CoreFacts!RetryRecord)
    BY DEF BudgetInv, PipeInv, CoreFacts!TypeInv, CoreFacts!ServiceTypes, CoreFacts!RetryLoopInv
  <1>2. /\ UNCHANGED <<coreVars, replyCommands>>
        /\ UNCHANGED <<sendFailed, ledger, failedConsumer>> /\ faults' = faults
        /\ retryStep = "publish_retry" /\ retryStep' = "mark_scheduled"
        /\ sendRetry' = Append(sendRetry, r) /\ Retry!Kafka!HasRecord
    BY DEF RetryStep, Retry!PublishRetry, Retry!ReadyFor
  <1>3. /\ UNCHANGED <<calls, rawEvents, stage, rawConsumer, retryConsumer>>
        /\ UNCHANGED manual
    BY <1>2 DEF coreVars
  <1>4. /\ Retry!message \in CoreFacts!FailureReport
        /\ Said \in CoreFacts!CommandIds \X Nat
        /\ \A m : n < m =>
              Said \in CoreFacts!Told(CoreFacts!EventOf(Retry!message.command), m)
    BY <1>1, <1>2, SaidIsTold
  <1>5. /\ r \in CoreFacts!RetryRecord /\ r.retry_count = n + 1
        /\ CoreFacts!EventOf(r.command) = CoreFacts!EventOf(Retry!message.command)
    BY <1>4, RetriesTyped DEF Retry!SendRetryOf
  <1>6. /\ Retry!message' = Retry!message /\ Said' = Said
    BY <1>2 DEF Retry!message, Retry!Kafka!Current, Said
  <1>7. n \in Nat /\ n + 1 \in 1..MaxRetries
    <2>1. n \in Nat /\ Retry!message.max_retries = MaxRetries
      BY <1>4 DEF CoreFacts!FailureReport
    <2>2. ~(n >= MaxRetries)
      BY <1>2, <2>1 DEF BudgetInv, AtFailure, Retry!Exhausted
    <2>. QED  BY <2>1, <2>2, PipelineAssumption
  <1>8. ~Answered(Said) /\ \A k : Answered(k) \/ k = Said => Answered(k)'
    <2>1. Said[1] = Retry!message.command /\ Said[2] = n
      BY DEF Said
    <2>2. ~Retry!DuplicateRetry(Retry!message)
      BY <1>2 DEF BudgetInv, AtFailure
    <2>3. ~Answered(Said)
      BY <1>2, <2>1, <2>2 DEF Answered, Retry!DuplicateRetry
    <2>4. \A k : k = Said => Answered(k)'
      BY <1>2, <1>6 DEF Answered
    <2>5. \A k : Answered(k) => Answered(k)'
      BY <1>2 DEF Answered
    <2>. QED  BY <2>3, <2>4, <2>5
  <1>9. AtFailure'
    BY <1>2 DEF BudgetInv, AtFailure, FailedLoop!HasRecord, Retry!Kafka!HasRecord
  <1>10. /\ Len(sendRetry) \in Nat /\ DOMAIN sendRetry = 1..Len(sendRetry)
         /\ DOMAIN sendRetry' = 1..new
         /\ \A i \in 1..Len(sendRetry) : sendRetry'[i] = sendRetry[i]
         /\ sendRetry'[new] = r
    <2>. HIDE DEF r
    <2>. QED  BY <1>1, <1>2, <1>5
  <1>. HIDE DEF r, n, new
  <1>11. CountsInBudget'
    <2>1. new \in Nat /\ \A i \in 1..new : i \in 1..Len(sendRetry) \/ i = new
      BY <1>10 DEF new
    <2>. QED  BY <1>5, <1>7, <1>10, <2>1 DEF BudgetInv, CountsInBudget
  <1>12. /\ CoreFacts!CarriesCount'
         /\ \A e, m :
               /\ CoreFacts!Chances(e, m)' \subseteq
                     CoreFacts!Chances(e, m) \cup {<<"retry", new>>}
               /\ CoreFacts!EventOf(r.command) # e \/ ~(r.retry_count < m) =>
                     CoreFacts!Chances(e, m)' \subseteq CoreFacts!Chances(e, m)
    BY <1>1, <1>2, <1>3, <1>5, Assumptions, CoreFacts!AsideBrings DEF new
  <1>13. ASSUME NEW e \in Events, NEW m \in 1..MaxRetries
         PROVE  \/ Account(e, m)' \subseteq Account(e, m)
                \/ \E c \in Account(e, m) : \E x :
                      Account(e, m)' \subseteq (Account(e, m) \ {c}) \cup {x}
    <2>. DEFINE C == CoreFacts!Chances(e, m)  D == CoreFacts!Chances(e, m)'
                O == Open(e, m)               P == Open(e, m)'
                R == Retried(e, m)            Q == Retried(e, m)'
    <2>1. CoreFacts!Told(e, m)' = CoreFacts!Told(e, m)
      BY <1>2 DEF CoreFacts!Told, CoreFacts!Mentions, CoreFacts!About
    <2>2. P \subseteq O \ {Said}
      BY <1>8, <2>1 DEF Open
    <2>3. /\ Q \subseteq R \cup {new}
          /\ CoreFacts!EventOf(r.command) # e \/ r.retry_count # m => Q \subseteq R
      <3>1. new \in Nat /\ \A i \in 1..new : i \in 1..Len(sendRetry) \/ i = new
        BY <1>10 DEF new
      <3>2. ASSUME NEW i \in Q
            PROVE  i \in R \/ (i = new /\ CoreFacts!EventOf(r.command) = e /\ r.retry_count = m)
        BY <1>10, <3>1, <3>2 DEF Retried, CoreFacts!About
      <3>. QED  BY <3>2
    <2>4. /\ Account(e, m) = C \cup {<<"open", k>> : k \in O} \cup {<<"retried", i>> : i \in R}
          /\ Account(e, m)' = D \cup {<<"open", k>> : k \in P} \cup {<<"retried", i>> : i \in Q}
      BY DEF Account
    <2>5. \A c \in C : c[1] # "open" /\ c[1] # "retried"
      BY DEF CoreFacts!Chances
    <2>6. D \subseteq C \cup {<<"retry", new>>}
      BY <1>12
    <2>7. CoreFacts!EventOf(r.command) # e \/ ~(r.retry_count < m) => D \subseteq C
      BY <1>12
    <2>8. m \in Nat
      BY PipelineAssumption
    <2>9. CASE CoreFacts!EventOf(r.command) # e \/ n + 1 > m
      <3>1. (~(n + 1 < m) /\ n + 1 # m) \/ CoreFacts!EventOf(r.command) # e
        BY <1>7, <2>8, <2>9
      <3>2. D \subseteq C /\ Q \subseteq R
        BY <1>5, <2>3, <2>7, <3>1
      <3>. HIDE DEF C, D, O, P, R, Q
      <3>. QED  BY <2>2, <2>4, <3>2
    <2>10. CASE CoreFacts!EventOf(r.command) = e /\ n + 1 <= m
      <3>1. n < m
        BY <1>7, <2>8, <2>10
      <3>2. Said \in O
        BY <1>4, <1>5, <1>8, <2>10, <3>1 DEF Open, n
      <3>3. <<"open", Said>> \in Account(e, m)
        BY <2>4, <3>2
      <3>4. \A k : k \in P => <<"open", k>> # <<"open", Said>>
        BY <2>2
      <3>5. CASE n + 1 = m
        <4>1. D \subseteq C
          BY <1>5, <1>7, <2>7, <3>5
        <4>. HIDE DEF C, D, O, P, R, Q
        <4>2. Account(e, m)' \subseteq
                  (Account(e, m) \ {<<"open", Said>>}) \cup {<<"retried", new>>}
          BY <2>2, <2>3, <2>4, <2>5, <3>4, <4>1
        <4>. QED  BY <3>3, <4>2
      <3>6. CASE n + 1 # m
        <4>1. Q \subseteq R
          BY <1>5, <2>3, <3>6
        <4>. HIDE DEF C, D, O, P, R, Q
        <4>2. Account(e, m)' \subseteq
                  (Account(e, m) \ {<<"open", Said>>}) \cup {<<"retry", new>>}
          BY <2>2, <2>4, <2>5, <2>6, <3>4, <4>1
        <4>. QED  BY <3>3, <4>2
      <3>. QED  BY <3>5, <3>6
    <2>11. n + 1 <= m \/ n + 1 > m
      BY <1>7, <2>8
    <2>. QED  BY <2>9, <2>10, <2>11
  <1>14. Paid'
    <2>1. /\ manual + faults \in Nat /\ manual' + faults' \in Nat
          /\ manual + faults <= manual' + faults'
      <3>1. faults' \in Nat /\ faults <= faults'
        BY <1>1, <1>2
      <3>. QED  BY <1>1, <1>3, <3>1, FaultsPay
    <2>. QED  BY <1>13, <2>1, AccountsKeep DEF BudgetInv
  <1>. QED  BY <1>9, <1>11, <1>12, <1>14

(* What retry-worker decides and writes down takes no answer back. *)
LEMMA RetrierWrites ==
    ASSUME BudgetInv, RetrySteps,
           ~RetryStep(Retry!PublishRetry), ~RetryStep(Retry!Crash)
    PROVE  /\ sendRetry' = sendRetry /\ AtFailure'
           /\ \A k \in CoreFacts!CommandIds \X Nat : Answered(k) => Answered(k)'
  <1>1. PipeInv /\ AtFailure
    BY DEF BudgetInv
  <1>2. \/ Retry!SkipInvalid \/ Retry!SkipDeadLettered \/ Retry!SkipDuplicate
        \/ Retry!GiveUp \/ Retry!PublishDeadLetter \/ Retry!MarkDeadLettered
        \/ Retry!Schedule \/ Retry!MarkScheduled \/ Retry!Return \/ Retry!Loop
    BY DEF RetrySteps, RetryWorker, RetryStep, Retry!Worker
  <1>3. sendRetry' = sendRetry /\ sendFailed' = sendFailed
    BY <1>2 DEF Retry!SkipInvalid, Retry!SkipDeadLettered, Retry!SkipDuplicate, Retry!GiveUp,
       Retry!PublishDeadLetter, Retry!MarkDeadLettered, Retry!Schedule, Retry!MarkScheduled,
       Retry!Return, Retry!Loop, Retry!local, Retry!Kafka!Finish, Retry!Kafka!Start,
       Retry!Kafka!Poll, Retry!Kafka!Commit
  <1>4. CASE \/ Retry!SkipInvalid \/ Retry!SkipDeadLettered \/ Retry!SkipDuplicate
             \/ Retry!Return \/ Retry!Loop
    <2>1. ledger' = ledger /\ retryStep' = "idle" /\ retryStep # "mark_scheduled"
      BY <1>4 DEF Retry!SkipInvalid, Retry!SkipDeadLettered, Retry!SkipDuplicate,
         Retry!Return, Retry!Loop, Retry!local, Retry!ReadyFor
    <2>. QED  BY <1>1, <1>3, <2>1 DEF AtFailure, Answered
  <1>5. CASE Retry!GiveUp \/ Retry!PublishDeadLetter \/ Retry!Schedule
    <2>1. /\ UNCHANGED <<ledger, failedConsumer>> /\ Retry!Kafka!HasRecord
          /\ retryStep # "mark_scheduled" /\ retryStep' # "idle"
      BY <1>5 DEF Retry!GiveUp, Retry!PublishDeadLetter, Retry!Schedule, Retry!ReadyFor,
         Retry!local
    <2>2. Retry!message' = Retry!message
      BY <1>3, <2>1 DEF Retry!message, Retry!Kafka!Current
    <2>3. retryStep' = "publish_retry" =>
              ~Retry!DuplicateRetry(Retry!message) /\ ~Retry!Exhausted(Retry!message)
      BY <1>5 DEF Retry!GiveUp, Retry!PublishDeadLetter, Retry!Schedule
    <2>4. AtFailure'
      BY <1>1, <2>1, <2>2, <2>3
      DEF AtFailure, FailedLoop!HasRecord, Retry!Kafka!HasRecord, Retry!DuplicateRetry,
          Retry!Exhausted
    <2>5. \A k : Answered(k) => Answered(k)'
      BY <2>1 DEF Answered
    <2>. QED  BY <1>3, <2>4, <2>5
  <1>6. CASE Retry!MarkDeadLettered \/ Retry!MarkScheduled
    <2>1. /\ UNCHANGED failedConsumer /\ Retry!Kafka!HasRecord /\ retryStep' = "return"
      BY <1>6 DEF Retry!MarkDeadLettered, Retry!MarkScheduled, Retry!ReadyFor
    <2>. DEFINE c == Retry!message.command
                n == Retry!message.retry_count
    <2>2. c \in CoreFacts!CommandIds /\ n \in Nat
      BY <1>1, <2>1, SaidIsTold DEF CoreFacts!FailureReport
    <2>3. ledger \in [CoreFacts!CommandIds -> Retry!Attempt] /\ Said = <<c, n>>
      BY <1>1 DEF AtFailure, Said
    <2>4. /\ ledger' \in [CoreFacts!CommandIds -> Retry!Attempt]
          /\ \A d \in CoreFacts!CommandIds : ledger[d].scheduled_retry_counts
                 \subseteq ledger'[d].scheduled_retry_counts
          /\ Retry!MarkScheduled => n + 1 \in ledger'[c].scheduled_retry_counts
          /\ Retry!MarkDeadLettered => retryStep = "mark_dead_lettered"
      <3>. HIDE DEF c, n
      <3>1. CASE Retry!MarkDeadLettered
        <4>1. /\ ledger' = [ledger EXCEPT ![c].status = "dead_lettered", ![c].retry_count = n]
              /\ retryStep = "mark_dead_lettered"
          BY <3>1 DEF Retry!MarkDeadLettered, Retry!ReadyFor, c, n
        <4>2. ~Retry!MarkScheduled
          BY <4>1 DEF Retry!MarkScheduled, Retry!ReadyFor
        <4>. QED  BY <2>2, <2>3, <4>1, <4>2 DEF Retry!Attempt
      <3>2. CASE Retry!MarkScheduled
        <4>1. /\ ledger' = [ledger EXCEPT ![c] =
                    [status |-> "scheduled", retry_count |-> n + 1,
                     scheduled_retry_counts |-> @.scheduled_retry_counts \cup {n + 1}]]
              /\ retryStep = "mark_scheduled"
          BY <3>2 DEF Retry!MarkScheduled, Retry!ReadyFor, c, n
        <4>2. ~Retry!MarkDeadLettered
          BY <4>1 DEF Retry!MarkDeadLettered, Retry!ReadyFor
        <4>. QED  BY <2>2, <2>3, <4>1, <4>2 DEF Retry!Attempt
      <3>. QED  BY <1>6, <3>1, <3>2
    <2>5. AtFailure'
      BY <1>1, <2>1, <2>4 DEF AtFailure, FailedLoop!HasRecord, Retry!Kafka!HasRecord
    <2>6. ASSUME NEW k \in CoreFacts!CommandIds \X Nat, Answered(k) PROVE Answered(k)'
      <3>1. CASE k[2] + 1 \in ledger[k[1]].scheduled_retry_counts
        BY <2>4, <3>1 DEF Answered
      <3>2. CASE retryStep = "mark_scheduled" /\ k = Said
        BY <1>6, <2>3, <2>4, <3>2 DEF Answered
      <3>. QED  BY <2>6, <3>1, <3>2 DEF Answered
    <2>. QED  BY <1>3, <2>5, <2>6
  <1>. QED  BY <1>2, <1>4, <1>5, <1>6

(* A crash between publishing a retry and writing it down opens the failure again,
   and is a fault. *)
LEMMA CrashIsPaid ==
    ASSUME BudgetInv, RetryStep(Retry!Crash)
    PROVE  CoreFacts!CarriesCount' /\ AtFailure' /\ CountsInBudget' /\ Paid'
  <1>1. /\ CoreFacts!TypeInv /\ CoreFacts!CarriesCount /\ faults \in Nat
    BY DEF BudgetInv, PipeInv, CoreFacts!TypeInv, CoreFacts!ServiceTypes
  <1>2. /\ UNCHANGED <<coreVars, replyCommands, sendFailed>>
        /\ sendRetry' = sendRetry /\ ledger' = ledger /\ retryStep' = "idle"
        /\ faults' = faults + 1
    BY DEF RetryStep, Retry!Crash, Retry!Kafka!Crash, Retry!Kafka!Fault, Retry!local
  <1>3. /\ UNCHANGED <<calls, rawEvents, stage, rawConsumer, retryConsumer>>
        /\ UNCHANGED manual
    BY <1>2 DEF coreVars
  <1>4. CoreFacts!CarriesCount' /\ \A e, m : CoreFacts!Chances(e, m)' = CoreFacts!Chances(e, m)
    BY <1>1, <1>2, <1>3, Assumptions, CoreFacts!AsideBrings
  <1>5. /\ AtFailure' /\ CountsInBudget'
        /\ \A e, m : Retried(e, m)' = Retried(e, m)
    BY <1>2 DEF BudgetInv, AtFailure, CountsInBudget, Retried, CoreFacts!About
  <1>6. \A e, m : CoreFacts!Told(e, m)' = CoreFacts!Told(e, m)
    BY <1>2 DEF CoreFacts!Told, CoreFacts!Mentions, CoreFacts!About
  <1>7. \A k : k # Said => (Answered(k) => Answered(k)')
    BY <1>2 DEF Answered
  <1>8. ASSUME NEW e \in Events, NEW m \in 1..MaxRetries
        PROVE  Account(e, m)' \subseteq Account(e, m) \cup {<<"open", Said>>}
    <2>1. Open(e, m)' \subseteq Open(e, m) \cup {Said}
      BY <1>6, <1>7 DEF Open
    <2>. QED  BY <1>4, <1>5, <2>1 DEF Account
  <1>9. Paid'
    <2>1. faults' \in Nat /\ faults <= faults'
      BY <1>1, <1>2
    <2>2. /\ manual + faults \in Nat /\ manual' + faults' \in Nat
          /\ manual + faults <= manual' + faults'
          /\ manual + faults + 1 <= manual' + faults'
      BY <1>1, <1>2, <1>3, <2>1, FaultsPay
    <2>. QED  BY <1>8, <2>2, AccountsKeep DEF BudgetInv
  <1>. QED  BY <1>4, <1>5, <1>9

(* So retry-worker keeps the accounts. *)
LEMMA RetryKeepsBudget ==
    ASSUME BudgetInv, RetrySteps, PipeInv'
    PROVE  BudgetInv'
  <1>1. CASE RetryStep(Retry!PublishRetry)
    BY <1>1, RetryIsPaid DEF BudgetInv
  <1>2. CASE RetryStep(Retry!Crash)
    BY <1>2, CrashIsPaid DEF BudgetInv
  <1>3. CASE ~RetryStep(Retry!PublishRetry) /\ ~RetryStep(Retry!Crash)
    BY <1>3, RetrierWrites, NothingRetried DEF BudgetInv
  <1>. QED  BY <1>1, <1>2, <1>3

(* And so does whatever changes nothing. *)
LEMMA StutterKeepsBudget ==
    ASSUME BudgetInv, UNCHANGED vars, PipeInv'
    PROVE  BudgetInv'
  <1>1. /\ CoreFacts!TypeInv /\ CoreFacts!CarriesCount /\ PipeInv /\ AtFailure
        /\ faults \in Nat /\ sendFailed \in Seq(CoreFacts!FailureReport)
    BY DEF BudgetInv, PipeInv, CoreFacts!TypeInv, CoreFacts!ServiceTypes
  <1>2. /\ UNCHANGED <<calls, rawEvents, stage, rawConsumer, retryConsumer>>
        /\ UNCHANGED <<sendRetry, ledger, retryStep, failedConsumer>>
        /\ UNCHANGED manual /\ UNCHANGED <<faults, replyCommands, sendFailed>>
    BY DEF vars, coreVars, retryVars
  <1>3. CoreFacts!CarriesCount' /\ \A e, m : CoreFacts!Chances(e, m)' = CoreFacts!Chances(e, m)
    BY <1>1, <1>2, Assumptions, CoreFacts!AsideBrings
  <1>4. FailedLoop!Grows(sendFailed, sendFailed') /\ sendFailed' \in Seq(CoreFacts!FailureReport)
    BY <1>1, <1>2 DEF FailedLoop!Grows
  <1>5. /\ AtFailure' /\ CountsInBudget'
        /\ \A k : Answered(k)' = Answered(k)
        /\ \A e, m : Retried(e, m)' = Retried(e, m)
    BY <1>1, <1>2, <1>4, RetrierWaits DEF BudgetInv
  <1>6. \A e, m : CoreFacts!Told(e, m)' = CoreFacts!Told(e, m)
    BY <1>2 DEF CoreFacts!Told, CoreFacts!Mentions, CoreFacts!About
  <1>7. \A e \in Events : \A m \in 1..MaxRetries : Account(e, m)' \subseteq Account(e, m)
    BY <1>1, <1>3, <1>5, <1>6, AccountFalls
  <1>8. /\ manual + faults \in Nat /\ manual' + faults' \in Nat
        /\ manual + faults <= manual' + faults'
    <2>1. faults' \in Nat /\ faults <= faults'
      BY <1>1, <1>2
    <2>. QED  BY <1>1, <1>2, <2>1, FaultsPay
  <1>9. Paid'
    BY <1>7, <1>8, AccountsKeep DEF BudgetInv
  <1>. QED  BY <1>3, <1>5, <1>9 DEF BudgetInv

(* At first an event has its raw record to come, and that is paid for. *)
LEMMA InitBudget == Init => BudgetInv
  <1>. SUFFICES ASSUME Init PROVE BudgetInv
    OBVIOUS
  <1>1. CoreFacts!Init /\ PipeInv
    BY InitCore, InitPipe
  <1>2. CoreFacts!CarriesCount
    BY <1>1, Assumptions, CoreFacts!CountCarried
  <1>3. AtFailure
    <2>1. Core!CommandIds = CoreFacts!CommandIds
      BY DEF Core!CommandIds, CoreFacts!CommandIds, Core!CommandId, CoreFacts!CommandId,
         Core!Actions, CoreFacts!Actions, Core!FacebookActions, CoreFacts!FacebookActions
    <2>2. ledger = [c \in CoreFacts!CommandIds |-> Retry!NoAttempt] /\ retryStep = "idle"
      BY <2>1 DEF Init, Retry!Init
    <2>3. Retry!NoAttempt \in Retry!Attempt
      BY DEF Retry!NoAttempt, Retry!Attempt
    <2>. QED  BY <2>2, <2>3 DEF AtFailure
  <1>4. sendRetry = <<>> /\ manual = 0 /\ faults = 0
    BY DEF Init, Core!Init
  <1>5. CountsInBudget
    BY <1>4 DEF CountsInBudget
  <1>6. Paid
    <2>. SUFFICES ASSUME NEW e \in Events, NEW m \in 1..MaxRetries
                  PROVE  /\ IsFiniteSet(Account(e, m))
                         /\ Cardinality(Account(e, m)) <= 1 + (manual + faults)
      BY DEF Paid
    <2>1. Retried(e, m) = {}
      BY <1>4 DEF Retried, CoreFacts!About
    <2>2. Account(e, m) \subseteq {<<"raw", 0>>}
      BY <1>1, <2>1, Assumptions, CoreFacts!ChancesAtFirst DEF Account, Open
    <2>3. IsFiniteSet({<<"raw", 0>>}) /\ Cardinality({<<"raw", 0>>}) = 1
      BY FS_Singleton
    <2>4. IsFiniteSet(Account(e, m)) /\ Cardinality(Account(e, m)) <= 1
      BY <2>2, <2>3, FS_Subset
    <2>. QED  BY <1>4, <2>4
  <1>. QED  BY <1>1, <1>2, <1>3, <1>5, <1>6 DEF BudgetInv

(* Level by level, the accounts bound the retries. *)
LEMMA PaidIsBounded ==
    ASSUME BudgetInv, NEW e \in Events
    PROVE  Cardinality(Core!About(sendRetry, e)) <= MaxRetries * (1 + manual + faults)
  <1>. DEFINE S == CoreFacts!About(sendRetry, e)
              level == [i \in S |-> sendRetry[i].retry_count]
              On(m) == {i \in S : level[i] = m}
  <1>1. manual \in Nat /\ faults \in Nat
    BY Assumptions DEF BudgetInv, PipeInv, CoreFacts!TypeInv, CoreFacts!ServiceTypes,
       CoreFacts!CoreAssumption
  <1>2. PICK B \in Nat : B = 1 + (manual + faults) /\ B = 1 + manual + faults
    <2>1. \A x, y \in Nat : 1 + (x + y) \in Nat /\ 1 + (x + y) = 1 + x + y
      OBVIOUS
    <2>2. /\ 1 + (manual + faults) \in Nat
          /\ 1 + (manual + faults) = 1 + manual + faults
      BY <1>1, <2>1
    <2>. QED  BY <2>2
  <1>3. level \in [S -> 1..MaxRetries]
    BY DEF BudgetInv, CountsInBudget, CoreFacts!About
  <1>4. ASSUME NEW m \in 1..MaxRetries
        PROVE  IsFiniteSet(On(m)) /\ Cardinality(On(m)) <= B
    <2>. DEFINE f == [i \in On(m) |-> <<"retried", i>>]
    <2>1. IsFiniteSet(Account(e, m)) /\ Cardinality(Account(e, m)) <= B
      BY <1>2 DEF BudgetInv, Paid
    <2>2. On(m) = Retried(e, m)
      BY DEF Retried
    <2>3. f \in Injection(On(m), Account(e, m))
      <3>1. \A i \in On(m) : <<"retried", i>> \in Account(e, m)
        BY <2>2 DEF Account
      <3>. QED  BY <3>1 DEF Injection, IsInjective
    <2>4. IsFiniteSet(On(m)) /\ Cardinality(On(m)) <= Cardinality(Account(e, m))
      BY <2>1, <2>3, FS_Injection
    <2>5. Cardinality(On(m)) \in Nat /\ Cardinality(Account(e, m)) \in Nat
      BY <2>1, <2>4, FS_CardinalityType
    <2>. QED  BY <2>1, <2>4, <2>5
  <1>5. MaxRetries \in Nat
    BY PipelineAssumption
  <1>6. Cardinality(S) <= MaxRetries * B
    <2>. HIDE DEF S, level
    <2>. QED  BY <1>3, <1>4, <1>5, LevelsAddUp
  <1>7. Core!About(sendRetry, e) = S
    BY DEF Core!About, CoreFacts!About, Core!EventOf, CoreFacts!EventOf
  <1>. QED  BY <1>2, <1>6, <1>7

(* However decisions change and failures repeat, whatever Facebook answers and
   whichever worker fails, an event is retried no more often than its budget for
   each time it was begun. *)
THEOREM RetriesStayBounded == Spec => []RetriesBounded
  <1>1. Init => BudgetInv
    BY InitBudget
  <1>2. BudgetInv /\ [Next]_vars => BudgetInv'
    <2>. SUFFICES ASSUME BudgetInv, [Next]_vars PROVE BudgetInv'
      OBVIOUS
    <2>1. CoreSteps \/ ApiSteps \/ RetrySteps \/ UNCHANGED vars
      BY DEF Next, Services, CoreSteps, ApiSteps, RetrySteps
    <2>2. PipeInv'
      BY <2>1, CoreKeepsPipe, AsideKeepsPipe, StutterKeepsPipe DEF BudgetInv
    <2>. QED
      BY <2>1, <2>2, CoreKeepsBudget, ApiKeepsBudget, RetryKeepsBudget, StutterKeepsBudget
  <1>3. BudgetInv => RetriesBounded
    BY PaidIsBounded DEF RetriesBounded
  <1>. QED  BY <1>1, <1>2, <1>3, PTL DEF Spec
=============================================================================
