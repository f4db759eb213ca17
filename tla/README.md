# Verification of the Facebook event pipeline

TLA+ models, TLC runs and TLAPS proofs for the moderation and reply pipeline in
this repository: four Django services that take webhook events of Facebook
pages, decide on them, act on the page, and retry what failed.

    Facebook -> webhook-service -> [raw_events] -> core-service -> [reply_commands]
                                                     ^   |                |
                                                     |   v                v
                                           [send_retry] [send_failed] <- api-service -> Facebook
                                                     |   |
                                                     +- retry-service -> [dead_letter]

Brackets are Kafka topics.  core-service and retry-service keep their state in
MongoDB; the workers keep nothing else but the position of their Kafka
consumer.

## Inventory

| Part | State | Operations | Correct when |
|---|---|---|---|
| Worker loops (`consume_events`, `consume_retry_commands`, `consume_failed_messages`, `consume_reply_commands`) | in-memory position, committed offset, current batch | connect, poll, process a record, commit, swallow an exception, shut down | nothing but a bounded number of records is skipped, the loop never gets stuck |
| `EventProcessor` (core-service) | `processed_events`, `action_logs`, `manual_review_queue` | deduplicate, persist, decide, execute, review, save | a status is never ahead of its effect, commands are bounded, each event gets an outcome |
| core-worker | attempt number | fast retries, give-up, publication to `send_failed` | as above, under the interleaving with the next two |
| core-retry-worker | - | forced reprocessing of a `send_retry`, failure publication | same |
| Manual retry (`POST /core/events/{id}/retry`) | - | forced reprocessing | same |
| `DecisionEngine`, `LocalSpamDetector`, blacklist | `user_blacklist`, and what it counts in `processed_events` | rules, AI answer, strikes, rate limit | strikes are counted per offence, not per retry; none is lost |
| Dify client, `CircuitBreaker` (one per client, used by one thread) | state, failure count, time of opening | call, open, half-open, close | open just while the last failures in a row call for it |
| api-worker (`ReplyCommandProcessor`) | none besides its consumer | validate, call Facebook, classify, report to `send_failed` | a handled command took effect or was reported, each is repeated only after a fault |
| retry-worker (`RetryProcessor`) | `retry_attempts` | validate, decide, back off, publish to `send_retry` / `dead_letter`, mark | every failure is answered, budgets are kept, dead letters are final |
| Webhook ingestion | none besides the buffers of its producers | verify signature, normalize, publish each event | a 202 means that every event is published; Facebook's deliveries publish beginnings of a payload, and copies only after faults |
| The pipeline as a whole | the topics | an event's way through the services | no event comes to rest without an outcome |
| REST wrapper, subscription, read-only views, permissions, settings, Docker, nginx, Prometheus | none of their own | pass-through, queries, configuration | - |

How they interact: the services share topics only; core-worker,
core-retry-worker and the web processes of core-service also share the MongoDB
collections, without transactions and without version checks.  A command
carries its event and a `retry_count` through
`reply_commands -> send_failed -> send_retry -> reply_commands`.

What is hard:

* **Interleaving.** Up to three processes run `EventProcessor.process()` for one
  event and write the same documents; every read may be stale when it is used.
* **Crashes.** A process may die between an effect (a publication, a call of
  Facebook, an insert) and the write that records it, and before `commit()`.
  The record is then delivered again.
* **Swallowed exceptions.** The loops catch whatever leaves a batch, log it,
  sleep and poll again.  The position of the consumer is then already behind
  the batch.
* **Unclear outcomes.** A publication that times out may have reached the
  broker; a call of Facebook whose answer is lost may have taken effect.
* **Boundaries.** `retry_count`, `max_retries`, the fast-retry attempts and the
  defaults are counted up in three services.

PROJECT.json lists each of these at its line, as a hazard, with the properties
that watch it.

## Modules

| Module | Models | Built on |
|---|---|---|
| `KafkaConsumer` | the loop all workers share, and the consumer's offsets | - |
| `FailureTypes` | the `failure_type` vocabulary with retry-service's verdicts | - |
| `RetryService` | retry-worker: `RetryProcessor`, the ledger, the loop | instance of `KafkaConsumer`, `FailureTypes` |
| `EventProcessor` | one call of `process()`, one step per database or Kafka operation | `ActionDecision` |
| `ActionDecision` | the decisions of `decide()`, and what `process()` assumes of them | - |
| `CircuitBreaker` | the breaker's operations as functions of its state and the time | - |
| `Moderation` | `decide()` with its database reads, strikes, the AI and its breaker | `ActionDecision`, `CircuitBreaker` |
| `CoreService` | the three callers of `process()` with their loops, fast retries and failures | `EventProcessor`, two instances of `KafkaConsumer` |
| `ApiWorker` | api-worker: `ReplyCommandProcessor`, the service calls, the loop | instance of `KafkaConsumer`, `FailureTypes` |
| `EventLifecycle` | abstract: an event is taken in, concluded, put down, taken up again | - |
| `Pipeline` | core-service, api-worker and retry-worker on shared topics; implements `EventLifecycle` | instances of `CoreService`, `ApiWorker`, `RetryService` |
| `Webhook` | webhook-service between Facebook and `raw_events` | - |
| `KafkaConsumerProofs` | theorems about the loop, and lemmas that hold of each instance | `KafkaConsumer` |
| `RetryServiceProofs` | theorems about `RetryService` | `RetryService` |
| `ApiWorkerProofs` | theorems about `ApiWorker` | `ApiWorker`, instance of `KafkaConsumerProofs` |
| `CoreServiceProofs` | theorems about the states of `CoreService`: types, statuses, logs | `CoreService`, two instances of `KafkaConsumerProofs` |
| `CoreAttemptsProofs` | theorems about what an event gets: commands, reviews, an outcome | `CoreServiceProofs` |
| `ModerationProofs` | theorems about `Moderation` and its breakers | `Moderation` |
| `WebhookProofs` | theorems about `Webhook` | `Webhook` |
| `PipelineProofs` | theorems about `Pipeline` | `Pipeline`, instances of `CoreAttemptsProofs` and, two, of `KafkaConsumerProofs` |
| `MC...` | the values TLC uses for the constants | the module of that name |

### KafkaConsumer

A topic is one partition, `log`.  `consumer` is the loop's state: `mode` (down,
polling, in a batch), the `committed` offset, the in-memory `position`, and
`next`, the record of the batch that comes next.  `poll()` moves `position`
behind the whole batch, which is why `Raise` - the `except Exception` around
it - leaves the rest of the batch behind, until a restart or a rejoin goes back
to `committed`, or a later `commit()` passes over it for good.  `handled` is a
history variable: the offsets whose last delivery was worked off.

The faults are kinds with a common budget: `crash` (the process dies, anywhere),
`raise` (a call of Kafka or MongoDB raises), `rejoin` (the group coordinator
sends the consumer back to `committed`).  Instances add kinds of their own.

### RetryService

`process()` is one step for each outside call: the read of the ledger with the
decision that follows from it (`SkipDeadLettered`, `SkipDuplicate`, `GiveUp`,
`Schedule`), the publication, the write of the ledger, the return to the loop.
Messages are records of the fields the decision looks at.  A record that does
not decode or validate is `NullRecord`.  The backoff is no more than the time
between two steps; its length is left out.

### EventProcessor and CoreService

`calls[a]` is the frame of caller `a`'s call, `pc` its next operation.
`docs`, `logs` and `reviews` are the collections, keyed as their unique indexes
key them, so that the second of two inserts raises (`CreateDuplicateKey`,
`LogDuplicateKey`).  `decide()` may return any member of `Decisions`, or raise:
the rules, the AI and the sender's history make every decision possible, and
another one each time.  Every operation may raise, before or behind its write.
`PublishFails` leaves it open whether the command reached the topic.

`CoreService` adds `_process_with_fast_retry` (`WorkerRetries`,
`WorkerGivesUp`), the loop of the `send_retry` worker, and the manual retry.
On its own, the rest of the pipeline is one action, `PipelineRetries`: any
command or failure may come back as the next attempt.  The webhook publishes
each event once.

A command id is an event, an action and what stands for the target.  The same
action has two: commands carry the id with the "object" that is acted upon (the
idempotency key), failures of core-service the one `build_failure_payload`
puts together from the document, or `process_event` when nothing was decided.
retry-service keeps its ledger by these ids.  `given` is the
`<<_retry_count, _max_retries>>` that core-retry-worker writes into an event and
that every later command of the same call carries on.

### Moderation and CircuitBreaker

`decide()` in full, where `EventProcessor` has a choice.  `DecisionIsAdmissible`
is the joint between the two: it shows of `decide()` what `EventProcessor`
assumes of its `Decisions` (`Admissible`).

An event is a record of what the rules look at; its text is reduced to the
findings the spam detector adds up (`Score`), its hash to a name.  A step is one
read or write: the blacklist, the count of recent events, the request to Dify
and its answer, the count of repeated content with everything that follows from
it, the read and the write of a strike.  Counts whose exceptions the code
catches may fail (`CountRecentFails`, `JudgeOther`).  Of `process()` there is
what `decide()` reads back: when the document is created, when it gets its
`message_hash`, and which events may be decided again (`revisits`): those that
failed since they were last settled, and those with a command on its way.

Time is counted in ticks.  The windows are a few ticks long and a call ends in
the tick after it began, as its timeouts (30 s for Dify) are short against the
windows of a minute and a day.  `strikes`, `collided` and `outages` are history
variables.  A worker keeps its breaker until it dies; a web request makes a new
`EventProcessor`, hence a new breaker.  No breaker has two callers at once, so
the lock in it has nothing to do.

### ApiWorker

A call of Facebook has two sides: whether the action took effect (`executed`, a
history variable no code reads), and what the worker sees: an acknowledgement,
an HTTP error, no connection, or nothing (`silent`: a read timeout, a dropped
connection, a body that is not JSON).  `_request()` catches the middle two
only; what it does not catch leaves `process()` for comment actions
(`SilenceEscapes`) and becomes a 502 for messages (`SilenceReported`).
`FailureType` and `IsRetryable` are `classify_facebook_failure`, with the words
it looks for in the message as a set.  That an error below 500 means that
nothing was done is an assumption about Facebook, as everything marked
"external" in PROJECT.json's map.

### Pipeline and EventLifecycle

`Pipeline` instantiates the three services over the same topic variables; a step
is a step of one service and leaves the others' variables alone.  `concluded` is
a history variable: the events that have, or had, an outcome - an effect on the
page, an entry in the review queue, a status that says there was nothing to do,
a message in `dead_letter`.

The refinement maps `seen` to the events on `raw_events`, and `busy` to those
some service still has a message about (`Unread`), or a manual retry in
progress.  A worker that is down will read again from `committed`, one that
polls goes on at `position`, one in a batch at `next`.  So the message a service
is working on counts until `Finish`, and a message that was passed over does
not.  `EventLifecycle` lets an event be put down (`Rest`) only when it is
concluded: the whole pipeline never drops the last message about an event
without one.

Left out are the faults after which this is false, each shown by a run of its
own: an exception that leaves a batch (`retry_lost`), a crash of core-service
(`core_stranded`), a silent answer to a comment action (`api_timeout`).  Without
exceptions and between crashes `committed` and `position` agree while a worker
polls, so a rejoin changes nothing and is left out as well.  The publications of
`send_retry` and `dead_letter` fail only with an exception.

### Webhook

A request is one delivery of a payload.  It is refused for its signature (401),
or because the normalizer cannot read one of its changes (500), before anything
is published; or its events go out one at a time: `Send` puts one into the
producer's buffer, `Arrive` moves it to the topic, `Confirm` is the return of
`future.get()`.  `TimeOut` gives up waiting and leaves the event where it is,
so that it may `Arrive` after the 503, or be dropped.  Each request makes a
producer, outside the `try` (`ConnectRaises`: 500, not 503).  Event ids are
`<<request, index>>`, as the code takes a fresh uuid for each change of each
delivery.  A signed body that is not JSON is left out: the framework answers it
with 400 when `views.py:57` asks for `request.data`, before anything is
published.

Facebook delivers a payload again when it has heard no 2xx and waits for no
answer (`Deliver`); it may stop waiting while the handler runs on (`HangUp`),
so that deliveries of one payload overlap.  The producer has no retries of its
own (kafka-python-ng's default), so a buffered event arrives at most once.

In every module, an operator with a comment "Mutant of ..." is a wrong variant
of the definition behind it.  No specification uses it; it is put in the
definition's place to see that the property listed with it notices.

## Runs

All runs use TLC; the largest takes about a minute and a half.  `CHECK_DEADLOCK FALSE`
everywhere: with the bounds on records and faults used up, the system is idle,
as it should be.

| Run | Bounds | Shows |
|---|---|---|
| `consumer` | 5 records, batches of 1-2, 3 faults | A fault skips at most one batch (`SkippedBounded`); the loop always gets to the end of the topic (`EventuallyDrained`). |
| `retry` | 2 commands, 6 different failures and invalid records, 3 of them on the topic, 2 faults | The ledger is never ahead of Kafka; a handled failure is answered; retries and dead letters are justified; duplicates are bounded by faults; a dead letter is final. |
| `retry_lost` | 1 exception | **Violated**: a failure is lost. |
| `moderation` | 4 events of one sender and none, 3 calls by a worker and a request, 3 ticks, limits of 2 | What `decide()` returns is what `process()` assumes; nobody is blacklisted without a chain of strikes, each within the window of one before, however calls interleave; strikes that do not collide blacklist for good; the breaker is open just while it should be. |
| `core` | 1 event, 1 fast retry, 1 `send_retry`, 2 faults of any kind, or 1 and a manual retry | A log that says `queued` and a status `action_queued` have their command on the topic, `review_pending` has its review (`StatusIsBacked`; no other status or log is asked about: that of an escalation says `success`, `services.py:203`, before the review is made, `services.py:122`); no command without a log; commands and review entries are bounded by the attempts (one, one per retry asked for, and per fault what it may redeliver: the event, or its retries in the batch); a handled event has an outcome, or was left in `received`. |
| `core_stranded` | 1 crash | **Violated**: an event stays `received` for good. |
| `api` | 2 commands, 2 records, 10 answers, 2 faults of any kind | A handled command took effect or was reported; the verdicts of reports agree with retry-service's table; executions and reports are bounded by faults. |
| `api_duplicate` | 1 crash | **Violated**: a command is executed twice. |
| `api_timeout` | no fault, a silent answer | **Violated**: a command is neither done nor reported. |
| `pipeline` | 1 event, budget of 1 retry, no fast retries, 1 fault (decision, publication, crash of api- or retry-worker), AI that answers "reply" or "hide and review", Facebook that acts, is unreachable or refuses | `ImplementsLifecycle`: no event is dropped, in whichever service; `RestsSettled`: nor does it rest in a status that says it is under way; `RetriesBounded`: retries keep the budget though decisions, and with them command ids, change. |
| `pipeline_live` | as above, 2 of failing decisions and manual retries, AI that answers "reply" or an invalid action, Facebook that refuses | Every event gets an outcome in the end (`EventuallyConcluded`). |
| `webhook` | a payload of 2 events delivered up to 3 times, a malformed one twice, an unsigned one once, 2 faults | A 202 is never ahead of the topic; each delivery publishes a beginning of its payload, in order, however late events arrive; copies are bounded by faults; a good payload gets through. |

Why the bounds suffice:

* The workers are sequential and look at one record at a time.  Two records make
  a batch with a "rest" to lose, three a batch with a predecessor; `MaxPoll` 2
  against 3 or 5 records gives partial, full and repeated batches.
* retry-service tells failures apart by command, count, verdict.  A budget of
  two attempts has a first, a middle and an exhausted one; six failures put
  every branch of the decision behind every other.
* Events do not meet in core-service - documents, logs and reviews are keyed by
  event - except in a batch, which `KafkaConsumer` covers.  One event with its
  three callers has all interleavings.  `Decisions` is split over `core`,
  `pipeline` and `pipeline_live` so that each path through `_execute_action` is
  taken.
* In `pipeline`, a fast retry would only repeat what a `send_retry` does, and
  `core` has it; a budget of one retry has a first and an exhausted attempt, of
  each of the command ids an event may take.
* Payloads meet in nothing but the topic, where their events do not depend on
  each other.  Three deliveries of one give two that fail with an event still in
  a buffer while the third is on its way.
* `decide()` knows events by their sender only.  Two strikes are enough for the
  limit to be met, missed and raced for, with a third call that meets a sender on
  the blacklist (two strikes in a chain are in one window; the theorems have any
  limit); three ticks for a window (two) to pass;
  three calls for two failures that open a circuit and a probe.
* One fault shows what a crash at each point leaves behind; the second one, in
  `retry`, `core`, `api` and `webhook`, hits the recovery from the first.

Fairness.  Each worker is one thread in `while not shutdown`, in a container
with `restart: unless-stopped`: it always takes its next step, hence WF of a
worker's steps, among them `Start` and the next poll.  A web request runs to its
end.  `Pipeline` asks for less: that some service takes a step while one can;
as every behaviour within the bounds is finite, all of them get to their end.
`Webhook` assumes in addition that Facebook delivers again what it has heard no
2xx for, and that a producer's thread sends its buffer; `EventuallyPublished`
rests on there being more deliveries than faults, as a payload that fails each
time is given up by Facebook.  Nothing else is assumed of producers, Facebook,
faults or operators.

### Findings

Each disagreement of the code with `src/docs/tai_lieu.md` is a run that TLC
finds violated; PROJECT.json quotes the lines.

1. *A failed send is not lost* (`retry_lost`).  An exception leaves the batch;
   the `raise` in the loop, meant to keep the batch from being committed, ends
   in the outer `except`, and the next `commit()` commits behind it.
   `SkippedBounded` is what remains true.
2. *No event is left out* (`core_stranded`).  A crash behind
   `ProcessedEvent.create` leaves `received`.  The redelivery is not forced, so
   `process()` takes the event for one in flight.  Manual retry refuses it, too.
3. *Each reply is sent exactly once* (`api_duplicate`).  api-service keeps no
   record of executed commands.  `ExecutionsBounded` is what remains true.
4. *A timeout is published to `send_failed`* (`api_timeout`).  A timeout while
   the answer is read is no `URLError`.  For comment actions it leaves
   `process()`, and the command is passed over.

Three more disagreements are not runs of their own, for the models show them in
passing.  Facebook's redelivery of a payload that was published in part gives
its events new ids, which nothing behind recognises, while tai_lieu.md:178-180
relies on `event_id` to dedup: `CopiesBounded` allows a copy for each fault.
And a strike is recorded each time a spam event is decided, also for a retry,
while tai_lieu.md:294 counts repeated spam: `BlacklistIsEarned` counts strikes,
not events.  Moderation's `revisits` has the behaviour in it.
The same line asks for three strikes in 24 hours, and `decisions.py:275` gives as
the reason of an entry "{n} spam strikes in 24h".  But `_record_spam_strike`
keeps no times of strikes other than the last, and starts its count again only
if that one is older than the window (`decisions.py:269-272`): with the default
limit of 3, strikes at 0, 20 and 40 hours blacklist a sender who never had three
in 24.  So `BlacklistIsEarned` asks for a chain of strikes, each within the
window of one before.  The other direction holds as documented: three strikes in
one window do blacklist (`DueIsBlacklisted`), unless two of them collide.

## Proofs

TLC checks a few events, records and faults; the theorems below hold for any
events, commands, payloads, answers and decisions, any batch size, and any
number of records, retries and faults.

| Module | Theorem | Says |
|---|---|---|
| `KafkaConsumerProofs` | `ConsumerTypeCorrect` | `Spec => []TypeOK` |
| | `OffsetsStayOrdered` | `committed <= next <= position <= Len(log)` |
| | `FaultsCostABatchEach` | `Spec => []SkippedBounded` |
| | `OnlyExceptionsSkip` | without `raise` among the faults, nothing is skipped |
| `RetryServiceProofs` | `RetryTypeCorrect` | `Spec => []TypeOK` |
| | `LedgerNeverAheadOfKafka` | `Spec => []LedgerIsBacked` |
| | `NoHandledFailureIsLost` | `Spec => []HandledIsAnswered` |
| | `RetriesAreJustified` | `Spec => []RetryIsJustified` |
| | `DeadLettersAreJustified` | `Spec => []DeadLetterIsJustified` |
| | `DeadLettersAreFinal` | `Spec => DeadLetterIsFinal` |
| | `CrashesLoseNothing` | without `raise` among the faults, `Spec => []CommittedIsAnswered` |
| | `FaultsCostACopyEach` | `Spec => []DuplicatesBounded` |
| `ApiWorkerProofs` | `ApiTypeCorrect` | `Spec => []TypeOK` |
| | `NoHandledCommandIsLost` | `Spec => []HandledIsSettled` |
| | `TaxonomiesAgree` | `Spec => []TaxonomyAgrees` |
| | `FaultsCostAnExecutionEach` | `Spec => []ExecutionsBounded` |
| | `FaultsCostAReportEach` | `Spec => []ReportsBounded` |
| `CoreServiceProofs` | `CoreTypeCorrect` | `Spec => []TypeOK` |
| | `StatusesAreBacked` | `Spec => []StatusIsBacked` |
| | `CommandsAreLogged` | `Spec => []CommandIsLogged` |
| `CoreAttemptsProofs` | `CommandsStayBounded` | `Spec => []CommandsBounded` |
| | `ReviewsStayBounded` | `Spec => []ReviewsBounded` |
| | `HandledEventsHaveOutcomes` | `Spec => []HandledHasOutcome` |
| `WebhookProofs` | `WebhookTypeCorrect` | `Spec => []TypeOK` |
| | `DeliveriesStayInOrder` | `Spec => []PublishedInOrder` |
| | `AcceptedPayloadsAreOut` | `Spec => []AcceptedIsPublished` |
| | `FaultsCostACopyEach` | `Spec => []CopiesBounded` |
| `ModerationProofs` | `ModerationTypeCorrect` | `Spec => []TypeOK` |
| | `DecisionsAreAdmissible` | `Spec => []DecisionIsAdmissible` |
| | `BreakersFollowOutages` | `Spec => []BreakerFollowsOutages` |
| | `BlacklistingIsEarned` | `Spec => []BlacklistIsEarned` |
| | `DueIsBlacklistedAlways` | for a limit of at least two strikes, `Spec => []DueIsBlacklisted` |
| `PipelineProofs` | `NoEventRestsUnderWay` | `Spec => []RestsSettled` |
| | `RetriesStayBounded` | `Spec => []RetriesBounded` |

So every invariant and action property that a passing run checks has a theorem,
but for the refinement of `EventLifecycle` by `Pipeline`.

### Assumptions

The modules name what they ask of their constants, and TLC evaluates it in every
run: `ConsumerAssumption`, `RetryAssumption`, `ApiAssumption`,
`ProcessorAssumption` and `CoreAssumption`, `BreakerAssumption` and
`ModerationAssumption`, `PayloadAssumption`, `BoundAssumption`,
`ChangesAssumption` and `PipelineAssumption`.  They are types and bounds, with four exceptions that say
something about the code:

* `ProcessorAssumption` takes every decision to be `Admissible`.
  `DecisionsAreAdmissible` proves that of `decide()`.
* `ProcessorAssumption` takes the events to be finitely many, as those that ever
  arrive are.  The accounts below add up the commands about an event.
* `ModerationAssumption` takes the window of strikes to be longer than a call
  (a day, against timeouts of 30 seconds).
* `PipelineAssumption` names the faults of the pipeline: decisions and
  publications of core-service that fail, crashes of api- and retry-worker.  A
  crash of core-worker strands events (`core_stranded`), so that the pipeline's
  promises are stated for the others.

`ChangesAssumption` says that what `Changes` computes with a fold is a sequence:
induction over the fold is out of the provers' reach, TLC evaluates it.

Three theorems have a hypothesis of their own.  `OnlyExceptionsSkip` and
`CrashesLoseNothing` exclude the exceptions that leave a batch; the run
`retry_lost` shows what happens otherwise.  `DueIsBlacklistedAlways` excludes a
limit of one strike: `decisions.py:257-266` creates the entry of a new offender
with `is_blacklisted` false whatever the limit, so that with a limit of 1 the
second strike would be the one that counts.  The default limit is 3.

### The arguments

None of the properties is inductive alone.  Each proof module states an
invariant that is, as a conjunction of named parts, and proves that `Init`
establishes it and every action keeps it; TLC checked each on the module's run
before it was proved.

* **The loop.**  `LoopInv` of `KafkaConsumerProofs` - log, consumer and history
  have their types, the offsets are in order - is kept by every step of the loop
  whatever else the instance does, so the proofs about
  `ApiWorker` and `CoreService` cite it through an `INSTANCE` and say only which
  of their steps is which of the loop's.  `Progress`: everything before `committed`, and before `next` or
  `position`, is handled; only `Raise` breaks it.  `FaultsPay` has the
  account: one batch for each fault, and in a batch also what it may still cost.
* **retry-worker.**  `Inv` joins the types, that a step of `process()` has a
  valid record (`InProcess`), what each value of `step` says of the topics
  (behind a publication its message is there; before one, its decision was
  right), and the properties.  The topics only grow (`TopicsGrow`), so what is
  answered stays answered (`AnswersStay`).  `DeadLettersAreFinal` adds that a
  command marked dead-lettered is not the one being scheduled;
  `CrashesLoseNothing`, that the records between `committed` and `next` are
  answered.  `DuplicatesBounded` counts, for each failure, the copies published
  against the records that are behind the worker's place (`Behind`) and the
  faults: a step that moves the place back costs a fault.
* **api-worker.**  `StepInv`: at `return` the command is settled.  `FaultsPay` is
  the same account over executions.  `ReportsPaid` has it over reports: these do
  not say which record they came from, so it adds up the records that ask for one
  attempt (`Requests`), each reported once per fault, and once more if the worker
  is past it (`RequestsBehind`).
* **core-service.**  `StatusInv` says of each of the three interleaved calls what
  its `pc` and its `final_status` promise about documents, logs and topics
  (`CallBacked`), in a form that the other callers' writes cannot take back: each
  `Save` and each log write of one caller must keep the promise of the other two.
* **Attempts at an event** (`CoreAttemptsProofs`).  `OwnInv`: a worker's call is
  about the record its consumer stands at, and publishes once.  `AccountInv`:
  the commands about an event, and those the calls, fast retries and records
  ahead may still bring (`Left`), are no more than `AttemptsAt`.  A step either
  turns something that is left into a command, or pays with a fault, a manual
  retry or a `send_retry`.  The same for review entries.  `HandledInv`: what a
  call that has succeeded leaves behind, until its record is handled, and that
  nobody takes it back.
* **webhook-service.**  `ProgressInv` ties each request's stage and count of
  confirmed events to what is on the topic and in its producer's buffer: at most
  the event behind the confirmed ones is out or on its way.  `CopiesInv` says
  that of the deliveries of one payload all but the last have cost a fault
  (`Paid`) or left nothing behind (`Silent`); copies of an event are then at most
  one more than the faults, by an injection into the deliveries that paid.
* **`decide()`.**  `BreakerInv` relates a breaker to the history of outages it
  saw.  `EarnedInv`: an entry's count is backed by a chain of as many strikes,
  each within the window of the one before (`StoredEarned`), and so is the one a
  caller is about to write, read before others wrote theirs (`PendingEarned`).
  `DueInv` is the converse for senders whose strikes did not collide: the entry
  has the last strike, its count is as long as the chain at the end (`Recorded`,
  `Follows`), and what a caller read past the check is still what is stored
  (`Fresh`).  It needs that a call does not outlast a tick (`InTime`).
* **The pipeline.**  Its steps of core-service are `CoreService`'s without
  crashes (`CalmNext`, `CoreIsCore`), and the other services do nothing to
  core-service but to publish to the topics it reads and to write down failures
  (`AsideKeeps`).  So the invariants of `CoreAttemptsProofs` hold in it.
  `OwedInv` is the one that `RestsSettled` needs: an event whose status says that
  it is under way is in a call that will still write it (`Owes`), which in turn
  keeps its caller at a record about the event (`WhoOwesIsBusy`).
* **The budget of an event.**  A command's id follows from the decision, and
  retry-worker's ledger is by command id: when the second attempt decides
  something else, the ledger knows nothing of the first.  What holds the retries
  down is the count, one level at a time.  `Account(e, m)` has, for an event and
  a count `m`, the retries published with that count (`Retried`), the pairs of a
  command and a count below `m` that were told of, on `reply_commands` or
  `send_failed`, and that retry-worker has not yet answered (`Open`), and the
  attempts due or under way that may still tell of one (`Chances`).  `Paid` says
  that these are no more than one, and one for each manual retry and fault.  An
  attempt that speaks trades its chance for a pair (`CalmExchanges`), a retry
  takes the place of the pair it answers (`RetryIsPaid`), api-worker repeats a
  pair that is there (`ApiKeepsBudget`); a new request of the operator, a crash
  between a retry and its entry in the ledger, and a publication that raises
  after it was done, each bring one and pay for it.  The levels `1..MaxRetries`
  then add up (`LevelsAddUp`).

What proving changed in the models.  `CommandsBounded` and `ReviewsBounded` had
counted one attempt for a fault.  With batches of two and two retries of an
event in one of them, a crash redelivers both; `AttemptsAt` now counts what a
fault may redeliver.  `DueIsBlacklisted` turned out to need a limit of two.
`PublishedInOrder` and `AcceptedIsPublished` are stated by the positions of
events on the topic, which says the same as the filtered topic they compared
with a prefix before.

### Only model-checked

* Liveness - `EventuallyDrained`, `EventuallyPublished`, `EventuallyConcluded` -
  as the provers have no ENABLED, which fairness is made of.
* The refinement of `EventLifecycle`, in its safety part too.  It is
  true of the bounds of `pipeline` and not of all.  core-retry-worker drops its
  batch when another caller has just inserted the log it wants to insert
  (`RetrierAbandons`).  TLC shows two ways to an event that comes to rest without
  an outcome: a manual retry wins the race and then fails to publish, which
  drops the event's own `send_retry`; or, with batches of two, a fast retry wins
  it after an unclear publication, which drops the `send_retry` of another event.
  So `pipeline` has no manual retry and no fast retries, and a proof will have to
  assume as much.
* That the helpers defined by folds compute what they should for every input.

## Simplifications

* One partition per topic; a worker has one member in its group.  Records of
  one event may be on different partitions; nothing here relies on their order
  across topics.
* Events have an `event_id`; without one `process()` never deduplicates.
* `retry_count` and `max_retries` are natural numbers; the helpers that parse
  them are not modelled yet.
* A consumer is evicted (`Rejoin`) between batches only.  Inside one, it would
  fail to commit: that is `Raise`.
* MongoDB's single-document operations are atomic; each is a step.
* Signal handlers end the loop between two records or batches: `Crash` covers
  it.

Not modelled: REST pass-through, serializers, permissions, subscription, the
GET handshake, read-only queries and metrics (no state of their own), settings
and deployment (configuration; the values that matter are constants), the
length of the backoff and `occurred_at` (times no step depends on), and
`dlq_published`, which the code names but never sets.  An empty payload is in
`Webhook` (202 without a producer) but in no run, for it triples the states.

## Plan

Done: `KafkaConsumer`, `RetryService` with its theorems, `EventProcessor` +
`CoreService`, `ApiWorker`, `Moderation` + `CircuitBreaker`, `Pipeline` with
`EventLifecycle`, `Webhook`.

Proved: every invariant and action property of these (see Proofs).

Next:

* The safety part of the refinement of `EventLifecycle`, one step per action of
  the services, for no manual retry, no fast retries (or no publication that
  fails), and answers that are not silent: for each event taken in and not
  concluded there is a message still to be worked off whose count no other
  retry of the event exceeds.

Left besides: what collided strikes cost, and events that count themselves as
repeated content (the code does; what it should do is written down nowhere).
