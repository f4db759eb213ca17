------------------------- MODULE CoreServiceProofs -------------------------
(***************************************************************************)
(* What core-service keeps for every set of events and decisions, every    *)
(* number of fast retries, batch size, and number of crashes, rejoins,     *)
(* exceptions and manual retries.                                          *)
(***************************************************************************)
EXTENDS CoreService, FailureTypes, FiniteSetTheorems, TLAPS

RawFacts == INSTANCE KafkaConsumerProofs WITH
    Records <- Events, MaxRecords <- Cardinality(Events), FaultKinds <- {},
    log <- rawEvents, consumer <- rawConsumer, handled <- rawHandled

\* A retry carries the budget that the service's own messages carry.
RetryRecord == [command : CommandIds, retry_count : Nat, max_retries : {MaxRetries}]

RetryFacts == INSTANCE KafkaConsumerProofs WITH
    Records <- RetryRecord, MaxRecords <- MaxSendRetries, FaultKinds <- {},
    log <- sendRetry, consumer <- retryConsumer, handled <- retryHandled

-----------------------------------------------------------------------------
(* The strengthened types *)

\* What an event carries, when a retry brought it.
Given == {NotGiven} \cup (Nat \X {MaxRetries})

ReplyCommand ==
    [command : Keys, action_type : FacebookActions, retry_count : Nat,
     max_retries : {MaxRetries}]

\* A failure, whichever service reports it.
FailureReport ==
    [command : CommandIds, retry_count : Nat, max_retries : {MaxRetries},
     failure_type : RETRYABLE_FAILURE_TYPES \cup NON_RETRYABLE_FAILURE_TYPES,
     retryable : {"yes", "no"}]

LogStatuses == {"absent", "pending", "queued", "success", "failed", "skipped"}

DocType ==
    [status : Statuses \cup {"absent"}, retry_count : Nat,
     decision : Actions \cup {""}, given : Given]

CallType ==
    [pc : Operations, event : Events, force : BOOLEAN, given : Given, retry_count : Nat,
     decision : Decision, final_status : Statuses \cup {""}, saved : Actions \cup {""}]

\* What process() saves in the end.
SavedStatuses == {"ignored", "processed", "failed", "action_queued", "review_pending"}

\* The collections and the calls; only a Facebook action is ever published.
CollectionTypes ==
    /\ docs \in [Events -> DocType]
    /\ logs \in [Keys -> LogStatuses]
    /\ reviews \in [Events -> Nat]
    /\ replyCommands \in Seq(ReplyCommand)
    /\ calls \in [Callers -> CallType]
    /\ \A a \in Callers :
          /\ At(a, "save") => calls[a].final_status \in SavedStatuses
          /\ At(a, "publish") => calls[a].decision.action_type \in FacebookActions

(* A decision is one of the decisions there are. *)
LEMMA DecisionsTyped == \A d \in Decisions : d \in Decision
  BY ProcessorAssumption DEF Admissible

(* The action of a call, with its event, is a key of action_logs. *)
LEMMA KeyTyped ==
    ASSUME CollectionTypes, NEW a \in Callers
    PROVE  /\ Key(a) \in Keys
           /\ EventOf(Key(a)) = calls[a].event
           /\ calls[a].event \in Events
  <1>1. /\ calls[a] \in CallType
        /\ calls[a].event \in Events
        /\ calls[a].decision.action_type \in Actions
    BY DEF CollectionTypes, CallType, Decision
  <1>. QED  BY <1>1 DEF Key, Keys, CommandId, EventOf

(* An action's command carries the budget of the service. *)
LEMMA CommandTyped ==
    ASSUME CollectionTypes, NEW a \in Callers, At(a, "publish")
    PROVE  Command(a) \in ReplyCommand
  <1>1. /\ calls[a] \in CallType
        /\ calls[a].decision.action_type \in FacebookActions
        /\ calls[a].given \in Given
        /\ calls[a].retry_count \in Nat
    BY DEF CollectionTypes, CallType
  <1>2. calls[a].given = NotGiven \/ (calls[a].given[1] \in Nat /\ calls[a].given[2] = MaxRetries)
    BY <1>1 DEF Given
  <1>. QED  BY <1>1, <1>2, KeyTyped DEF Command, ReplyCommand

(* The collections and calls keep their types when one call changes. *)
LEMMA OneCallChanges ==
    ASSUME CollectionTypes, NEW a \in Callers, NEW c \in CallType,
           calls' = [calls EXCEPT ![a] = c],
           c.pc = "save" => c.final_status \in SavedStatuses,
           c.pc = "publish" => c.decision.action_type \in FacebookActions,
           docs' \in [Events -> DocType],
           logs' \in [Keys -> LogStatuses],
           reviews' \in [Events -> Nat],
           replyCommands' \in Seq(ReplyCommand)
    PROVE  CollectionTypes'
  <1>1. calls' \in [Callers -> CallType]
    BY DEF CollectionTypes
  <1>2. calls'[a] = c /\ \A b \in Callers : b # a => calls'[b] = calls[b]
    BY DEF CollectionTypes
  <1>. QED  BY <1>1, <1>2 DEF CollectionTypes, At

(* Every step of process(), and every failure in it, keeps the types. *)
LEMMA ProcessTypes ==
    ASSUME CollectionTypes, NEW a \in Callers,
           ProcessStep(a) \/ DecideFails(a) \/ PublishFails(a) \/ ProcessRaises(a)
    PROVE  CollectionTypes'
  <1>. DEFINE c == calls[a]
  <1>1. /\ calls \in [Callers -> CallType]
        /\ docs \in [Events -> DocType]
        /\ logs \in [Keys -> LogStatuses]
        /\ reviews \in [Events -> Nat]
        /\ replyCommands \in Seq(ReplyCommand)
    BY DEF CollectionTypes
  <1>2. /\ c \in CallType
        /\ c.event \in Events
        /\ c.retry_count \in Nat
        /\ c.decision \in Decision
        /\ c.decision.action_type \in Actions
        /\ c.given \in Given
        /\ c.final_status \in Statuses \cup {""}
    BY <1>1 DEF CallType, Decision
  <1>3. /\ Doc(a) = docs[c.event]
        /\ docs[c.event] \in DocType
        /\ Key(a) \in Keys
    BY <1>1, <1>2, KeyTyped DEF Doc
  <1>4. ASSUME NEW pc \in Operations, pc # "save", Goto(a, pc),
               pc = "publish" => c.decision.action_type \in FacebookActions,
               docs' \in [Events -> DocType],
               logs' \in [Keys -> LogStatuses],
               UNCHANGED reviews,
               replyCommands' \in Seq(ReplyCommand)
        PROVE  CollectionTypes'
    <2>1. calls' = [calls EXCEPT ![a] = [c EXCEPT !.pc = pc]]
      BY <1>4 DEF Goto
    <2>2. [c EXCEPT !.pc = pc] \in CallType
      BY <1>2 DEF CallType
    <2>3. /\ [c EXCEPT !.pc = pc].pc = pc
          /\ [c EXCEPT !.pc = pc].decision = c.decision
      BY <1>2 DEF CallType
    <2>. QED  BY <1>1, <1>4, <2>1, <2>2, <2>3, OneCallChanges
  <1>5. CASE FindNew(a) \/ CreateDuplicateKey(a) \/ DecideFails(a) \/ FindLog(a)
                \/ LogDuplicateKey(a) \/ ProcessRaises(a)
    <2>1. PICK pc \in Operations : pc \notin {"save", "publish"} /\ Goto(a, pc)
      BY <1>5 DEF FindNew, CreateDuplicateKey, DecideFails, FindLog, LogDuplicateKey,
         ProcessRaises, Throw, Operations
    <2>2. UNCHANGED collections
      BY <1>5 DEF FindNew, CreateDuplicateKey, DecideFails, FindLog, LogDuplicateKey,
         ProcessRaises
    <2>. QED  BY <1>1, <1>4, <2>1, <2>2 DEF collections
  <1>6. CASE FindDuplicate(a)
    <2>. DEFINE fs == Doc(a).status
                d == [c EXCEPT !.pc = "done", !.final_status = fs]
    <2>1. calls' = [calls EXCEPT ![a] = d] /\ UNCHANGED collections
      BY <1>6 DEF FindDuplicate
    <2>2. fs \in Statuses \cup {""}
      BY <1>3, <1>6 DEF FindDuplicate, DocType
    <2>3. d \in CallType /\ d.pc = "done"
      BY <1>2, <2>2 DEF CallType, Operations
    <2>. HIDE DEF d
    <2>. QED  BY <1>1, <2>1, <2>3, OneCallChanges DEF collections
  <1>7. CASE FindRetry(a)
    <2>. DEFINE n == Doc(a).retry_count + IF c.force THEN 1 ELSE 0
                d == [c EXCEPT !.pc = "mark_retrying", !.retry_count = n]
    <2>1. calls' = [calls EXCEPT ![a] = d] /\ UNCHANGED collections
      BY <1>7 DEF FindRetry
    <2>2. n \in Nat
      <3>1. Doc(a).retry_count \in Nat
        BY <1>3 DEF DocType
      <3>. QED  BY <3>1
    <2>3. d \in CallType /\ d.pc = "mark_retrying"
      BY <1>2, <2>2 DEF CallType, Operations
    <2>. HIDE DEF d
    <2>. QED  BY <1>1, <2>1, <2>3, OneCallChanges DEF collections
  <1>8. CASE Reread(a)
    <2>. DEFINE d == [c EXCEPT !.pc = "decide", !.retry_count = Doc(a).retry_count,
                               !.saved = Doc(a).decision]
    <2>1. calls' = [calls EXCEPT ![a] = d] /\ UNCHANGED collections
      BY <1>8 DEF Reread
    <2>2. Doc(a).retry_count \in Nat /\ Doc(a).decision \in Actions \cup {""}
      BY <1>3 DEF DocType
    <2>3. d \in CallType /\ d.pc = "decide"
      BY <1>2, <2>2 DEF CallType, Operations
    <2>. HIDE DEF d
    <2>. QED  BY <1>1, <2>1, <2>3, OneCallChanges DEF collections
  <1>9. CASE MarkRetrying(a) \/ Create(a)
    <2>1. docs' \in [Events -> DocType]
      <3>. DEFINE e == c.event
      <3>1. PICK d \in DocType : docs' = [docs EXCEPT ![e] = d]
        <4>1. CASE MarkRetrying(a)
          <5>. DEFINE d == [docs[e] EXCEPT !.status = "retrying",
                                           !.retry_count = c.retry_count]
          <5>1. docs' = [docs EXCEPT ![e] = d]
            BY <4>1 DEF MarkRetrying
          <5>2. d \in DocType
            BY <1>2, <1>3 DEF DocType, Statuses, RETRYABLE_STATUSES
          <5>. QED  BY <5>1, <5>2
        <4>2. CASE Create(a)
          <5>. DEFINE d == [docs[e] EXCEPT !.status = "received", !.given = c.given]
          <5>1. docs' = [docs EXCEPT ![e] = d]
            BY <4>2 DEF Create
          <5>2. d \in DocType
            BY <1>2, <1>3 DEF DocType, Statuses
          <5>. QED  BY <5>1, <5>2
        <4>. QED  BY <1>9, <4>1, <4>2
      <3>. QED  BY <1>1, <1>2, <3>1
    <2>2. PICK pc \in {"reread", "decide"} : Goto(a, pc)
      BY <1>9 DEF MarkRetrying, Create
    <2>3. pc \in Operations /\ pc \notin {"save", "publish"}
      BY DEF Operations
    <2>. QED  BY <1>1, <1>4, <1>9, <2>1, <2>2, <2>3 DEF MarkRetrying, Create
  <1>10. CASE Decide(a)
    <2>1. PICK dec \in Decisions :
             calls' = [calls EXCEPT
                ![a].decision = dec,
                ![a].pc = IF dec.should_execute THEN "find_success" ELSE "save",
                ![a].final_status =
                    IF dec.action_type = "ignore" THEN "ignored" ELSE "processed"]
      BY <1>10 DEF Decide
    <2>. DEFINE pc == IF dec.should_execute THEN "find_success" ELSE "save"
                fs == IF dec.action_type = "ignore" THEN "ignored" ELSE "processed"
                d == [c EXCEPT !.decision = dec, !.pc = pc, !.final_status = fs]
    <2>2. calls' = [calls EXCEPT ![a] = d] /\ UNCHANGED collections
      BY <1>10, <2>1 DEF Decide
    <2>3. dec \in Decision /\ fs \in Statuses \cup {""} /\ fs \in SavedStatuses
      BY DecisionsTyped DEF Statuses, TERMINAL_STATUSES, SavedStatuses
    <2>4. d \in CallType
      BY <1>2, <2>3 DEF CallType, Operations
    <2>5. d.pc # "publish" /\ d.final_status = fs
      BY <1>2 DEF CallType
    <2>. HIDE DEF d, fs
    <2>. QED  BY <1>1, <2>2, <2>3, <2>4, <2>5, OneCallChanges DEF collections
  <1>11. CASE SaveFailure(a)
    <2>. DEFINE d == [c EXCEPT !.pc = "done", !.final_status = "failed"]
    <2>1. /\ calls' = [calls EXCEPT ![a] = d]
          /\ UNCHANGED <<logs, reviews, replyCommands>>
          /\ docs' \in [Events -> DocType]
      BY <1>1, <1>2, <1>11 DEF SaveFailure, DocType, Statuses, RETRYABLE_STATUSES
    <2>2. "failed" \in Statuses
      BY DEF Statuses, RETRYABLE_STATUSES
    <2>3. d \in CallType /\ d.pc = "done"
      BY <1>2, <2>2 DEF CallType, Operations
    <2>. HIDE DEF d
    <2>. QED  BY <1>1, <2>1, <2>3, OneCallChanges
  <1>12. ASSUME NEW status, Executed(a, status),
                UNCHANGED <<docs, reviews, replyCommands>>,
                logs' \in [Keys -> LogStatuses]
         PROVE  CollectionTypes'
    <2>1. PICK pc \in {"review", "save"}, fs \in {"failed", "action_queued", "processed"} :
             calls' = [calls EXCEPT ![a].pc = pc, ![a].final_status = fs]
      BY <1>12 DEF Executed
    <2>. DEFINE d == [c EXCEPT !.pc = pc, !.final_status = fs]
    <2>2. calls' = [calls EXCEPT ![a] = d]
      BY <2>1
    <2>3. fs \in Statuses \cup {""} /\ fs \in SavedStatuses /\ pc \in Operations
      BY DEF Operations, Statuses, TERMINAL_STATUSES, RETRYABLE_STATUSES, SavedStatuses
    <2>4. d \in CallType
      BY <1>2, <2>3 DEF CallType, Operations
    <2>5. d.pc = pc /\ d.final_status = fs
      BY <1>2 DEF CallType
    <2>. HIDE DEF d
    <2>. QED  BY <1>1, <1>12, <2>2, <2>3, <2>4, <2>5, OneCallChanges
  <1>13. CASE FindSuccess(a)
    <2>1. CASE Executed(a, "success")
      BY <1>1, <1>12, <1>13, <2>1 DEF FindSuccess, collections
    <2>2. CASE Goto(a, "find_log")
      <3>1. "find_log" \in Operations
        BY DEF Operations
      <3>. QED  BY <1>1, <1>4, <1>13, <2>2, <3>1 DEF FindSuccess, collections
    <2>. QED  BY <1>13, <2>1, <2>2 DEF FindSuccess
  <1>14. CASE LogPending(a)
    <2>1. logs' \in [Keys -> LogStatuses]
      BY <1>1, <1>3, <1>14 DEF LogPending, LogStatuses
    <2>2. PICK pc \in {"log_skipped", "publish", "log_escalated"} :
             Goto(a, pc) /\ (pc = "publish" => c.decision.action_type \in FacebookActions)
      BY <1>14 DEF LogPending
    <2>3. pc \in Operations /\ pc # "save"
      BY DEF Operations
    <2>. QED  BY <1>1, <1>4, <1>14, <2>1, <2>2, <2>3 DEF LogPending
  <1>15. CASE LogSkipped(a) \/ LogEscalated(a) \/ LogQueued(a) \/ LogFailed(a)
    <2>1. logs' \in [Keys -> LogStatuses]
      BY <1>1, <1>3, <1>15 DEF LogSkipped, LogEscalated, LogQueued, LogFailed, LogOutcome,
         LogStatuses
    <2>. QED
      BY <1>12, <1>15, <2>1 DEF LogSkipped, LogEscalated, LogQueued, LogFailed, LogOutcome
  <1>16. CASE Publish(a) \/ PublishFails(a)
    <2>1. Command(a) \in ReplyCommand
      BY <1>16, CommandTyped DEF Publish, PublishFails
    <2>2. replyCommands' \in {replyCommands, Append(replyCommands, Command(a))}
      BY <1>16 DEF Publish, PublishFails
    <2>3. Append(replyCommands, Command(a)) \in Seq(ReplyCommand)
      BY <1>1, <2>1
    <2>4. replyCommands' \in Seq(ReplyCommand)
      BY <1>1, <2>2, <2>3
    <2>5. PICK pc \in {"log_queued", "log_failed"} : Goto(a, pc)
      BY <1>16 DEF Publish, PublishFails
    <2>6. pc \in Operations /\ pc \notin {"save", "publish"}
      BY DEF Operations
    <2>. QED  BY <1>1, <1>4, <1>16, <2>4, <2>5, <2>6 DEF Publish, PublishFails
  <1>17. CASE CreateReview(a)
    <2>. DEFINE d == [c EXCEPT !.pc = "save", !.final_status = "review_pending"]
    <2>1. /\ calls' = [calls EXCEPT ![a] = d]
          /\ UNCHANGED <<docs, logs, replyCommands>>
          /\ reviews' = [reviews EXCEPT ![c.event] = reviews[c.event] + 1]
      BY <1>17 DEF CreateReview
    <2>2. "review_pending" \in Statuses /\ "review_pending" \in SavedStatuses
      BY DEF Statuses, TERMINAL_STATUSES, SavedStatuses
    <2>3. d \in CallType /\ d.pc = "save" /\ d.final_status = "review_pending"
      BY <1>2, <2>2 DEF CallType, Operations
    <2>4. reviews' \in [Events -> Nat]
      <3>1. PICK e \in Events : e = c.event
        BY <1>2
      <3>2. /\ reviews' = [reviews EXCEPT ![e] = reviews[e] + 1]
            /\ reviews[e] + 1 \in Nat
        BY <1>1, <2>1, <3>1
      <3>. QED  BY <1>1, <3>2
    <2>. HIDE DEF d
    <2>. QED  BY <1>1, <2>1, <2>2, <2>3, <2>4, OneCallChanges
  <1>18. CASE Save(a)
    <2>. DEFINE d == [c EXCEPT !.pc = "done", !.saved = c.decision.action_type]
    <2>1. c.final_status \in Statuses
      BY <1>18 DEF Save, CollectionTypes, SavedStatuses, Statuses, TERMINAL_STATUSES,
         RETRYABLE_STATUSES
    <2>2. /\ calls' = [calls EXCEPT ![a] = d]
          /\ UNCHANGED <<logs, reviews, replyCommands>>
          /\ docs' \in [Events -> DocType]
      BY <1>1, <1>2, <1>18, <2>1 DEF Save, DocType
    <2>3. d \in CallType /\ d.pc = "done"
      BY <1>2 DEF CallType, Operations
    <2>. HIDE DEF d
    <2>. QED  BY <1>1, <2>2, <2>3, OneCallChanges
  <1>. QED
    BY <1>5, <1>6, <1>7, <1>8, <1>9, <1>10, <1>11, <1>13, <1>14, <1>15, <1>16, <1>17, <1>18
    DEF ProcessStep

-----------------------------------------------------------------------------
(* The two loops: KafkaConsumerProofs, for raw_events and for send_retry. *)

\* Types and order of the variables of the raw_events loop.
RawLoopInv ==
    /\ rawEvents \in Seq(Events)
    /\ rawConsumer \in RawEvents!ConsumerType
    /\ rawHandled \subseteq 1..Len(rawEvents)
    /\ RawEvents!OffsetOrder

RawLoopStep ==
    \/ RawEvents!Start \/ RawEvents!Poll \/ RawEvents!Finish \/ RawEvents!Commit
    \/ RawEvents!Raise \/ RawEvents!Rejoin \/ RawEvents!Crash
    \/ \E e \in Events : RawEvents!Produce(e)

\* The same, of the send_retry loop.
RetryLoopInv ==
    /\ sendRetry \in Seq(RetryRecord)
    /\ retryConsumer \in SendRetries!ConsumerType
    /\ retryHandled \subseteq 1..Len(sendRetry)
    /\ SendRetries!OffsetOrder

RetryLoopStep ==
    \/ SendRetries!Start \/ SendRetries!Poll \/ SendRetries!Finish \/ SendRetries!Commit
    \/ SendRetries!Raise \/ SendRetries!Rejoin \/ SendRetries!Crash
    \/ \E r \in RetryRecord : SendRetries!Produce(r)

\* A topic is only appended to.
Grows(s, t) == Len(s) <= Len(t) /\ \A i \in 1..Len(s) : t[i] = s[i]

(* The assumptions of the loop hold of both instances. *)
LEMMA LoopAssumptions == RawFacts!ConsumerAssumption /\ RetryFacts!ConsumerAssumption
  <1>1. Cardinality(Events) \in Nat
    BY ProcessorAssumption, FS_CardinalityType
  <1>. QED
    BY <1>1, CoreAssumption DEF RawFacts!ConsumerAssumption, RetryFacts!ConsumerAssumption

(* The instances of the loop speak of the same variables. *)
LEMMA LoopInvSame ==
    /\ (RawLoopInv <=> RawFacts!LoopInv) /\ (RawLoopInv' <=> RawFacts!LoopInv')
    /\ (RetryLoopInv <=> RetryFacts!LoopInv) /\ (RetryLoopInv' <=> RetryFacts!LoopInv')
  BY DEF RawLoopInv, RawFacts!LoopInv, RawEvents!ConsumerType, RawFacts!ConsumerType,
         RawEvents!OffsetOrder, RawFacts!OffsetOrder, RetryLoopInv, RetryFacts!LoopInv,
         SendRetries!ConsumerType, RetryFacts!ConsumerType, SendRetries!OffsetOrder,
         RetryFacts!OffsetOrder

(* A step of the raw_events loop keeps its types and the order of its offsets. *)
LEMMA RawLoopKeeps ==
    ASSUME RawLoopInv, RawLoopStep \/ UNCHANGED <<rawEvents, rawConsumer, rawHandled>>
    PROVE  RawLoopInv' /\ Grows(rawEvents, rawEvents')
  <1>1. RawLoopStep => RawFacts!LoopStep
    BY DEF RawLoopStep, RawFacts!LoopStep, RawFacts!OrderlyStep, RawFacts!Published,
       RawEvents!Start, RawEvents!Poll, RawEvents!Finish, RawEvents!Commit,
       RawEvents!Raise, RawEvents!Rejoin, RawEvents!Crash, RawEvents!Produce,
       RawEvents!HasRecord, RawFacts!Start, RawFacts!Poll, RawFacts!Finish,
       RawFacts!Commit, RawFacts!Raise, RawFacts!Rejoin, RawFacts!Crash,
       RawFacts!Produce, RawFacts!HasRecord
  <1>2. RawFacts!LoopInv' /\ RawFacts!Grows(rawEvents, rawEvents')
    BY <1>1, LoopAssumptions, LoopInvSame, RawFacts!LoopStepKeeps
  <1>. QED  BY <1>2, LoopInvSame DEF Grows, RawFacts!Grows

(* And so does a step of the send_retry loop. *)
LEMMA RetryLoopKeeps ==
    ASSUME RetryLoopInv, RetryLoopStep \/ UNCHANGED <<sendRetry, retryConsumer, retryHandled>>
    PROVE  RetryLoopInv' /\ Grows(sendRetry, sendRetry')
  <1>1. RetryLoopStep => RetryFacts!LoopStep
    BY DEF RetryLoopStep, RetryFacts!LoopStep, RetryFacts!OrderlyStep, RetryFacts!Published,
       SendRetries!Start, SendRetries!Poll, SendRetries!Finish, SendRetries!Commit,
       SendRetries!Raise, SendRetries!Rejoin, SendRetries!Crash, SendRetries!Produce,
       SendRetries!HasRecord, RetryFacts!Start, RetryFacts!Poll, RetryFacts!Finish,
       RetryFacts!Commit, RetryFacts!Raise, RetryFacts!Rejoin, RetryFacts!Crash,
       RetryFacts!Produce, RetryFacts!HasRecord
  <1>2. RetryFacts!LoopInv' /\ RetryFacts!Grows(sendRetry, sendRetry')
    BY <1>1, LoopAssumptions, LoopInvSame, RetryFacts!LoopStepKeeps
  <1>. QED  BY <1>2, LoopInvSame DEF Grows, RetryFacts!Grows

(* The records that come next are records of the topics. *)
LEMMA CurrentRecords ==
    ASSUME RawLoopInv, RetryLoopInv
    PROVE  /\ RawEvents!HasRecord =>
                 /\ rawConsumer.next + 1 \in 1..Len(rawEvents)
                 /\ rawEvent = rawEvents[rawConsumer.next + 1]
                 /\ rawEvent \in Events
           /\ SendRetries!HasRecord =>
                 /\ retryConsumer.next + 1 \in 1..Len(sendRetry)
                 /\ retryCommand = sendRetry[retryConsumer.next + 1]
                 /\ retryCommand \in RetryRecord
  <1>1. ASSUME RawEvents!HasRecord
        PROVE  /\ rawConsumer.next + 1 \in 1..Len(rawEvents)
               /\ RawFacts!Current \in Events
    BY <1>1, LoopAssumptions, LoopInvSame, RawFacts!CurrentIsRecord
    DEF RawEvents!HasRecord, RawFacts!HasRecord
  <1>2. ASSUME SendRetries!HasRecord
        PROVE  /\ retryConsumer.next + 1 \in 1..Len(sendRetry)
               /\ RetryFacts!Current \in RetryRecord
    BY <1>2, LoopAssumptions, LoopInvSame, RetryFacts!CurrentIsRecord
    DEF SendRetries!HasRecord, RetryFacts!HasRecord
  <1>. QED
    BY <1>1, <1>2 DEF rawEvent, retryCommand, RawEvents!Current, RawFacts!Current,
       SendRetries!Current, RetryFacts!Current

-----------------------------------------------------------------------------
(* Types of the service *)

ServiceTypes ==
    /\ sendFailed \in Seq(FailureReport)
    /\ stage \in [{worker, retrier} -> {"idle", "process", "publish_failed", "finish"}]
    /\ attempt \in 0..FastRetries
    /\ manual \in 0..MaxManual
    /\ faults \in Nat

\* A worker that is not idle is at a record of its batch.
InBatch ==
    /\ stage[worker] # "idle" => RawEvents!HasRecord
    /\ stage[retrier] # "idle" => SendRetries!HasRecord

TypeInv == CollectionTypes /\ RawLoopInv /\ RetryLoopInv /\ ServiceTypes /\ InBatch

(* The callers differ. *)
LEMMA CallersDiffer ==
    /\ Callers = {worker, retrier, web}
    /\ worker # retrier /\ worker # web /\ retrier # web
  BY CoreAssumption DEF worker, retrier, web

(* What a caller asks process() for is an event, with a budget or without. *)
LEMMA CallTyped ==
    ASSUME CollectionTypes, NEW a \in Callers, NEW e \in Events, NEW force \in BOOLEAN,
           NEW given \in Given
    PROVE  NoCall(e, force, given) \in CallType
  BY DEF NoCall, CallType, Operations, NoDecision, Decision, Actions

(* Idle is a call that does not run. *)
LEMMA IdleTyped == Idle \in CallType /\ Idle.pc = "idle"
  <1>1. (CHOOSE e \in Events : TRUE) \in Events
    BY ProcessorAssumption
  <1>2. NotGiven \in Given
    BY DEF Given
  <1>3. NoCall(CHOOSE e \in Events : TRUE, FALSE, NotGiven) \in CallType
    BY <1>1, <1>2 DEF NoCall, CallType, Operations, NoDecision, Decision, Actions
  <1>. QED  BY <1>3 DEF Idle, CallType, Operations

(* A call or a hangup changes the caller's own call only; update_by_event_id
   may change a document with it. *)
LEMMA CallerTypes ==
    ASSUME CollectionTypes, NEW a \in Callers,
           \/ Hangup(a)
           \/ \E e \in Events, force \in BOOLEAN, given \in Given : Call(a, e, force, given)
           \/ UNCHANGED calls,
           UNCHANGED <<logs, reviews, replyCommands>>,
           docs' \in [Events -> DocType]
    PROVE  CollectionTypes'
  <1>1. CASE UNCHANGED calls
    BY <1>1 DEF CollectionTypes, At
  <1>2. ASSUME NEW c \in CallType, c.pc \in {"idle", "find"},
               calls' = [calls EXCEPT ![a] = c]
        PROVE  CollectionTypes'
    BY <1>2, OneCallChanges DEF CollectionTypes
  <1>3. CASE Hangup(a)
    BY <1>2, <1>3, IdleTyped DEF Hangup
  <1>4. ASSUME NEW e \in Events, NEW force \in BOOLEAN, NEW given \in Given,
               Call(a, e, force, given)
        PROVE  CollectionTypes'
    <2>1. NoCall(e, force, given) \in CallType
      BY CallTyped
    <2>2. NoCall(e, force, given).pc = "find"
      BY DEF NoCall
    <2>. QED  BY <1>2, <1>4, <2>1, <2>2 DEF Call
  <1>. QED  BY <1>1, <1>3, <1>4

(* The workers' own updates of the document. *)
LEMMA MarkDocTyped ==
    ASSUME CollectionTypes, NEW e \in Events, NEW status \in {"retrying", "send_failed"},
           NEW n \in Nat, MarkDoc(e, status, n)
    PROVE  docs' \in [Events -> DocType]
  <1>. DEFINE d == [docs[e] EXCEPT !.status = status, !.retry_count = n]
  <1>1. docs \in [Events -> DocType] /\ docs[e] \in DocType
    BY DEF CollectionTypes
  <1>2. d \in DocType
    BY <1>1 DEF DocType, Statuses, RETRYABLE_STATUSES
  <1>3. docs' = docs \/ docs' = [docs EXCEPT ![e] = d]
    BY DEF MarkDoc
  <1>. HIDE DEF d
  <1>. QED  BY <1>1, <1>2, <1>3

(* A retry names an event, and carries the service's budget. *)
LEMMA RetryTyped ==
    ASSUME NEW r \in RetryRecord
    PROVE  /\ EventOf(r.command) \in Events
           /\ <<r.retry_count, r.max_retries>> \in Given
  BY DEF RetryRecord, CommandIds, CommandId, EventOf, Given

(* Every step keeps the types of the collections and of the calls. *)
LEMMA NextCollections == TypeInv /\ [Next]_vars => CollectionTypes'
  <1>. SUFFICES ASSUME TypeInv, [Next]_vars PROVE CollectionTypes'
    OBVIOUS
  <1>. USE DEF TypeInv
  <1>1. worker \in Callers /\ retrier \in Callers /\ web \in Callers
    BY CallersDiffer
  <1>2. docs \in [Events -> DocType]
    BY DEF CollectionTypes
  <1>3. ASSUME NEW a \in Callers,
               Step(a) \/ DecisionFailure(a) \/ PublishFailure(a) \/ CallRaises(a)
        PROVE  CollectionTypes'
    BY <1>3, ProcessTypes DEF Step, DecisionFailure, PublishFailure, CallRaises
  <1>4. ASSUME NEW a \in Callers, Hangup(a) \/ UNCHANGED calls, UNCHANGED collections
        PROVE  CollectionTypes'
    BY <1>2, <1>4, CallerTypes DEF collections
  <1>5. ASSUME NEW a \in Callers, NEW e \in Events, NEW force \in BOOLEAN,
               NEW given \in Given, Call(a, e, force, given), UNCHANGED collections
        PROVE  CollectionTypes'
    BY <1>2, <1>5, CallerTypes DEF collections
  <1>6. CASE WorkerBegins
    <2>1. rawEvent \in Events /\ NotGiven \in Given
      BY <1>6, CurrentRecords DEF WorkerBegins, Given
    <2>. QED  BY <1>1, <1>5, <1>6, <2>1 DEF WorkerBegins
  <1>7. CASE WorkerRetries
    <2>1. rawEvent \in Events /\ NotGiven \in Given
      BY <1>7, CurrentRecords DEF WorkerRetries, InBatch, Given
    <2>2. attempt + 1 \in Nat
      BY DEF ServiceTypes
    <2>3. docs' \in [Events -> DocType]
      BY <1>7, <2>1, <2>2, MarkDocTyped DEF WorkerRetries
    <2>. QED  BY <1>1, <1>7, <2>1, <2>3, CallerTypes DEF WorkerRetries
  <1>8. CASE WorkerGivesUp
    <2>1. rawEvent \in Events
      BY <1>8, CurrentRecords DEF WorkerGivesUp, InBatch
    <2>2. Attempts - 1 \in Nat
      BY CoreAssumption DEF Attempts
    <2>3. docs' \in [Events -> DocType]
      BY <1>8, <2>1, <2>2, MarkDocTyped DEF WorkerGivesUp
    <2>. QED  BY <1>1, <1>8, <2>3, CallerTypes DEF WorkerGivesUp
  <1>9. CASE RetrierBegins
    <2>1. retryCommand \in RetryRecord
      BY <1>9, CurrentRecords DEF RetrierBegins
    <2>. QED  BY <1>1, <1>5, <1>9, <2>1, RetryTyped DEF RetrierBegins
  <1>10. ASSUME NEW e \in Events, WebRetries(e) PROVE CollectionTypes'
    <2>1. docs[e].given \in Given
      BY <1>2 DEF DocType
    <2>. QED  BY <1>1, <1>5, <1>10, <2>1 DEF WebRetries
  <1>11. CASE WorkerSucceeds \/ WorkerFinishes \/ WorkerRaises \/ WorkerCrashes
    BY <1>1, <1>4, <1>11
    DEF WorkerSucceeds, WorkerFinishes, WorkerRaises, WorkerCrashes
  <1>12. CASE WorkerPublishesFailure \/ WorkerLoop \/ WorkerRejoins
    BY <1>1, <1>4, <1>12 DEF WorkerPublishesFailure, WorkerLoop, WorkerRejoins
  <1>13. CASE RetrierSucceeds \/ RetrierFinishes \/ RetrierAbandons \/ RetrierRaises
                 \/ RetrierCrashes
    BY <1>1, <1>4, <1>13
    DEF RetrierSucceeds, RetrierFinishes, RetrierAbandons, RetrierRaises, RetrierCrashes
  <1>14. CASE RetrierPublishesFailure \/ RetrierLoop \/ RetrierRejoins
    BY <1>1, <1>4, <1>14 DEF RetrierPublishesFailure, RetrierLoop, RetrierRejoins
  <1>15. CASE WebAnswers \/ WebCrashes
    BY <1>1, <1>4, <1>15 DEF WebAnswers, WebCrashes
  <1>16. CASE PipelineRetries \/ \E e \in Events : WebhookPublishes(e)
    BY <1>1, <1>4, <1>16 DEF PipelineRetries, RetryScheduled, WebhookPublishes
  <1>17. CASE UNCHANGED vars
    BY <1>1, <1>4, <1>17 DEF vars, collections
  <1>. QED
    BY <1>1, <1>3, <1>6, <1>7, <1>8, <1>9, <1>10, <1>11, <1>12, <1>13, <1>14, <1>15,
       <1>16, <1>17
    DEF Next, Worker, Retrier, Web

\* process() itself, whoever called it, and what may go wrong in it.
Processes ==
    \E a \in Callers : Step(a) \/ DecisionFailure(a) \/ PublishFailure(a) \/ CallRaises(a)

(* The steps of process() are nobody's loop, and change only its own state. *)
LEMMA ProcessesIsLocal ==
    Processes => UNCHANGED loops /\ (faults' = faults \/ faults' = faults + 1)
  BY DEF Processes, Step, DecisionFailure, PublishFailure, CallRaises, Fault, ProcessStep

(* The steps of the service that are none of process(). *)
LEMMA NextIsOneOf ==
    [Next]_vars =>
        \/ Processes
        \/ WorkerBegins \/ WorkerSucceeds \/ WorkerRetries \/ WorkerGivesUp
        \/ WorkerPublishesFailure \/ WorkerFinishes \/ WorkerLoop
        \/ WorkerRaises \/ WorkerCrashes \/ WorkerRejoins
        \/ RetrierBegins \/ RetrierSucceeds \/ RetrierPublishesFailure
        \/ RetrierFinishes \/ RetrierLoop \/ RetrierAbandons
        \/ RetrierRaises \/ RetrierCrashes \/ RetrierRejoins
        \/ WebAnswers \/ WebCrashes \/ (\E e \in Events : WebRetries(e))
        \/ PipelineRetries \/ (\E e \in Events : WebhookPublishes(e))
        \/ UNCHANGED vars
  BY CallersDiffer DEF Next, Worker, Retrier, Web, Processes

(* Every step is one of the raw_events loop, or leaves it alone. *)
LEMMA NextRawLoop ==
    ASSUME [Next]_vars
    PROVE  RawLoopStep \/ UNCHANGED <<rawEvents, rawConsumer, rawHandled>>
  <1>1. CASE Processes
    BY <1>1, ProcessesIsLocal DEF loops, topics, rawLoop
  <1>2. CASE WorkerBegins \/ WorkerSucceeds \/ WorkerRetries \/ WorkerGivesUp
                \/ WorkerPublishesFailure \/ WorkerFinishes \/ WorkerLoop
                \/ WorkerRaises \/ WorkerCrashes \/ WorkerRejoins
    BY <1>2 DEF RawLoopStep, WorkerBegins, WorkerSucceeds, WorkerRetries, WorkerGivesUp,
       WorkerPublishesFailure, WorkerFinishes, WorkerLoop, WorkerRaises, WorkerCrashes,
       WorkerRejoins, topics, rawLoop
  <1>3. CASE RetrierBegins \/ RetrierSucceeds \/ RetrierPublishesFailure
                \/ RetrierFinishes \/ RetrierLoop \/ RetrierAbandons
                \/ RetrierRaises \/ RetrierCrashes \/ RetrierRejoins
    BY <1>3 DEF RetrierBegins, RetrierSucceeds, RetrierPublishesFailure, RetrierFinishes,
       RetrierLoop, RetrierAbandons, RetrierRaises, RetrierCrashes, RetrierRejoins,
       topics, rawLoop
  <1>4. CASE WebAnswers \/ WebCrashes \/ (\E e \in Events : WebRetries(e))
                \/ PipelineRetries \/ UNCHANGED vars
    BY <1>4 DEF WebAnswers, WebCrashes, WebRetries, PipelineRetries, RetryScheduled, vars,
       topics, rawLoop
  <1>5. CASE \E e \in Events : WebhookPublishes(e)
    BY <1>5 DEF WebhookPublishes, RawLoopStep
  <1>. QED  BY <1>1, <1>2, <1>3, <1>4, <1>5, NextIsOneOf

(* Every step is one of the send_retry loop, or leaves it alone. *)
LEMMA NextRetryLoop ==
    ASSUME TypeInv, [Next]_vars
    PROVE  RetryLoopStep \/ UNCHANGED <<sendRetry, retryConsumer, retryHandled>>
  <1>1. CASE Processes
    BY <1>1, ProcessesIsLocal DEF loops, topics, retryLoop
  <1>2. CASE WorkerBegins \/ WorkerSucceeds \/ WorkerRetries \/ WorkerGivesUp
                \/ WorkerPublishesFailure \/ WorkerFinishes \/ WorkerLoop
                \/ WorkerRaises \/ WorkerCrashes \/ WorkerRejoins
    BY <1>2 DEF WorkerBegins, WorkerSucceeds, WorkerRetries, WorkerGivesUp,
       WorkerPublishesFailure, WorkerFinishes, WorkerLoop, WorkerRaises, WorkerCrashes,
       WorkerRejoins, topics, retryLoop
  <1>3. CASE RetrierBegins \/ RetrierSucceeds \/ RetrierPublishesFailure
                \/ RetrierFinishes \/ RetrierLoop \/ RetrierAbandons
                \/ RetrierRaises \/ RetrierCrashes \/ RetrierRejoins
    BY <1>3 DEF RetryLoopStep, RetrierBegins, RetrierSucceeds, RetrierPublishesFailure,
       RetrierFinishes, RetrierLoop, RetrierAbandons, RetrierRaises, RetrierCrashes,
       RetrierRejoins, topics, retryLoop
  <1>4. CASE WebAnswers \/ WebCrashes \/ (\E e \in Events : WebRetries(e))
                \/ UNCHANGED vars \/ (\E e \in Events : WebhookPublishes(e))
    BY <1>4 DEF WebAnswers, WebCrashes, WebRetries, WebhookPublishes, vars, topics, retryLoop
  <1>5. CASE PipelineRetries
    <2>1. PICK m : /\ m \in ReplyCommand \/ m \in FailureReport
                   /\ RetryScheduled(m)
      <3>1. /\ \A i \in DOMAIN replyCommands : replyCommands[i] \in ReplyCommand
            /\ \A i \in DOMAIN sendFailed : sendFailed[i] \in FailureReport
        BY DEF TypeInv, CollectionTypes, ServiceTypes
      <3>. QED  BY <1>5, <3>1 DEF PipelineRetries
    <2>2. Keys \subseteq CommandIds
      BY DEF Keys, CommandIds
    <2>. DEFINE r == [command |-> m.command, retry_count |-> m.retry_count + 1,
                      max_retries |-> m.max_retries]
    <2>3. r \in RetryRecord
      BY <2>1, <2>2 DEF ReplyCommand, FailureReport, RetryRecord
    <2>4. SendRetries!Produce(r)
      BY <2>1 DEF RetryScheduled
    <2>. HIDE DEF r
    <2>. QED  BY <2>3, <2>4 DEF RetryLoopStep
  <1>. QED  BY <1>1, <1>2, <1>3, <1>4, <1>5, NextIsOneOf

(* What build_command_id makes of an event, an action and a kind of target. *)
LEMMA CommandIdTyped ==
    ASSUME NEW e \in Events, NEW action \in Actions \cup {"process_event"},
           NEW target \in {"object", "target"}
    PROVE  CommandId(e, action, target) \in CommandIds
  BY DEF CommandIds

(* The report of a failure has its type, wherever process() has failed. *)
LEMMA FailureTyped ==
    ASSUME CollectionTypes, NEW a \in Callers, NEW n \in Nat
    PROVE  FailureOf(a, n, MaxRetries) \in FailureReport
  <1>. DEFINE e == calls[a].event
  <1>1. e \in Events /\ calls[a].saved \in Actions \cup {""}
    BY DEF CollectionTypes, CallType
  <1>. HIDE DEF e
  <1>2. CommandId(e, "process_event", "object") \in CommandIds
    BY <1>1, CommandIdTyped
  <1>3. CommandId(e, IF calls[a].saved = "" THEN "process_event" ELSE calls[a].saved,
                  "target") \in CommandIds
    <2>1. PICK act \in Actions \cup {"process_event"} :
             act = IF calls[a].saved = "" THEN "process_event" ELSE calls[a].saved
      BY <1>1
    <2>2. CommandId(e, act, "target") \in CommandIds
      BY <1>1, CommandIdTyped
    <2>. QED  BY <2>1, <2>2
  <1>. QED
    BY <1>2, <1>3 DEF FailureOf, FailureReport, RETRYABLE_FAILURE_TYPES,
       NON_RETRYABLE_FAILURE_TYPES, e

(* Every step keeps the types of the rest. *)
LEMMA NextService == TypeInv /\ [Next]_vars => ServiceTypes'
  <1>. SUFFICES ASSUME TypeInv, [Next]_vars PROVE ServiceTypes'
    OBVIOUS
  <1>1. ServiceTypes
    BY DEF TypeInv
  <1>2. /\ worker \in Callers /\ retrier \in Callers
        /\ worker # retrier
        /\ FastRetries \in Nat /\ MaxManual \in Nat
    BY CallersDiffer, CoreAssumption
  <1>3. CASE Processes
    BY <1>1, <1>3, ProcessesIsLocal DEF ServiceTypes, loops, topics
  <1>4. CASE WorkerBegins \/ WorkerSucceeds \/ WorkerRetries \/ WorkerGivesUp
                \/ WorkerFinishes \/ WorkerLoop
                \/ WorkerRaises \/ WorkerCrashes \/ WorkerRejoins
    <2>. USE DEF WorkerBegins, WorkerSucceeds, WorkerRetries, WorkerGivesUp, WorkerFinishes,
         WorkerLoop, WorkerRaises, WorkerCrashes, WorkerRejoins
    <2>1. UNCHANGED <<sendFailed, manual>> /\ (faults' = faults \/ faults' = faults + 1)
      BY <1>4 DEF topics, Fault
    <2>2. stage' = stage \/ \E x \in {"idle", "process", "publish_failed"} : Stage(worker, x)
      BY <1>4
    <2>3. attempt' \in {attempt, 0} \/ (attempt + 1 < FastRetries + 1 /\ attempt' = attempt + 1)
      BY <1>4 DEF Attempts
    <2>. QED  BY <1>1, <1>2, <2>1, <2>2, <2>3 DEF ServiceTypes, Stage
  <1>5. CASE RetrierBegins \/ RetrierSucceeds \/ RetrierFinishes \/ RetrierLoop
                \/ RetrierAbandons \/ RetrierRaises \/ RetrierCrashes \/ RetrierRejoins
    <2>. USE DEF RetrierBegins, RetrierSucceeds, RetrierFinishes, RetrierLoop,
         RetrierAbandons, RetrierRaises, RetrierCrashes, RetrierRejoins
    <2>1. /\ UNCHANGED <<sendFailed, manual, attempt>>
          /\ faults' = faults \/ faults' = faults + 1
      BY <1>5 DEF topics, Fault
    <2>2. stage' = stage \/ \E x \in {"idle", "process"} : Stage(retrier, x)
      BY <1>5
    <2>. QED  BY <1>1, <1>2, <2>1, <2>2 DEF ServiceTypes, Stage
  <1>6. CASE WorkerPublishesFailure
    <2>1. FailureOf(worker, Attempts - 1, MaxRetries) \in FailureReport
      BY <1>2, FailureTyped DEF TypeInv, Attempts
    <2>2. Append(sendFailed, FailureOf(worker, Attempts - 1, MaxRetries))
             \in Seq(FailureReport)
      BY <1>1, <2>1 DEF ServiceTypes
    <2>. QED  BY <1>1, <1>6, <2>2 DEF ServiceTypes, WorkerPublishesFailure, Stage
  <1>7. CASE RetrierPublishesFailure
    <2>1. retryCommand \in RetryRecord
      BY <1>7, CurrentRecords DEF RetrierPublishesFailure, TypeInv, InBatch
    <2>2. retryCommand.retry_count \in Nat /\ retryCommand.max_retries = MaxRetries
      BY <2>1 DEF RetryRecord
    <2>3. FailureOf(retrier, retryCommand.retry_count, MaxRetries) \in FailureReport
      BY <1>2, <2>2, FailureTyped DEF TypeInv
    <2>4. Append(sendFailed, FailureOf(retrier, retryCommand.retry_count, MaxRetries))
             \in Seq(FailureReport)
      BY <1>1, <2>3 DEF ServiceTypes
    <2>. QED  BY <1>1, <1>7, <2>2, <2>4 DEF ServiceTypes, RetrierPublishesFailure, Stage
  <1>8. CASE WebAnswers \/ WebCrashes \/ (\E e \in Events : WebRetries(e))
                \/ PipelineRetries \/ UNCHANGED vars \/ (\E e \in Events : WebhookPublishes(e))
    <2>. USE DEF WebAnswers, WebCrashes, WebRetries, WebhookPublishes, PipelineRetries,
         RetryScheduled, vars
    <2>1. /\ UNCHANGED <<sendFailed, stage, attempt>>
          /\ faults' = faults \/ faults' = faults + 1
          /\ manual' = manual \/ (manual < MaxManual /\ manual' = manual + 1)
      BY <1>8 DEF topics, Fault
    <2>. QED  BY <1>1, <1>2, <2>1 DEF ServiceTypes
  <1>. QED  BY <1>3, <1>4, <1>5, <1>6, <1>7, <1>8, NextIsOneOf

(* Every step keeps a busy worker at a record of its batch. *)
LEMMA NextInBatch == TypeInv /\ [Next]_vars => InBatch'
  <1>. SUFFICES ASSUME TypeInv, [Next]_vars PROVE InBatch'
    OBVIOUS
  <1>1. /\ InBatch /\ worker # retrier
        /\ stage \in [{worker, retrier} ->
                         {"idle", "process", "publish_failed", "finish"}]
    BY CallersDiffer DEF TypeInv, ServiceTypes
  <1>. USE DEF InBatch, RawEvents!HasRecord, SendRetries!HasRecord, Stage
  <1>2. CASE Processes
    BY <1>1, <1>2, ProcessesIsLocal DEF loops, rawLoop, retryLoop
  <1>3. CASE WorkerBegins \/ WorkerRetries \/ WorkerGivesUp \/ WorkerPublishesFailure
    BY <1>1, <1>3 DEF WorkerBegins, WorkerRetries, WorkerGivesUp, WorkerPublishesFailure,
       rawLoop, retryLoop
  <1>4. CASE WorkerSucceeds \/ WorkerFinishes \/ WorkerRaises \/ WorkerCrashes
    BY <1>1, <1>4 DEF WorkerSucceeds, WorkerFinishes, WorkerRaises, WorkerCrashes,
       retryLoop
  <1>5. CASE WorkerLoop
    BY <1>1, <1>5 DEF WorkerLoop, retryLoop
  <1>6. CASE WorkerRejoins
    BY <1>1, <1>6 DEF WorkerRejoins, retryLoop, RawEvents!Rejoin
  <1>7. CASE RetrierBegins \/ RetrierPublishesFailure
    BY <1>1, <1>7 DEF RetrierBegins, RetrierPublishesFailure, rawLoop, retryLoop
  <1>8. CASE RetrierSucceeds \/ RetrierFinishes \/ RetrierAbandons \/ RetrierRaises
                \/ RetrierCrashes
    BY <1>1, <1>8 DEF RetrierSucceeds, RetrierFinishes, RetrierAbandons, RetrierRaises,
       RetrierCrashes, rawLoop
  <1>9. CASE RetrierLoop
    BY <1>1, <1>9 DEF RetrierLoop, rawLoop
  <1>10. CASE RetrierRejoins
    BY <1>1, <1>10 DEF RetrierRejoins, rawLoop, SendRetries!Rejoin
  <1>11. CASE WebAnswers \/ WebCrashes \/ (\E e \in Events : WebRetries(e))
                \/ UNCHANGED vars
    BY <1>1, <1>11 DEF WebAnswers, WebCrashes, WebRetries, vars, rawLoop, retryLoop
  <1>12. CASE PipelineRetries
    BY <1>1, <1>12 DEF PipelineRetries, RetryScheduled, SendRetries!Produce, rawLoop
  <1>13. CASE \E e \in Events : WebhookPublishes(e)
    BY <1>1, <1>13 DEF WebhookPublishes, RawEvents!Produce, retryLoop
  <1>. QED
    BY <1>2, <1>3, <1>4, <1>5, <1>6, <1>7, <1>8, <1>9, <1>10, <1>11, <1>12, <1>13,
       NextIsOneOf

(* The initial state has the types, and every step keeps them. *)
LEMMA TypeInvInductive == (Init => TypeInv) /\ (TypeInv /\ [Next]_vars => TypeInv')
  <1>1. ASSUME Init PROVE TypeInv
    <2>. USE <1>1 DEF Init
    <2>1. NoDoc \in DocType
      BY DEF NoDoc, DocType, Given
    <2>2. CollectionTypes
      BY <2>1, IdleTyped DEF ProcessorInit, CollectionTypes, LogStatuses, At
    <2>3. RawLoopInv /\ RetryLoopInv
      BY DEF RawLoopInv, RetryLoopInv, RawEvents!InitialConsumer, RawEvents!ConsumerType,
         SendRetries!InitialConsumer, SendRetries!ConsumerType, RawEvents!OffsetOrder,
         SendRetries!OffsetOrder
    <2>4. ServiceTypes /\ InBatch
      BY CoreAssumption DEF ServiceTypes, InBatch
    <2>. QED  BY <2>2, <2>3, <2>4 DEF TypeInv
  <1>2. ASSUME TypeInv, [Next]_vars PROVE TypeInv'
    <2>1. RawLoopInv' /\ RetryLoopInv'
      BY <1>2, NextRawLoop, NextRetryLoop, RawLoopKeeps, RetryLoopKeeps DEF TypeInv
    <2>. QED  BY <1>2, <2>1, NextCollections, NextService, NextInBatch DEF TypeInv
  <1>. QED  BY <1>1, <1>2

\* What the service itself says of a failure.
OwnReports ==
    \A j \in DOMAIN sendFailed :
        sendFailed[j].failure_type = "unknown" /\ sendFailed[j].retryable = "yes"

(* A step reports no failure but its own. *)
LEMMA OwnReportsKept == TypeInv /\ OwnReports /\ [Next]_vars => OwnReports'
  <1>. SUFFICES ASSUME TypeInv, OwnReports, [Next]_vars PROVE OwnReports'
    OBVIOUS
  <1>1. ASSUME NEW a \in Callers, NEW n, NEW max,
               sendFailed' = Append(sendFailed, FailureOf(a, n, max))
        PROVE  OwnReports'
    <2>1. sendFailed \in Seq(FailureReport)
      BY DEF TypeInv, ServiceTypes
    <2>. DEFINE f == FailureOf(a, n, max)
    <2>2. f.failure_type = "unknown" /\ f.retryable = "yes"
      BY DEF FailureOf
    <2>3. sendFailed' = Append(sendFailed, f)
      BY <1>1
    <2>. HIDE DEF f
    <2>4. \A j \in DOMAIN sendFailed' :
             sendFailed'[j] = f \/ (j \in DOMAIN sendFailed /\ sendFailed'[j] = sendFailed[j])
      BY <2>1, <2>3
    <2>. QED  BY <2>2, <2>4 DEF OwnReports
  <1>2. CASE UNCHANGED sendFailed
    BY <1>2 DEF OwnReports
  <1>3. CASE Processes
    BY <1>2, <1>3, ProcessesIsLocal DEF loops, topics
  <1>4. CASE WorkerPublishesFailure \/ RetrierPublishesFailure
    BY <1>1, <1>4, CallersDiffer DEF WorkerPublishesFailure, RetrierPublishesFailure
  <1>5. CASE WorkerBegins \/ WorkerSucceeds \/ WorkerRetries \/ WorkerGivesUp
                \/ WorkerFinishes \/ WorkerLoop
                \/ WorkerRaises \/ WorkerCrashes \/ WorkerRejoins
    BY <1>2, <1>5 DEF WorkerBegins, WorkerSucceeds, WorkerRetries, WorkerGivesUp,
       WorkerFinishes, WorkerLoop, WorkerRaises, WorkerCrashes, WorkerRejoins, topics
  <1>6. CASE RetrierBegins \/ RetrierSucceeds \/ RetrierFinishes \/ RetrierLoop
                \/ RetrierAbandons \/ RetrierRaises \/ RetrierCrashes \/ RetrierRejoins
    BY <1>2, <1>6 DEF RetrierBegins, RetrierSucceeds, RetrierFinishes, RetrierLoop,
       RetrierAbandons, RetrierRaises, RetrierCrashes, RetrierRejoins, topics
  <1>7. CASE WebAnswers \/ WebCrashes \/ (\E e \in Events : WebRetries(e))
                \/ PipelineRetries \/ UNCHANGED vars \/ (\E e \in Events : WebhookPublishes(e))
    BY <1>2, <1>7 DEF WebAnswers, WebCrashes, WebRetries, WebhookPublishes,
       PipelineRetries, RetryScheduled, vars, topics
  <1>. QED  BY <1>3, <1>4, <1>5, <1>6, <1>7, NextIsOneOf

(* Every reachable state of core-service has the declared types. *)
THEOREM CoreTypeCorrect == Spec => []TypeOK
  <1>1. TypeInv /\ OwnReports => TypeOK
    <2>. SUFFICES ASSUME TypeInv, OwnReports PROVE TypeOK
      OBVIOUS
    <2>1. Given \subseteq Seq(Nat)
      <3>1. \A n \in Nat : <<n, MaxRetries>> \in Seq(Nat)
        BY ProcessorAssumption
      <3>2. <<>> \in Seq(Nat)
        OBVIOUS
      <3>3. \A g \in Given : g = <<>> \/ (g = <<g[1], MaxRetries>> /\ g[1] \in Nat)
        BY DEF Given, NotGiven
      <3>. QED  BY <3>1, <3>2, <3>3
    <2>2. docs \in [Events -> [status : Statuses \cup {"absent"}, retry_count : Nat,
                               decision : Actions \cup {""}, given : Seq(Nat)]]
      BY <2>1 DEF TypeInv, CollectionTypes, DocType
    <2>3. calls \in [Callers -> Call_]
      <3>1. CallType \subseteq Call_
        BY <2>1 DEF CallType, Call_
      <3>. QED  BY <3>1 DEF TypeInv, CollectionTypes
    <2>4. sendRetry \in Seq(RetryCommand)
      <3>1. RetryRecord \subseteq RetryCommand
        BY ProcessorAssumption DEF RetryRecord, RetryCommand
      <3>. QED  BY <3>1 DEF TypeInv, RetryLoopInv
    <2>5. rawHandled \subseteq Nat /\ retryHandled \subseteq Nat
      BY DEF TypeInv, RawLoopInv, RetryLoopInv
    <2>6. sendFailed \in Seq([command : CommandIds, retry_count : Nat,
                              max_retries : {MaxRetries}, failure_type : {"unknown"},
                              retryable : {"yes"}])
      <3>. DEFINE Own == [command : CommandIds, retry_count : Nat,
                          max_retries : {MaxRetries}, failure_type : {"unknown"},
                          retryable : {"yes"}]
      <3>1. sendFailed \in Seq(FailureReport)
        BY DEF TypeInv, ServiceTypes
      <3>2. ASSUME NEW f \in FailureReport, f.failure_type = "unknown", f.retryable = "yes"
            PROVE  f \in Own
        BY <3>2 DEF FailureReport
      <3>3. \A j \in 1..Len(sendFailed) : sendFailed[j] \in FailureReport
        BY <3>1
      <3>4. \A j \in 1..Len(sendFailed) : sendFailed[j] \in Own
        BY <3>1, <3>2, <3>3 DEF OwnReports
      <3>. HIDE DEF Own
      <3>5. sendFailed \in Seq(Own)
        BY <3>1, <3>4
      <3>. QED  BY <3>5 DEF Own
    <2>. QED
      BY <2>2, <2>3, <2>4, <2>5, <2>6 DEF TypeInv, CollectionTypes, RawLoopInv,
         RetryLoopInv, ServiceTypes, TypeOK, LogStatuses, ReplyCommand
  <1>2. Init => OwnReports
    BY DEF Init, OwnReports
  <1>. QED  BY <1>1, <1>2, TypeInvInductive, OwnReportsKept, PTL DEF Spec

-----------------------------------------------------------------------------
(* A status, and a log, never ahead of what it tells *)

CommandOn(topic, k) == \E i \in DOMAIN topic : topic[i].command = k

\* What a call has done by the time it says so: the log is written before the
\* command goes out, the command before its log is queued, and the command or
\* the review before the document is saved.
CallBacked(a) ==
    /\ At(a, "publish") => logs[Key(a)] # "absent"
    /\ At(a, "log_queued") => CommandOn(replyCommands, Key(a))
    /\ At(a, "save") =>
          /\ calls[a].final_status = "action_queued" =>
                About(replyCommands, calls[a].event) # {}
          /\ calls[a].final_status = "review_pending" => reviews[calls[a].event] > 0

StatusInv == StatusIsBacked /\ CommandIsLogged /\ \A a \in Callers : CallBacked(a)

(* What decide() may return, and what process() does with it. *)
LEMMA DecideChooses ==
    ASSUME NEW a \in Callers, Decide(a)
    PROVE  \E d \in Decisions, pc \in {"find_success", "save"}, fs \in {"ignored", "processed"} :
              calls' = [calls EXCEPT ![a].decision = d, ![a].pc = pc, ![a].final_status = fs]
  <1>1. PICK d \in Decisions :
           calls' = [calls EXCEPT
              ![a].decision = d,
              ![a].pc = IF d.should_execute THEN "find_success" ELSE "save",
              ![a].final_status =
                  IF d.action_type = "ignore" THEN "ignored" ELSE "processed"]
    BY DEF Decide
  <1>. DEFINE pc == IF d.should_execute THEN "find_success" ELSE "save"
              fs == IF d.action_type = "ignore" THEN "ignored" ELSE "processed"
  <1>. WITNESS d \in Decisions, pc \in {"find_success", "save"},
               fs \in {"ignored", "processed"}
  <1>. QED  BY <1>1

(* The steps of process() at each of its operations, without their data. *)
LEMMA ProcessChanges ==
    ASSUME CollectionTypes, NEW a \in Callers,
           ProcessStep(a) \/ DecideFails(a) \/ PublishFails(a) \/ ProcessRaises(a)
    PROVE  /\ \A b \in Callers : b # a => calls'[b] = calls[b]
           /\ calls'[a].event = calls[a].event /\ calls'[a].given = calls[a].given
           /\ ~At(a, "decide") => Key(a)' = Key(a)
  <1>. USE DEF CollectionTypes, CallType
  <1>1. CASE FindNew(a) \/ CreateDuplicateKey(a) \/ DecideFails(a) \/ FindLog(a)
                \/ LogDuplicateKey(a) \/ ProcessRaises(a) \/ MarkRetrying(a) \/ Create(a)
                \/ LogPending(a) \/ Publish(a) \/ PublishFails(a)
    <2>1. PICK pc : Goto(a, pc)
      BY <1>1 DEF FindNew, CreateDuplicateKey, DecideFails, FindLog, LogDuplicateKey,
         ProcessRaises, MarkRetrying, Create, LogPending, Publish, PublishFails, Throw
    <2>. QED  BY <2>1 DEF Goto, Key
  <1>2. CASE FindDuplicate(a)
    BY <1>2 DEF FindDuplicate, Key
  <1>3. CASE FindRetry(a)
    BY <1>3 DEF FindRetry, Key
  <1>4. CASE Reread(a)
    BY <1>4 DEF Reread, Key
  <1>5. CASE Decide(a)
    <2>1. PICK d \in Decisions, pc \in {"find_success", "save"}, fs \in {"ignored", "processed"} :
             calls' = [calls EXCEPT ![a].decision = d, ![a].pc = pc, ![a].final_status = fs]
      BY <1>5, DecideChooses
    <2>2. At(a, "decide")
      BY <1>5 DEF Decide
    <2>. QED  BY <2>1, <2>2
  <1>6. CASE SaveFailure(a)
    BY <1>6 DEF SaveFailure, Key
  <1>7. ASSUME NEW status, Executed(a, status)
        PROVE  /\ \A b \in Callers : b # a => calls'[b] = calls[b]
               /\ calls'[a].event = calls[a].event /\ calls'[a].given = calls[a].given
               /\ Key(a)' = Key(a)
    BY <1>7 DEF Executed, Key
  <1>8. CASE FindSuccess(a)
    <2>1. Executed(a, "success") \/ Goto(a, "find_log")
      BY <1>8 DEF FindSuccess
    <2>2. CASE Goto(a, "find_log")
      BY <2>2 DEF Goto, Key
    <2>. QED  BY <1>7, <2>1, <2>2
  <1>9. CASE LogSkipped(a) \/ LogEscalated(a) \/ LogQueued(a) \/ LogFailed(a)
    BY <1>7, <1>9 DEF LogSkipped, LogEscalated, LogQueued, LogFailed, LogOutcome
  <1>10. CASE CreateReview(a)
    BY <1>10 DEF CreateReview, Key
  <1>11. CASE Save(a)
    BY <1>11 DEF Save, Key
  <1>. QED
    BY <1>1, <1>2, <1>3, <1>4, <1>5, <1>6, <1>8, <1>9, <1>10, <1>11 DEF ProcessStep

(* How process() ends the execution of an action. *)
LEMMA ExecutedEnds ==
    ASSUME CollectionTypes, NEW a \in Callers, NEW status, Executed(a, status)
    PROVE  /\ calls'[a].pc \in {"review", "save"}
           /\ calls'[a].final_status = "action_queued" => status = "queued"
           /\ calls'[a].final_status # "review_pending"
           /\ calls'[a].final_status = "failed" => status = "failed"
  BY DEF CollectionTypes, CallType, Executed

(* Nothing that has gone out, or that was written to a log, is taken back. *)
LEMMA EffectsStay ==
    ASSUME CollectionTypes, NEW a \in Callers,
           ProcessStep(a) \/ DecideFails(a) \/ PublishFails(a) \/ ProcessRaises(a)
    PROVE  /\ \A k \in Keys : logs[k] # "absent" => logs'[k] # "absent"
           /\ Grows(replyCommands, replyCommands')
           /\ \A e \in Events : reviews[e] <= reviews'[e]
  <1>. DEFINE Stay ==
            /\ \A k \in Keys : logs[k] # "absent" => logs'[k] # "absent"
            /\ Grows(replyCommands, replyCommands')
            /\ \A e \in Events : reviews[e] <= reviews'[e]
  <1>1. /\ logs \in [Keys -> LogStatuses]
        /\ reviews \in [Events -> Nat]
        /\ replyCommands \in Seq(ReplyCommand)
        /\ Key(a) \in Keys /\ calls[a].event \in Events
    BY KeyTyped DEF CollectionTypes
  <1>2. Grows(replyCommands, replyCommands)
    BY <1>1 DEF Grows
  <1>3. ASSUME UNCHANGED <<logs, reviews, replyCommands>> PROVE Stay
    BY <1>1, <1>2, <1>3
  <1>4. ASSUME NEW status, status # "absent", logs' = [logs EXCEPT ![Key(a)] = status],
               UNCHANGED <<reviews, replyCommands>>
        PROVE  Stay
    BY <1>1, <1>2, <1>4
  <1>5. CASE LogPending(a) \/ LogSkipped(a) \/ LogEscalated(a) \/ LogQueued(a) \/ LogFailed(a)
    BY <1>4, <1>5 DEF LogPending, LogSkipped, LogEscalated, LogQueued, LogFailed, LogOutcome
  <1>6. CASE Publish(a) \/ PublishFails(a)
    <2>1. Command(a) \in ReplyCommand
      BY <1>6, CommandTyped DEF Publish, PublishFails
    <2>2. Grows(replyCommands, Append(replyCommands, Command(a)))
      BY <1>1, <2>1 DEF Grows
    <2>3. replyCommands' \in {replyCommands, Append(replyCommands, Command(a))}
      BY <1>6 DEF Publish, PublishFails
    <2>4. UNCHANGED <<logs, reviews>>
      BY <1>6 DEF Publish, PublishFails
    <2>5. Grows(replyCommands, replyCommands')
      BY <1>2, <2>2, <2>3
    <2>. QED  BY <1>1, <2>4, <2>5
  <1>7. CASE CreateReview(a)
    <2>1. PICK e \in Events : e = calls[a].event
      BY <1>1
    <2>2. reviews' = [reviews EXCEPT ![e] = reviews[e] + 1]
      BY <1>7, <2>1 DEF CreateReview
    <2>3. \A f \in Events : reviews[f] <= reviews'[f]
      BY <1>1, <2>2
    <2>. QED  BY <1>2, <1>7, <2>3 DEF CreateReview
  <1>. QED
    BY <1>3, <1>5, <1>6, <1>7
    DEF ProcessStep, FindNew, FindDuplicate, FindRetry, MarkRetrying, Reread, Create,
        CreateDuplicateKey, Decide, SaveFailure, FindSuccess, FindLog, LogDuplicateKey,
        Save, DecideFails, ProcessRaises, collections

(* A command that is out stays out, and is about its event. *)
LEMMA CommandsStay ==
    ASSUME CollectionTypes, CollectionTypes', Grows(replyCommands, replyCommands')
    PROVE  /\ \A k : CommandOn(replyCommands, k) => CommandOn(replyCommands', k)
           /\ \A e : About(replyCommands, e) # {} => About(replyCommands', e) # {}
           /\ \A k : CommandOn(replyCommands, k) => About(replyCommands, EventOf(k)) # {}
  <1>1. /\ DOMAIN replyCommands \subseteq DOMAIN replyCommands'
        /\ \A i \in DOMAIN replyCommands : replyCommands'[i] = replyCommands[i]
    BY DEF CollectionTypes, Grows
  <1>. QED  BY <1>1 DEF CommandOn, About

(* process() keeps statuses and logs behind what they tell. *)
LEMMA ProcessBacked ==
    ASSUME CollectionTypes, CollectionTypes', StatusInv, NEW a \in Callers,
           ProcessStep(a) \/ DecideFails(a) \/ PublishFails(a) \/ ProcessRaises(a)
    PROVE  StatusInv'
  <1>. DEFINE e == calls[a].event
              k == Key(a)
  <1>1. /\ \A l \in Keys : logs[l] # "absent" => logs'[l] # "absent"
        /\ Grows(replyCommands, replyCommands')
        /\ \A f \in Events : reviews[f] <= reviews'[f]
    BY EffectsStay
  <1>2. /\ \A l : CommandOn(replyCommands, l) => CommandOn(replyCommands', l)
        /\ \A f : About(replyCommands, f) # {} => About(replyCommands', f) # {}
        /\ \A l : CommandOn(replyCommands, l) => About(replyCommands, EventOf(l)) # {}
    BY <1>1, CommandsStay
  <1>3. /\ docs \in [Events -> DocType]
        /\ logs \in [Keys -> LogStatuses]
        /\ reviews \in [Events -> Nat] /\ reviews' \in [Events -> Nat]
        /\ calls \in [Callers -> CallType]
        /\ e \in Events /\ k \in Keys /\ EventOf(k) = e
    BY KeyTyped DEF CollectionTypes
  <1>4. /\ \A b \in Callers : b # a => calls'[b] = calls[b]
        /\ calls'[a].event = e
        /\ ~At(a, "decide") => Key(a)' = k
    BY ProcessChanges
  <1>5. \A f \in Events : reviews[f] > 0 => reviews'[f] > 0
    BY <1>1, <1>3
  <1>6. \A b \in Callers : b # a => CallBacked(b)'
    <2>. SUFFICES ASSUME NEW b \in Callers, b # a PROVE CallBacked(b)'
      OBVIOUS
    <2>1. calls'[b] = calls[b] /\ Key(b)' = Key(b) /\ Key(b) \in Keys /\ calls[b].event \in Events
      BY <1>4, KeyTyped DEF Key
    <2>. QED  BY <1>1, <1>2, <1>5, <2>1 DEF CallBacked, At, StatusInv
  <1>7. ASSUME \A f \in Events : docs'[f].status \in {docs[f].status, "retrying", "received", "failed"},
               \A l \in Keys : logs'[l] = "queued" => CommandOn(replyCommands', l),
               \A i \in DOMAIN replyCommands' : logs'[replyCommands'[i].command] # "absent",
               CallBacked(a)'
        PROVE  StatusInv'
    <2>1. StatusIsBacked'
      BY <1>2, <1>5, <1>7 DEF StatusIsBacked, StatusInv, CommandOn
    <2>. QED  BY <1>6, <1>7, <2>1 DEF StatusInv, CommandIsLogged
  <1>8. \A l \in Keys : logs[l] = "queued" => CommandOn(replyCommands', l)
    BY <1>2 DEF StatusInv, StatusIsBacked, CommandOn
  <1>9. UNCHANGED replyCommands =>
           \A i \in DOMAIN replyCommands' : logs'[replyCommands'[i].command] # "absent"
    <2>1. \A i \in DOMAIN replyCommands : replyCommands[i].command \in Keys
      <3>1. \A i \in DOMAIN replyCommands : replyCommands[i] \in ReplyCommand
        BY DEF CollectionTypes
      <3>. QED  BY <3>1 DEF ReplyCommand
    <2>. QED  BY <1>1, <2>1 DEF StatusInv, CommandIsLogged
  <1>10. calls'[a].pc \notin {"publish", "log_queued", "save"} => CallBacked(a)'
    BY DEF CallBacked, At
  <1>11. CASE FindNew(a) \/ CreateDuplicateKey(a) \/ DecideFails(a) \/ FindLog(a)
                 \/ LogDuplicateKey(a) \/ ProcessRaises(a) \/ FindDuplicate(a)
                 \/ FindRetry(a) \/ Reread(a)
    <2>1. UNCHANGED collections
      BY <1>11 DEF FindNew, CreateDuplicateKey, DecideFails, FindLog, LogDuplicateKey,
         ProcessRaises, FindDuplicate, FindRetry, Reread
    <2>2. calls'[a].pc \notin {"publish", "log_queued", "save"}
      <3>1. CASE FindDuplicate(a)
        BY <1>3, <3>1 DEF FindDuplicate, CallType
      <3>2. CASE FindRetry(a)
        BY <1>3, <3>2 DEF FindRetry, CallType
      <3>3. CASE Reread(a)
        BY <1>3, <3>3 DEF Reread, CallType
      <3>4. CASE \E pc \in {"create", "raised", "save_failure", "insert_log", "update_log"} :
                    Goto(a, pc)
        BY <1>3, <3>4 DEF Goto, CallType
      <3>. QED
        BY <1>11, <3>1, <3>2, <3>3, <3>4 DEF FindNew, CreateDuplicateKey, DecideFails,
           FindLog, LogDuplicateKey, ProcessRaises, Throw
    <2>. QED  BY <1>7, <1>8, <1>9, <1>10, <2>1, <2>2 DEF collections
  <1>12. CASE MarkRetrying(a) \/ Create(a) \/ SaveFailure(a)
    <2>1. UNCHANGED <<logs, reviews, replyCommands>>
      BY <1>12 DEF MarkRetrying, Create, SaveFailure
    <2>2. calls'[a].pc \notin {"publish", "log_queued", "save"}
      <3>1. CASE SaveFailure(a)
        BY <1>3, <3>1 DEF SaveFailure, CallType
      <3>2. CASE \E pc \in {"reread", "decide"} : Goto(a, pc)
        BY <1>3, <3>2 DEF Goto, CallType
      <3>. QED  BY <1>12, <3>1, <3>2 DEF MarkRetrying, Create
    <2>3. \A f \in Events : docs'[f].status \in {docs[f].status, "retrying", "received", "failed"}
      <3>1. CASE MarkRetrying(a)
        BY <1>3, <3>1 DEF MarkRetrying, DocType
      <3>2. CASE Create(a)
        BY <1>3, <3>2 DEF Create, DocType
      <3>3. CASE SaveFailure(a)
        BY <1>3, <3>3 DEF SaveFailure, DocType
      <3>. QED  BY <1>12, <3>1, <3>2, <3>3
    <2>. QED  BY <1>7, <1>8, <1>9, <1>10, <2>1, <2>2, <2>3
  <1>13. CASE Decide(a)
    <2>1. PICK d \in Decisions, pc \in {"find_success", "save"}, fs \in {"ignored", "processed"} :
             calls' = [calls EXCEPT ![a].decision = d, ![a].pc = pc, ![a].final_status = fs]
      BY <1>13, DecideChooses
    <2>2. calls'[a].pc = pc /\ calls'[a].final_status = fs
      BY <1>3, <2>1 DEF CallType
    <2>3. CallBacked(a)'
      BY <2>2 DEF CallBacked, At
    <2>. QED  BY <1>7, <1>8, <1>9, <1>13, <2>3 DEF Decide, collections
  <1>14. ASSUME NEW status, Executed(a, status),
                status = "queued" => About(replyCommands', e) # {}
         PROVE  CallBacked(a)'
    BY <1>4, <1>14, ExecutedEnds DEF CallBacked, At
  <1>15. CASE FindSuccess(a)
    <2>1. CallBacked(a)'
      <3>1. CASE Executed(a, "success")
        BY <1>14, <3>1
      <3>2. CASE Goto(a, "find_log")
        BY <1>3, <1>10, <3>2 DEF Goto, CallType
      <3>. QED  BY <1>15, <3>1, <3>2 DEF FindSuccess
    <2>. QED  BY <1>7, <1>8, <1>9, <1>15, <2>1 DEF FindSuccess, collections
  <1>16. CASE LogPending(a)
    <2>1. logs' = [logs EXCEPT ![k] = "pending"] /\ UNCHANGED <<docs, reviews, replyCommands>>
      BY <1>16 DEF LogPending
    <2>2. logs'[k] = "pending" /\ Key(a)' = k
      BY <1>3, <1>4, <1>16, <2>1 DEF LogPending, At
    <2>3. calls'[a].pc \in {"publish", "log_skipped", "log_escalated"}
      BY <1>3, <1>16 DEF LogPending, Goto, CallType
    <2>4. CallBacked(a)'
      BY <2>2, <2>3 DEF CallBacked, At
    <2>5. \A l \in Keys : logs'[l] = "queued" => CommandOn(replyCommands', l)
      BY <1>3, <1>8, <2>1
    <2>. QED  BY <1>7, <1>9, <2>1, <2>4, <2>5
  <1>17. CASE LogSkipped(a) \/ LogEscalated(a) \/ LogFailed(a)
    <2>1. PICK status \in {"skipped", "success", "failed"}, result \in {"skipped", "success", "failed"} :
             logs' = [logs EXCEPT ![k] = status] /\ Executed(a, result)
      BY <1>17 DEF LogSkipped, LogEscalated, LogFailed, LogOutcome
    <2>2. UNCHANGED <<docs, reviews, replyCommands>>
      BY <1>17 DEF LogSkipped, LogEscalated, LogFailed, LogOutcome
    <2>3. CallBacked(a)'
      BY <1>14, <2>1
    <2>4. \A l \in Keys : logs'[l] = "queued" => CommandOn(replyCommands', l)
      BY <1>3, <1>8, <2>1
    <2>. QED  BY <1>7, <1>9, <2>2, <2>3, <2>4
  <1>18. CASE LogQueued(a)
    <2>1. /\ logs' = [logs EXCEPT ![k] = "queued"]
          /\ Executed(a, "queued")
          /\ UNCHANGED <<docs, reviews, replyCommands>>
          /\ At(a, "log_queued")
      BY <1>18 DEF LogQueued, LogOutcome
    <2>2. CommandOn(replyCommands', k) /\ About(replyCommands', e) # {}
      BY <1>2, <1>3, <2>1 DEF StatusInv, CallBacked
    <2>3. CallBacked(a)'
      BY <1>14, <2>1, <2>2
    <2>4. \A l \in Keys : logs'[l] = "queued" => CommandOn(replyCommands', l)
      BY <1>3, <1>8, <2>1, <2>2
    <2>. QED  BY <1>7, <1>9, <2>1, <2>3, <2>4
  <1>19. CASE Publish(a) \/ PublishFails(a)
    <2>1. /\ replyCommands' \in {replyCommands, Append(replyCommands, Command(a))}
          /\ UNCHANGED <<docs, logs, reviews>>
          /\ At(a, "publish")
          /\ Publish(a) => replyCommands' = Append(replyCommands, Command(a))
      BY <1>19 DEF Publish, PublishFails
    <2>2. Command(a) \in ReplyCommand /\ Command(a).command = k
      BY <2>1, CommandTyped DEF Command
    <2>3. /\ DOMAIN Append(replyCommands, Command(a)) =
                 DOMAIN replyCommands \cup {Len(replyCommands) + 1}
          /\ \A i \in DOMAIN replyCommands :
                 Append(replyCommands, Command(a))[i] = replyCommands[i]
          /\ Append(replyCommands, Command(a))[Len(replyCommands) + 1] = Command(a)
      BY <2>2 DEF CollectionTypes
    <2>4. \A i \in DOMAIN replyCommands' : logs'[replyCommands'[i].command] # "absent"
      BY <2>1, <2>2, <2>3 DEF StatusInv, CommandIsLogged, CallBacked
    <2>5. CallBacked(a)'
      <3>1. CASE Publish(a)
        <4>1. calls'[a].pc = "log_queued"
          BY <1>3, <3>1 DEF Publish, Goto, CallType
        <4>2. CommandOn(replyCommands', k)
          BY <2>1, <2>2, <2>3, <3>1 DEF CommandOn
        <4>3. Key(a)' = k
          BY <1>4, <2>1 DEF At
        <4>. QED  BY <4>1, <4>2, <4>3 DEF CallBacked, At
      <3>2. CASE PublishFails(a)
        BY <1>3, <1>10, <3>2 DEF PublishFails, Goto, CallType
      <3>. QED  BY <1>19, <3>1, <3>2
    <2>. QED  BY <1>7, <1>8, <2>1, <2>4, <2>5
  <1>20. CASE CreateReview(a)
    <2>1. /\ UNCHANGED <<docs, logs, replyCommands>>
          /\ reviews' = [reviews EXCEPT ![e] = reviews[e] + 1]
          /\ calls' = [calls EXCEPT ![a].pc = "save", ![a].final_status = "review_pending"]
      BY <1>20 DEF CreateReview
    <2>2. reviews'[e] > 0
      BY <1>3, <2>1
    <2>3. calls'[a].pc = "save" /\ calls'[a].final_status = "review_pending"
      BY <1>3, <2>1 DEF CallType
    <2>4. CallBacked(a)'
      BY <1>4, <2>2, <2>3 DEF CallBacked, At
    <2>. QED  BY <1>7, <1>8, <1>9, <2>1, <2>4
  <1>21. CASE Save(a)
    <2>1. /\ UNCHANGED <<logs, reviews, replyCommands>>
          /\ At(a, "save")
          /\ \A f \in Events : docs'[f].status =
                IF f = e THEN calls[a].final_status ELSE docs[f].status
      BY <1>3, <1>21 DEF Save, DocType
    <2>2. calls'[a].pc = "done"
      BY <1>3, <1>21 DEF Save, CallType
    <2>3. \A f \in Events :
             /\ docs'[f].status = "action_queued" => About(replyCommands', f) # {}
             /\ docs'[f].status = "review_pending" => reviews'[f] > 0
      BY <1>2, <1>5, <2>1 DEF StatusInv, StatusIsBacked, CallBacked
    <2>4. StatusIsBacked'
      BY <1>8, <2>1, <2>3 DEF StatusIsBacked, CommandOn
    <2>. QED  BY <1>6, <1>9, <1>10, <2>1, <2>2, <2>4 DEF StatusInv, CommandIsLogged
  <1>. QED
    BY <1>11, <1>12, <1>13, <1>15, <1>16, <1>17, <1>18, <1>19, <1>20, <1>21 DEF ProcessStep

(* A caller's own step begins or ends a call; of the collections it changes at
   most a document, which it marks for a retry. *)
LEMMA CallerSteps ==
    ASSUME TypeInv, [Next]_vars
    PROVE  \/ Processes
           \/ /\ UNCHANGED <<logs, reviews, replyCommands>>
              /\ \A b \in Callers : calls'[b] = calls[b] \/ calls'[b].pc \in {"idle", "find"}
              /\ \A e \in Events : docs'[e].status \in {docs[e].status, "retrying", "send_failed"}
  <1>. DEFINE Quiet ==
            /\ UNCHANGED <<logs, reviews, replyCommands>>
            /\ \A b \in Callers : calls'[b] = calls[b] \/ calls'[b].pc \in {"idle", "find"}
            /\ \A e \in Events : docs'[e].status \in {docs[e].status, "retrying", "send_failed"}
  <1>1. /\ calls \in [Callers -> CallType]
        /\ docs \in [Events -> DocType]
    BY DEF TypeInv, CollectionTypes
  <1>2. ASSUME NEW a, Hangup(a) \/ (\E e, f, g : Call(a, e, f, g)) \/ UNCHANGED calls
        PROVE  \A b \in Callers : calls'[b] = calls[b] \/ calls'[b].pc \in {"idle", "find"}
    <2>1. CASE Hangup(a)
      BY <1>1, <2>1, IdleTyped DEF Hangup
    <2>2. ASSUME NEW e, NEW f, NEW g, Call(a, e, f, g)
          PROVE  \A b \in Callers : calls'[b] = calls[b] \/ calls'[b].pc \in {"idle", "find"}
      <3>1. NoCall(e, f, g).pc = "find"
        BY DEF NoCall
      <3>. QED  BY <1>1, <2>2, <3>1 DEF Call
    <2>. QED  BY <1>2, <2>1, <2>2
  <1>3. ASSUME NEW a, Hangup(a) \/ (\E e, f, g : Call(a, e, f, g)) \/ UNCHANGED calls,
               UNCHANGED collections
        PROVE  Quiet
    BY <1>2, <1>3 DEF collections
  <1>4. ASSUME NEW e, NEW status \in {"retrying", "send_failed"}, NEW n, MarkDoc(e, status, n)
        PROVE  \A f \in Events : docs'[f].status \in {docs[f].status, "retrying", "send_failed"}
    BY <1>1, <1>4 DEF MarkDoc, DocType
  <1>5. CASE WorkerRetries
    BY <1>2, <1>4, <1>5 DEF WorkerRetries
  <1>6. CASE WorkerGivesUp
    BY <1>2, <1>4, <1>6 DEF WorkerGivesUp
  <1>7. CASE WorkerBegins \/ WorkerSucceeds \/ WorkerPublishesFailure \/ WorkerFinishes
                \/ WorkerLoop \/ WorkerRaises \/ WorkerCrashes \/ WorkerRejoins
    BY <1>3, <1>7 DEF WorkerBegins, WorkerSucceeds, WorkerPublishesFailure, WorkerFinishes,
       WorkerLoop, WorkerRaises, WorkerCrashes, WorkerRejoins
  <1>8. CASE RetrierBegins \/ RetrierSucceeds \/ RetrierPublishesFailure
                \/ RetrierFinishes \/ RetrierLoop \/ RetrierAbandons
                \/ RetrierRaises \/ RetrierCrashes \/ RetrierRejoins
    BY <1>3, <1>8 DEF RetrierBegins, RetrierSucceeds, RetrierPublishesFailure,
       RetrierFinishes, RetrierLoop, RetrierAbandons, RetrierRaises, RetrierCrashes,
       RetrierRejoins
  <1>9. CASE WebAnswers \/ WebCrashes \/ (\E e \in Events : WebRetries(e))
                \/ PipelineRetries \/ (\E e \in Events : WebhookPublishes(e))
                \/ UNCHANGED vars
    BY <1>3, <1>9 DEF WebAnswers, WebCrashes, WebRetries, PipelineRetries, RetryScheduled,
       WebhookPublishes, vars, collections
  <1>. QED  BY <1>5, <1>6, <1>7, <1>8, <1>9, NextIsOneOf

(* Statuses and logs stay behind what they tell. *)
LEMMA StatusInvInductive ==
    (Init => StatusInv) /\ (TypeInv /\ TypeInv' /\ StatusInv /\ [Next]_vars => StatusInv')
  <1>1. ASSUME Init PROVE StatusInv
    <2>1. \A a \in Callers : calls[a].pc = "idle"
      BY <1>1, IdleTyped DEF Init, ProcessorInit
    <2>2. \A a \in Callers : CallBacked(a)
      BY <2>1 DEF CallBacked, At
    <2>3. (\A e \in Events : docs[e].status = "absent") /\ (\A k \in Keys : logs[k] = "absent")
      BY <1>1 DEF Init, ProcessorInit, NoDoc
    <2>4. StatusIsBacked
      BY <2>3 DEF StatusIsBacked
    <2>5. CommandIsLogged
      BY <1>1 DEF Init, ProcessorInit, CommandIsLogged
    <2>. QED  BY <2>2, <2>4, <2>5 DEF StatusInv
  <1>2. ASSUME TypeInv, TypeInv', StatusInv, [Next]_vars PROVE StatusInv'
    <2>1. CASE Processes
      BY <1>2, <2>1, ProcessBacked
      DEF Processes, Step, DecisionFailure, PublishFailure, CallRaises, TypeInv
    <2>2. ASSUME UNCHANGED <<logs, reviews, replyCommands>>,
                 \A b \in Callers : calls'[b] = calls[b] \/ calls'[b].pc \in {"idle", "find"},
                 \A e \in Events : docs'[e].status \in {docs[e].status, "retrying", "send_failed"}
          PROVE  StatusInv'
      <3>1. StatusIsBacked' /\ CommandIsLogged'
        BY <1>2, <2>2 DEF StatusInv, StatusIsBacked, CommandIsLogged
      <3>2. ASSUME NEW b \in Callers PROVE CallBacked(b)'
        BY <1>2, <2>2 DEF StatusInv, CallBacked, At, Key
      <3>. QED  BY <3>1, <3>2 DEF StatusInv
    <2>. QED  BY <1>2, <2>1, <2>2, CallerSteps
  <1>. QED  BY <1>1, <1>2

(* A document never says action_queued or review_pending, nor a log queued,
   before the command or the review is out: whichever of the three callers
   overwrites the other's document, and wherever they crash or raise. *)
THEOREM StatusesAreBacked == Spec => []StatusIsBacked
  BY TypeInvInductive, StatusInvInductive, PTL DEF Spec, StatusInv

(* No command leaves the service without an action log under its command id. *)
THEOREM CommandsAreLogged == Spec => []CommandIsLogged
  BY TypeInvInductive, StatusInvInductive, PTL DEF Spec, StatusInv
=============================================================================
