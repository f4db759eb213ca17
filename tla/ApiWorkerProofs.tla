-------------------------- MODULE ApiWorkerProofs --------------------------
(***************************************************************************)
(* What api-worker keeps for every set of commands and answers, every      *)
(* batch size and every number of crashes, rejoins and exceptions.         *)
(***************************************************************************)
EXTENDS ApiWorker, FiniteSetTheorems, TLAPS

KafkaFacts == INSTANCE KafkaConsumerProofs WITH
                  Records <- Commands \cup {Malformed, NonObject}, log <- replyCommands

-----------------------------------------------------------------------------
(* The loop: KafkaConsumerProofs, for the topic reply_commands. *)

Record == Commands \cup {Malformed, NonObject}

\* Types and order of the loop's variables.
LoopInv ==
    /\ replyCommands \in Seq(Record)
    /\ consumer \in Kafka!ConsumerType
    /\ handled \subseteq 1..Len(replyCommands)
    /\ Kafka!OffsetOrder

LoopStep ==
    \/ Kafka!Start \/ Kafka!Poll \/ Kafka!Finish \/ Kafka!Commit
    \/ Kafka!Raise \/ Kafka!Rejoin \/ Kafka!Crash
    \/ \E r \in Record : Kafka!Produce(r)

\* A topic is only appended to.
Grows(s, t) == Len(s) <= Len(t) /\ \A i \in 1..Len(s) : t[i] = s[i]

(* The two instances of the loop speak of the same variables. *)
LEMMA LoopInvSame == (LoopInv <=> KafkaFacts!LoopInv) /\ (LoopInv' <=> KafkaFacts!LoopInv')
  BY DEF LoopInv, KafkaFacts!LoopInv, Record, Kafka!ConsumerType,
         KafkaFacts!ConsumerType, Kafka!OffsetOrder, KafkaFacts!OffsetOrder

(* Every step of the loop keeps its types and the order of its offsets. *)
LEMMA LoopStepKeeps ==
    ASSUME LoopInv, LoopStep \/ UNCHANGED <<replyCommands, consumer, handled>>
    PROVE  LoopInv' /\ Grows(replyCommands, replyCommands')
  <1>1. LoopStep => KafkaFacts!LoopStep
    BY DEF LoopStep, KafkaFacts!LoopStep, KafkaFacts!OrderlyStep, KafkaFacts!Published, Record,
       Kafka!Start, Kafka!Poll, Kafka!Finish, Kafka!Commit, Kafka!Raise, Kafka!Rejoin,
       Kafka!Crash, Kafka!Produce, KafkaFacts!Start, KafkaFacts!Poll, KafkaFacts!Finish,
       KafkaFacts!Commit, KafkaFacts!Raise, KafkaFacts!Rejoin, KafkaFacts!Crash,
       KafkaFacts!Produce, Kafka!HasRecord, KafkaFacts!HasRecord
  <1>2. KafkaFacts!ConsumerAssumption
    BY ApiAssumption DEF KafkaFacts!ConsumerAssumption, KafkaFacts!Faults
  <1>3. KafkaFacts!LoopInv' /\ KafkaFacts!Grows(replyCommands, replyCommands')
    BY <1>1, <1>2, LoopInvSame, KafkaFacts!LoopStepKeeps
  <1>. QED  BY <1>3, LoopInvSame DEF Grows, KafkaFacts!Grows

(* The record that comes next is one of the topic's. *)
LEMMA CurrentIsRecord ==
    ASSUME LoopInv, Kafka!HasRecord
    PROVE  /\ offset \in 1..Len(replyCommands)
           /\ message = replyCommands[offset]
           /\ message \in Record
  <1>1. /\ KafkaFacts!HasRecord /\ KafkaFacts!ConsumerAssumption
    BY ApiAssumption DEF Kafka!HasRecord, KafkaFacts!HasRecord,
       KafkaFacts!ConsumerAssumption, KafkaFacts!Faults
  <1>2. offset \in 1..Len(replyCommands) /\ KafkaFacts!Current \in Record
    BY <1>1, LoopInvSame, KafkaFacts!CurrentIsRecord DEF offset, Record
  <1>. QED  BY <1>2 DEF message, offset, Kafka!Current, KafkaFacts!Current

(* The end of an iteration moves on by one record, and remembers it. *)
LEMMA FinishMoves ==
    ASSUME LoopInv, Kafka!Finish
    PROVE  /\ consumer' \in Kafka!ConsumerType
           /\ consumer'.mode = "batch"
           /\ consumer'.committed = consumer.committed
           /\ consumer'.position = consumer.position
           /\ consumer'.next = offset
           /\ handled' = handled \cup {offset}
           /\ replyCommands' = replyCommands
  BY DEF LoopInv, Kafka!Finish, Kafka!HasRecord, Kafka!ConsumerType, offset

(* The worker's steps, as steps of its loop. *)
LEMMA NextIsLoopStep ==
    [Next]_vars => LoopStep \/ UNCHANGED <<replyCommands, consumer, handled>>
  BY DEF Next, Worker, vars, SkipMalformed, NonObjectRaises, Succeed, HttpError,
     Unreachable, SilenceEscapes, SilenceReported, Refuse, PublishFailure, Return,
     Loop, Raise, Rejoin, Crash, Abandon, Produce, LoopStep, Record

-----------------------------------------------------------------------------
(* Types *)

\* Types of what the loop does not have.
LocalTypes ==
    /\ Len(replyCommands) <= MaxRecords
    /\ sendFailed \in Seq(Report)
    /\ executed \in [1..MaxRecords -> Nat]
    /\ step \in {"idle", "publish", "return"}
    /\ faults \in Nat

\* process() runs on a record of the batch that validated.
InProcess == step # "idle" => Kafka!HasRecord /\ message \in Commands

TypeInv == LoopInv /\ LocalTypes /\ InProcess

(* A command executed or reported is at an offset of the topic. *)
LEMMA CurrentIsCommand ==
    ASSUME TypeInv, Executes \/ (Kafka!HasRecord /\ step # "idle")
    PROVE  /\ offset \in 1..MaxRecords /\ offset \in 1..Len(replyCommands)
           /\ message = replyCommands[offset]
           /\ message \in Commands /\ message \in Command
  <1>1. Kafka!HasRecord /\ message \in Commands
    BY DEF TypeInv, InProcess, Executes, ReadyFor
  <1>2. offset \in 1..Len(replyCommands) /\ message = replyCommands[offset]
    BY <1>1, CurrentIsRecord DEF TypeInv
  <1>3. offset \in 1..MaxRecords
    BY <1>2, ApiAssumption DEF TypeInv, LocalTypes, LoopInv
  <1>. QED  BY <1>1, <1>2, <1>3, ApiAssumption

(* An action counts once, at its command's offset, or not at all. *)
LEMMA Effects ==
    ASSUME TypeInv, offset \in 1..MaxRecords, MayTakeEffect
    PROVE  /\ executed' \in [1..MaxRecords -> Nat]
           /\ \A i \in 1..MaxRecords :
                 /\ executed[i] <= executed'[i]
                 /\ executed'[i] <= executed[i] + 1
                 /\ i # offset => executed'[i] = executed[i]
           /\ TakesEffect => executed'[offset] = executed[offset] + 1
  <1>1. executed \in [1..MaxRecords -> Nat]
    BY DEF TypeInv, LocalTypes
  <1>2. CASE TakesEffect
    <2>1. executed[offset] + 1 \in Nat
      BY <1>1
    <2>2. /\ executed' \in [1..MaxRecords -> Nat]
          /\ executed'[offset] = executed[offset] + 1
          /\ \A i \in 1..MaxRecords : i # offset => executed'[i] = executed[i]
      BY <1>1, <1>2, <2>1 DEF TakesEffect
    <2>3. \A i \in 1..MaxRecords :
              executed[i] <= executed'[i] /\ executed'[i] <= executed[i] + 1
      BY <1>1, <2>2
    <2>. QED  BY <2>2, <2>3
  <1>3. CASE UNCHANGED executed /\ ~TakesEffect
    BY <1>1, <1>3
  <1>. QED  BY <1>2, <1>3 DEF MayTakeEffect

(* Only the call at hand changes what was executed. *)
LEMMA CallChanges ==
    ASSUME Succeed \/ HttpError \/ Unreachable \/ SilenceEscapes \/ SilenceReported
    PROVE  /\ Executes /\ MayTakeEffect
           /\ UNCHANGED <<replyCommands, sendFailed, handled, faults>>
           /\ \/ step' = "return" /\ TakesEffect /\ UNCHANGED consumer
              \/ step' = step /\ Kafka!Raise
              \/ step' = "publish" /\ UNCHANGED consumer
  BY DEF Succeed, HttpError, Unreachable, SilenceEscapes, SilenceReported, Refuse,
     MayTakeEffect, Kafka!Raise

(* What a failed command is reported as is a message of send_failed. *)
LEMMA FailureIsReport ==
    ASSUME NEW m \in Command, NEW e
    PROVE  FailureOf(m, e) \in Report
  <1>1. FailureType(e) \in RETRYABLE_FAILURE_TYPES \cup NON_RETRYABLE_FAILURE_TYPES
    BY DEF FailureType, RETRYABLE_FAILURE_TYPES, NON_RETRYABLE_FAILURE_TYPES,
       RETRYABLE_STATUS_CODES, NON_RETRYABLE_STATUS_CODES
  <1>. QED  BY <1>1, ApiAssumption DEF FailureOf, Report, Command

(* The table of classify_facebook_failure agrees with retry-service's, for
   whatever error. *)
LEMMA VerdictMatchesType ==
    ASSUME NEW e
    PROVE  IsRetryable(e) <=> FailureType(e) \in RETRYABLE_FAILURE_TYPES
  <1>1. CASE e.status_code \in RETRYABLE_STATUS_CODES
    BY <1>1 DEF IsRetryable, FailureType, RETRYABLE_FAILURE_TYPES,
       RETRYABLE_STATUS_CODES, NON_RETRYABLE_STATUS_CODES
  <1>2. CASE e.status_code \in NON_RETRYABLE_STATUS_CODES
    BY <1>2 DEF IsRetryable, FailureType, RETRYABLE_FAILURE_TYPES,
       RETRYABLE_STATUS_CODES, NON_RETRYABLE_STATUS_CODES
  <1>3. CASE e.status_code \notin RETRYABLE_STATUS_CODES \cup NON_RETRYABLE_STATUS_CODES
    BY <1>3 DEF IsRetryable, FailureType, RETRYABLE_FAILURE_TYPES,
       RETRYABLE_STATUS_CODES, NON_RETRYABLE_STATUS_CODES
  <1>. QED  BY <1>1, <1>2, <1>3

(* Appending keeps what a sequence holds and puts the element behind it. *)
LEMMA AppendFacts ==
    ASSUME NEW S, NEW s \in Seq(S), NEW e \in S
    PROVE  /\ Append(s, e) \in Seq(S)
           /\ Len(Append(s, e)) = Len(s) + 1
           /\ \A i \in 1..Len(s) : Append(s, e)[i] = s[i]
           /\ Append(s, e)[Len(s) + 1] = e
  OBVIOUS

(* Every step keeps the types, and process() stays on its record. *)
LEMMA TypeInvInductive == (Init => TypeInv) /\ (TypeInv /\ [Next]_vars => TypeInv')
  <1>1. ASSUME Init PROVE TypeInv
    <2>1. LoopInv /\ InProcess
      BY <1>1 DEF Init, Kafka!Init, Kafka!InitialConsumer, LoopInv, InProcess,
         Kafka!ConsumerType, Kafka!OffsetOrder
    <2>2. LocalTypes
      BY <1>1, ApiAssumption DEF Init, Kafka!Init, LocalTypes
    <2>. QED  BY <2>1, <2>2 DEF TypeInv
  <1>2. ASSUME TypeInv, [Next]_vars PROVE TypeInv'
    <2>1. LoopInv' /\ Grows(replyCommands, replyCommands')
      BY <1>2, NextIsLoopStep, LoopStepKeeps DEF TypeInv
    <2>2. Len(replyCommands) \in Nat /\ Len(replyCommands') \in Nat
      BY <1>2, <2>1 DEF TypeInv, LoopInv
    <2>. DEFINE Called == \/ Succeed \/ HttpError \/ Unreachable
                          \/ SilenceEscapes \/ SilenceReported
    <2>3. CASE Called
      <3>1. /\ Executes /\ MayTakeEffect
            /\ UNCHANGED <<replyCommands, sendFailed, handled, faults>>
            /\ \/ step' \in {"return", "publish"} /\ UNCHANGED consumer
               \/ step' = step
        BY <2>3, CallChanges
      <3>2. /\ offset \in 1..MaxRecords /\ offset \in 1..Len(replyCommands)
            /\ message \in Commands /\ Kafka!HasRecord /\ step = "idle"
        BY <1>2, <3>1, CurrentIsCommand DEF Executes, ReadyFor
      <3>3. executed' \in [1..MaxRecords -> Nat]
        BY <1>2, <3>1, <3>2, Effects
      <3>4. LocalTypes'
        BY <1>2, <3>1, <3>2, <3>3 DEF LocalTypes, TypeInv
      <3>5. InProcess'
        BY <3>1, <3>2 DEF InProcess, Kafka!HasRecord, message, Kafka!Current
      <3>. QED  BY <2>1, <3>4, <3>5 DEF TypeInv
    <2>4. CASE PublishFailure
      <3>1. Kafka!HasRecord /\ message \in Commands /\ message \in Command
        BY <1>2, <2>4, CurrentIsCommand DEF PublishFailure, ReadyFor
      <3>2. sendFailed' \in Seq(Report)
        BY <1>2, <2>4, <3>1, FailureIsReport, AppendFacts
        DEF PublishFailure, TypeInv, LocalTypes
      <3>3. LocalTypes'
        BY <1>2, <2>4, <3>2 DEF PublishFailure, LocalTypes, TypeInv
      <3>4. InProcess'
        BY <2>4, <3>1 DEF PublishFailure, InProcess, Kafka!HasRecord, message, Kafka!Current
      <3>. QED  BY <2>1, <3>3, <3>4 DEF TypeInv
    <2>5. CASE SkipMalformed \/ NonObjectRaises \/ Return \/ Loop \/ Raise \/ Rejoin \/ Crash
      <3>1. /\ UNCHANGED <<sendFailed, executed>>
            /\ replyCommands' = replyCommands
            /\ step' = "idle"
            /\ faults' \in {faults, faults + 1}
        BY <2>5 DEF SkipMalformed, NonObjectRaises, Return, Loop, Raise, Rejoin, Crash,
           Abandon, ReadyFor, local, Kafka!Finish, Kafka!Raise, Kafka!Rejoin, Kafka!Crash,
           Kafka!Fault, Kafka!Start, Kafka!Poll, Kafka!Commit
      <3>. QED  BY <1>2, <2>1, <3>1 DEF TypeInv, LocalTypes, InProcess
    <2>6. CASE Produce
      <3>1. /\ UNCHANGED <<local, step, faults, consumer>>
            /\ Len(replyCommands) < MaxRecords
            /\ \E r : replyCommands' = Append(replyCommands, r)
        BY <2>6 DEF Produce, Kafka!Produce
      <3>2. Len(replyCommands') <= MaxRecords
        BY <1>2, <2>2, <3>1, ApiAssumption DEF TypeInv, LoopInv
      <3>3. LocalTypes'
        BY <1>2, <2>1, <2>2, <3>1, <3>2 DEF TypeInv, LocalTypes, local, Grows
      <3>4. InProcess'
        <4>1. CASE step = "idle"
          BY <3>1, <4>1 DEF InProcess
        <4>2. CASE step # "idle"
          <5>1. Kafka!HasRecord /\ offset \in 1..Len(replyCommands) /\ message \in Commands
            BY <1>2, <4>2, CurrentIsCommand DEF TypeInv, InProcess
          <5>2. message' = message
            BY <2>1, <3>1, <5>1 DEF message, Kafka!Current, offset, Grows
          <5>. QED  BY <3>1, <5>1, <5>2 DEF InProcess, Kafka!HasRecord
        <4>. QED  BY <4>1, <4>2
      <3>. QED  BY <2>1, <3>3, <3>4 DEF TypeInv
    <2>7. CASE UNCHANGED vars
      BY <1>2, <2>1, <2>7 DEF vars, TypeInv, LocalTypes, InProcess, Kafka!HasRecord,
         message, Kafka!Current
    <2>. QED
      BY <1>2, <2>3, <2>4, <2>5, <2>6, <2>7 DEF Next, Worker
  <1>. QED  BY <1>1, <1>2

(* Every reachable state of api-worker has the declared types. *)
THEOREM ApiTypeCorrect == Spec => []TypeOK
  <1>1. TypeInv => TypeOK
    BY DEF TypeInv, LoopInv, LocalTypes, TypeOK, Record
  <1>. QED  BY <1>1, TypeInvInductive, PTL DEF Spec

-----------------------------------------------------------------------------
(* Nothing that was done or said is taken back. *)

(* No step rewrites a topic or a history. *)
LEMMA HistoryGrows ==
    ASSUME TypeInv, [Next]_vars
    PROVE  /\ Grows(replyCommands, replyCommands')
           /\ Grows(sendFailed, sendFailed')
           /\ \A i \in 1..MaxRecords : executed[i] <= executed'[i]
  <1>1. Grows(replyCommands, replyCommands')
    BY NextIsLoopStep, LoopStepKeeps DEF TypeInv
  <1>2. sendFailed \in Seq(Report) /\ executed \in [1..MaxRecords -> Nat]
    BY DEF TypeInv, LocalTypes
  <1>3. Grows(sendFailed, sendFailed) /\ \A i \in 1..MaxRecords : executed[i] <= executed[i]
    BY <1>2 DEF Grows
  <1>4. CASE UNCHANGED <<sendFailed, executed>>
    BY <1>1, <1>3, <1>4
  <1>5. CASE Succeed \/ HttpError \/ Unreachable \/ SilenceEscapes \/ SilenceReported
    <2>1. \A i \in 1..MaxRecords : executed[i] <= executed'[i]
      BY <1>5, CallChanges, CurrentIsCommand, Effects
    <2>2. UNCHANGED sendFailed
      BY <1>5, CallChanges
    <2>. QED  BY <1>1, <1>3, <2>1, <2>2
  <1>6. CASE PublishFailure
    <2>1. FailureOf(message, error) \in Report
      BY <1>6, CurrentIsCommand, FailureIsReport DEF PublishFailure, ReadyFor
    <2>2. Grows(sendFailed, sendFailed')
      BY <1>2, <1>6, <2>1, AppendFacts DEF PublishFailure, Grows
    <2>. QED  BY <1>1, <1>3, <1>6, <2>2 DEF PublishFailure
  <1>. QED
    BY <1>4, <1>5, <1>6 DEF Next, Worker, vars, local, SkipMalformed, NonObjectRaises,
       Return, Loop, Raise, Rejoin, Crash, Abandon, Produce

(* What is settled stays settled. *)
LEMMA SettledStays ==
    ASSUME TypeInv, TypeInv', [Next]_vars, NEW i \in 1..Len(replyCommands), Settled(i)
    PROVE  Settled(i)'
  <1>1. replyCommands'[i] = replyCommands[i]
    BY HistoryGrows DEF Grows
  <1>2. CASE replyCommands[i] \notin Commands
    BY <1>1, <1>2 DEF Settled
  <1>3. CASE executed[i] > 0
    <2>1. i \in 1..MaxRecords
      BY ApiAssumption DEF TypeInv, LocalTypes, LoopInv
    <2>2. executed[i] \in Nat /\ executed'[i] \in Nat
      BY <2>1 DEF TypeInv, LocalTypes
    <2>. QED  BY <1>3, <2>1, <2>2, HistoryGrows DEF Settled
  <1>4. CASE IsReported(replyCommands[i])
    <2>1. PICK j \in DOMAIN sendFailed : SameAttempt(sendFailed[j], replyCommands[i])
      BY <1>4 DEF IsReported, Reports
    <2>2. j \in DOMAIN sendFailed' /\ sendFailed'[j] = sendFailed[j]
      BY <2>1, HistoryGrows DEF TypeInv, LocalTypes, Grows
    <2>. QED  BY <1>1, <2>1, <2>2 DEF Settled, IsReported, Reports
  <1>. QED  BY <1>2, <1>3, <1>4 DEF Settled

-----------------------------------------------------------------------------
(* The invariants *)

\* An iteration about to end has settled its command.
StepInv == step = "return" => Settled(offset)

Inv ==
    /\ TypeInv /\ StepInv
    /\ HandledIsSettled /\ TaxonomyAgrees

(* Every step leaves behind what the next one relies on. *)
LEMMA NextStepInv ==
    ASSUME TypeInv, TypeInv', StepInv, [Next]_vars
    PROVE  StepInv'
  <1>1. CASE step' = "idle"
    BY <1>1 DEF StepInv
  <1>2. CASE /\ UNCHANGED <<step, error, consumer>> /\ step' # "idle"
    <2>1. offset' = offset
      BY <1>2 DEF offset
    <2>2. step = "return" => offset \in 1..Len(replyCommands)
      BY CurrentIsRecord DEF TypeInv, InProcess
    <2>3. step = "return" => Settled(offset)'
      BY <2>1, <2>2, SettledStays DEF StepInv, Settled, IsReported
    <2>. QED  BY <1>2, <2>1, <2>3 DEF StepInv
  <1>3. CASE Succeed \/ HttpError \/ Unreachable \/ SilenceEscapes \/ SilenceReported
    <2>1. offset \in 1..MaxRecords /\ executed[offset] \in Nat
      BY <1>3, CallChanges, CurrentIsCommand DEF TypeInv, LocalTypes
    <2>2. step' = "return" => executed'[offset] > 0 /\ offset' = offset
      BY <1>3, <2>1, CallChanges, Effects DEF offset, Executes, ReadyFor
    <2>. QED  BY <2>2 DEF StepInv, Settled
  <1>4. CASE PublishFailure
    <2>1. /\ message = replyCommands[offset]
          /\ FailureOf(message, error) \in Report
      BY <1>4, CurrentIsCommand, FailureIsReport DEF PublishFailure, ReadyFor
    <2>2. /\ sendFailed' \in Seq(Report)
          /\ Len(sendFailed) + 1 \in DOMAIN sendFailed'
          /\ sendFailed'[Len(sendFailed) + 1] = FailureOf(message, error)
      BY <1>4, <2>1, AppendFacts DEF PublishFailure, TypeInv, LocalTypes
    <2>3. SameAttempt(FailureOf(message, error), message)
      BY DEF FailureOf, SameAttempt
    <2>4. offset' = offset /\ replyCommands' = replyCommands /\ step' = "return"
      BY <1>4 DEF PublishFailure, offset
    <2>. QED  BY <2>1, <2>2, <2>3, <2>4 DEF StepInv, Settled, IsReported, Reports
  <1>. QED
    BY <1>1, <1>2, <1>3, <1>4 DEF Next, Worker, vars, SkipMalformed, NonObjectRaises,
       Return, Loop, Raise, Rejoin, Crash, Abandon, Produce, ReadyFor, Kafka!Produce

(* An iteration ends on a settled record. *)
LEMMA NextHandled ==
    ASSUME TypeInv, TypeInv', StepInv, HandledIsSettled, [Next]_vars
    PROVE  HandledIsSettled'
  <1>1. \A i \in handled : Settled(i)'
    BY SettledStays DEF HandledIsSettled, TypeInv, LoopInv
  <1>2. CASE handled' \subseteq handled
    BY <1>1, <1>2 DEF HandledIsSettled
  <1>3. ASSUME Kafka!Finish, Settled(offset) PROVE HandledIsSettled'
    <2>1. PICK i \in 1..Len(replyCommands) : i = offset
      BY <1>3, CurrentIsRecord DEF TypeInv, Kafka!Finish
    <2>2. Settled(i)'
      BY <1>3, <2>1, SettledStays
    <2>3. handled' = handled \cup {i}
      BY <1>3, <2>1, FinishMoves DEF TypeInv
    <2>. QED  BY <1>1, <2>2, <2>3 DEF HandledIsSettled
  <1>4. CASE SkipMalformed
    <2>1. /\ message = replyCommands[offset] /\ message = Malformed
      BY <1>4, CurrentIsRecord DEF SkipMalformed, ReadyFor, TypeInv
    <2>2. Settled(offset)
      BY <2>1, ApiAssumption DEF Settled
    <2>. QED  BY <1>3, <1>4, <2>2 DEF SkipMalformed
  <1>5. CASE Return
    BY <1>3, <1>5 DEF Return, ReadyFor, StepInv
  <1>6. CASE Loop \/ Raise \/ Rejoin \/ Crash \/ Produce \/ NonObjectRaises
    BY <1>2, <1>6 DEF Loop, Raise, Rejoin, Crash, Produce, NonObjectRaises, Abandon,
       Kafka!Start, Kafka!Poll, Kafka!Commit, Kafka!Raise, Kafka!Rejoin, Kafka!Crash,
       Kafka!Produce
  <1>7. CASE Succeed \/ HttpError \/ Unreachable \/ SilenceEscapes \/ SilenceReported
    BY <1>2, <1>7, CallChanges
  <1>. QED
    BY <1>2, <1>4, <1>5, <1>6, <1>7 DEF Next, Worker, vars, PublishFailure

(* A report is published with the classification of its error. *)
LEMMA NextReports ==
    ASSUME TypeInv, TaxonomyAgrees, [Next]_vars
    PROVE  TaxonomyAgrees'
  <1>1. CASE UNCHANGED sendFailed
    BY <1>1 DEF TaxonomyAgrees
  <1>2. CASE PublishFailure
    <2>. DEFINE n == Len(sendFailed) + 1
                report == FailureOf(message, error)
    <2>1. report \in Report
      BY <1>2, CurrentIsCommand, FailureIsReport DEF PublishFailure, ReadyFor
    <2>2. /\ DOMAIN sendFailed' = DOMAIN sendFailed \cup {n}
          /\ \A j \in DOMAIN sendFailed : sendFailed'[j] = sendFailed[j]
          /\ sendFailed'[n] = report
      BY <1>2, <2>1, AppendFacts DEF PublishFailure, TypeInv, LocalTypes
    <2>3. report.retryable = "yes" <=> report.failure_type \in RETRYABLE_FAILURE_TYPES
      BY VerdictMatchesType DEF FailureOf
    <2>. HIDE DEF report
    <2>. QED  BY <2>2, <2>3 DEF TaxonomyAgrees
  <1>. QED
    BY <1>1, <1>2 DEF Next, Worker, vars, local, SkipMalformed, NonObjectRaises, Succeed,
       HttpError, Unreachable, SilenceEscapes, SilenceReported, Refuse, Return, Loop,
       Raise, Rejoin, Crash, Abandon, Produce

(* The inductive invariant: it holds initially and every step keeps it. *)
LEMMA InvInductive == (Init => Inv) /\ (Inv /\ [Next]_vars => Inv')
  <1>1. ASSUME Init PROVE Inv
    <2>1. TypeInv
      BY <1>1, TypeInvInductive
    <2>2. StepInv /\ HandledIsSettled /\ TaxonomyAgrees
      BY <1>1 DEF Init, Kafka!Init, StepInv, HandledIsSettled, TaxonomyAgrees
    <2>. QED  BY <2>1, <2>2 DEF Inv
  <1>2. ASSUME Inv, [Next]_vars PROVE Inv'
    <2>1. TypeInv'
      BY <1>2, TypeInvInductive DEF Inv
    <2>. QED
      BY <1>2, <2>1, NextStepInv, NextHandled, NextReports DEF Inv
  <1>. QED  BY <1>1, <1>2

(* Inv holds throughout. *)
LEMMA Invariance == Spec => []Inv
  BY InvInductive, PTL DEF Spec

(* A command whose iteration ended took effect on the page, or its failure is
   on send_failed, whatever Facebook answered and wherever the worker died in
   earlier deliveries. *)
THEOREM NoHandledCommandIsLost == Spec => []HandledIsSettled
  BY Invariance, PTL DEF Inv

(* For every status code and message, the verdict api-service reports is the
   one retry-service would have come to from the failure_type. *)
THEOREM TaxonomiesAgree == Spec => []TaxonomyAgrees
  BY Invariance, PTL DEF Inv

-----------------------------------------------------------------------------
(* What faults cost: another execution each. *)

\* The offset behind which commands are executed without another fault.
Behind ==
    IF consumer.mode = "down" THEN consumer.committed
    ELSE IF consumer.mode = "polling" THEN consumer.position
    ELSE IF step = "idle" THEN consumer.next ELSE offset

\* A command ahead of the worker was executed once per fault at most, one
\* behind it once more.
FaultsPay ==
    \A i \in 1..MaxRecords : executed[i] <= faults + IF i <= Behind THEN 1 ELSE 0

(* Every step keeps the account. *)
LEMMA FaultsPayInductive ==
    (Init => FaultsPay) /\ (TypeInv /\ FaultsPay /\ [Next]_vars => FaultsPay')
  <1>1. ASSUME Init PROVE FaultsPay
    BY <1>1 DEF Init, Kafka!Init, Kafka!InitialConsumer, FaultsPay, Behind
  <1>2. ASSUME TypeInv, FaultsPay, [Next]_vars PROVE FaultsPay'
    <2>1. /\ consumer \in Kafka!ConsumerType
          /\ consumer.committed \in Nat /\ consumer.position \in Nat
          /\ consumer.next \in Nat
          /\ faults \in Nat /\ executed \in [1..MaxRecords -> Nat]
      BY <1>2 DEF TypeInv, LoopInv, LocalTypes, Kafka!ConsumerType
    <2>2. /\ consumer.committed <= consumer.position
          /\ consumer.mode = "batch" =>
                consumer.committed <= consumer.next /\ consumer.next <= consumer.position
      BY <1>2 DEF TypeInv, LoopInv, Kafka!OffsetOrder
    <2>3. Behind \in Nat
      BY <2>1 DEF Behind, offset
    <2>4. ASSUME UNCHANGED <<executed, faults>>, Behind' \in Nat, Behind <= Behind'
          PROVE  FaultsPay'
      BY <1>2, <2>1, <2>3, <2>4 DEF FaultsPay
    <2>5. ASSUME UNCHANGED executed, faults' = faults + 1
          PROVE  FaultsPay'
      BY <1>2, <2>1, <2>5 DEF FaultsPay
    <2>6. CASE Succeed \/ HttpError \/ Unreachable \/ SilenceEscapes \/ SilenceReported
      <3>1. /\ Executes /\ MayTakeEffect /\ UNCHANGED faults
            /\ \/ step' # "idle" /\ UNCHANGED consumer
               \/ Kafka!Raise
        BY <2>6, CallChanges
      <3>2. /\ offset \in 1..MaxRecords /\ step = "idle"
            /\ consumer.mode = "batch" /\ consumer.next < consumer.position
            /\ Behind = consumer.next /\ offset = consumer.next + 1
        BY <1>2, <3>1, CurrentIsCommand
        DEF Executes, ReadyFor, Kafka!HasRecord, Behind, offset
      <3>3. /\ offset <= Behind' /\ Behind' \in Nat
        BY <2>1, <3>1, <3>2 DEF Behind, offset, Kafka!Raise, Kafka!ConsumerType
      <3>4. \A i \in 1..MaxRecords :
                /\ executed'[i] \in Nat
                /\ executed'[i] <= executed[i] + 1
                /\ i # offset => executed'[i] = executed[i]
        BY <1>2, <3>1, <3>2, Effects
      <3>5. ASSUME NEW i \in 1..MaxRecords
            PROVE  executed'[i] <= faults' + IF i <= Behind' THEN 1 ELSE 0
        <4>1. /\ executed[i] \in Nat /\ executed'[i] \in Nat
              /\ executed'[i] <= executed[i] + 1
              /\ executed[i] <= faults + IF i <= Behind THEN 1 ELSE 0
          BY <1>2, <2>1, <3>4 DEF FaultsPay
        <4>2. CASE i = offset
          BY <2>1, <3>1, <3>2, <3>3, <4>1, <4>2
        <4>3. CASE i # offset
          BY <2>1, <3>1, <3>2, <3>3, <3>4, <4>1, <4>3
        <4>. QED  BY <4>2, <4>3
      <3>. QED  BY <3>5 DEF FaultsPay
    <2>7. CASE Raise \/ Rejoin \/ Crash
      BY <2>5, <2>7 DEF Raise, Rejoin, Crash, Abandon, local, Kafka!Fault
    <2>8. CASE SkipMalformed \/ Return
      <3>1. /\ UNCHANGED <<executed, faults>> /\ Kafka!Finish /\ step' = "idle"
        BY <2>8 DEF SkipMalformed, Return, local, ReadyFor
      <3>2. Behind' = consumer.next + 1
        BY <1>2, <3>1, FinishMoves DEF Behind, offset, TypeInv
      <3>3. Behind <= consumer.next + 1
        BY <2>1, <3>1 DEF Behind, offset, Kafka!Finish, Kafka!HasRecord
      <3>. QED  BY <2>1, <2>4, <3>1, <3>2, <3>3
    <2>9. CASE NonObjectRaises
      <3>1. UNCHANGED <<executed, faults>> /\ Kafka!Raise /\ step = "idle"
        BY <2>9 DEF NonObjectRaises, local, ReadyFor
      <3>2. Behind' = consumer.position /\ Behind = consumer.next
        BY <2>1, <3>1 DEF Behind, Kafka!Raise, Kafka!ConsumerType
      <3>. QED  BY <2>1, <2>2, <2>4, <3>1, <3>2 DEF Kafka!Raise
    <2>10. CASE Loop
      <3>1. UNCHANGED <<executed, faults, step>> /\ step = "idle"
        BY <2>10 DEF Loop, local
      <3>2. Behind' = Behind
        BY <2>1, <2>10, <3>1 DEF Loop, Behind, Kafka!Start, Kafka!Poll, Kafka!Commit,
           Kafka!ConsumerType
      <3>. QED  BY <2>3, <2>4, <3>1, <3>2
    <2>11. CASE Produce \/ PublishFailure \/ UNCHANGED vars
      <3>1. /\ UNCHANGED <<executed, faults, consumer>>
            /\ step' = step \/ (step = "publish" /\ step' = "return")
        BY <2>11 DEF Produce, PublishFailure, vars, local, ReadyFor, Kafka!Produce
      <3>2. Behind' = Behind
        BY <3>1 DEF Behind, offset
      <3>. QED  BY <2>3, <2>4, <3>1, <3>2
    <2>. QED
      BY <1>2, <2>6, <2>7, <2>8, <2>9, <2>10, <2>11 DEF Next, Worker
  <1>. QED  BY <1>1, <1>2

(* At least once, but not at will: however crashes, rejoins and exceptions
   follow each other, a command takes effect once, and once more for each of
   them at most. *)
THEOREM FaultsCostAnExecutionEach == Spec => []ExecutionsBounded
  <1>1. TypeInv /\ FaultsPay => ExecutionsBounded
    <2>. SUFFICES ASSUME TypeInv, FaultsPay, NEW i \in DOMAIN replyCommands
                  PROVE  executed[i] <= 1 + faults
      BY DEF ExecutionsBounded
    <2>1. i \in 1..MaxRecords /\ executed[i] \in Nat /\ faults \in Nat
      BY ApiAssumption DEF TypeInv, LocalTypes, LoopInv
    <2>. QED  BY <2>1 DEF FaultsPay
  <1>. QED  BY <1>1, TypeInvInductive, FaultsPayInductive, PTL DEF Spec

-----------------------------------------------------------------------------
(* What faults cost: another report each, of every record of an attempt. *)

\* The offset behind which records were reported without another fault.
Past ==
    IF consumer.mode = "down" THEN consumer.committed
    ELSE IF consumer.mode = "polling" THEN consumer.position
    ELSE IF step = "return" THEN offset ELSE consumer.next

RequestsBehind(m) == {i \in Requests(m) : i <= Past}

\* An attempt was reported for each of its records once per fault at most,
\* and once more for each record that is behind the worker.
ReportsPaid ==
    \A m \in Command :
        Cardinality(Reports(m))
            <= Cardinality(Requests(m)) * faults + Cardinality(RequestsBehind(m))

\* What is counted is finite, and what is behind the worker part of it.
Counts(m) ==
    /\ IsFiniteSet(Reports(m)) /\ Cardinality(Reports(m)) \in Nat
    /\ IsFiniteSet(Requests(m)) /\ Cardinality(Requests(m)) \in Nat
    /\ IsFiniteSet(RequestsBehind(m)) /\ Cardinality(RequestsBehind(m)) \in Nat
    /\ Cardinality(RequestsBehind(m)) <= Cardinality(Requests(m))

(* So it is in every state of the declared types. *)
LEMMA CountsTyped ==
    ASSUME NEW m
    PROVE  (TypeInv => Counts(m)) /\ (TypeInv' => Counts(m)')
  <1>1. ASSUME NEW k \in Nat, NEW l \in Nat, NEW R \in SUBSET (1..k),
               NEW S \in SUBSET (1..l), NEW T \in SUBSET S
        PROVE  /\ IsFiniteSet(R) /\ Cardinality(R) \in Nat
               /\ IsFiniteSet(S) /\ Cardinality(S) \in Nat
               /\ IsFiniteSet(T) /\ Cardinality(T) \in Nat
               /\ Cardinality(T) <= Cardinality(S)
    <2>1. IsFiniteSet(R) /\ IsFiniteSet(S)
      <3>1. IsFiniteSet(1..k) /\ IsFiniteSet(1..l)
        BY FS_Interval
      <3>. QED  BY <3>1, FS_Subset
    <2>2. IsFiniteSet(T) /\ Cardinality(T) <= Cardinality(S)
      BY <2>1, FS_Subset
    <2>. QED  BY <2>1, <2>2, FS_CardinalityType
  <1>2. ASSUME TypeInv PROVE Counts(m)
    <2>1. /\ Len(sendFailed) \in Nat /\ Len(replyCommands) \in Nat
          /\ Reports(m) \in SUBSET (1..Len(sendFailed))
          /\ Requests(m) \in SUBSET (1..Len(replyCommands))
          /\ RequestsBehind(m) \in SUBSET Requests(m)
      BY <1>2 DEF TypeInv, LocalTypes, LoopInv, Reports, Requests, RequestsBehind
    <2>. QED  BY <2>1, <1>1 DEF Counts
  <1>3. ASSUME TypeInv' PROVE Counts(m)'
    <2>1. /\ Len(sendFailed') \in Nat /\ Len(replyCommands') \in Nat
          /\ Reports(m)' \in SUBSET (1..Len(sendFailed'))
          /\ Requests(m)' \in SUBSET (1..Len(replyCommands'))
          /\ RequestsBehind(m)' \in SUBSET Requests(m)'
      BY <1>3 DEF TypeInv, LocalTypes, LoopInv, Reports, Requests, RequestsBehind
    <2>. QED  BY <2>1, <1>1 DEF Counts
  <1>. QED  BY <1>2, <1>3

(* No step takes back that an attempt was asked for. *)
LEMMA RequestsGrow ==
    ASSUME TypeInv, TypeInv', [Next]_vars, NEW m
    PROVE  /\ Requests(m) \subseteq Requests(m)'
           /\ Cardinality(Requests(m)) <= Cardinality(Requests(m)')
  <1>1. Requests(m) \subseteq Requests(m)'
    BY HistoryGrows DEF Requests, Grows, TypeInv, LoopInv
  <1>2. IsFiniteSet(Requests(m)')
    BY CountsTyped DEF Counts
  <1>. QED  BY <1>1, <1>2, FS_Subset

(* Another report of a record brings the worker past it. *)
LEMMA PublicationIsPaid ==
    ASSUME TypeInv, TypeInv', PublishFailure, NEW m
    PROVE  \/ Reports(m)' = Reports(m) /\ RequestsBehind(m) \subseteq RequestsBehind(m)'
           \/ /\ Cardinality(Reports(m)') = Cardinality(Reports(m)) + 1
              /\ Cardinality(RequestsBehind(m)') = Cardinality(RequestsBehind(m)) + 1
  <1>1. /\ offset \in 1..Len(replyCommands) /\ message = replyCommands[offset]
        /\ message \in Commands /\ message \in Command
        /\ step = "publish" /\ step' = "return"
        /\ UNCHANGED <<replyCommands, consumer>>
    BY CurrentIsCommand DEF PublishFailure, ReadyFor
  <1>2. /\ consumer.mode = "batch" /\ consumer.next \in Nat
        /\ Past = consumer.next /\ Past' = consumer.next + 1 /\ offset = consumer.next + 1
    BY <1>1 DEF PublishFailure, ReadyFor, Kafka!HasRecord, Past, offset, TypeInv, LoopInv,
       Kafka!ConsumerType
  <1>. DEFINE n == Len(sendFailed) + 1
  <1>3. /\ sendFailed' \in Seq(Report)
        /\ DOMAIN sendFailed' = DOMAIN sendFailed \cup {n} /\ n \notin DOMAIN sendFailed
        /\ \A j \in DOMAIN sendFailed : sendFailed'[j] = sendFailed[j]
        /\ sendFailed'[n] = FailureOf(message, error)
    BY <1>1, FailureIsReport, AppendFacts DEF PublishFailure, TypeInv, LocalTypes
  <1>4. SameAttempt(sendFailed'[n], m) <=> SameAttempt(message, m)
    BY <1>3 DEF SameAttempt, FailureOf
  <1>5. /\ Requests(m)' = Requests(m) /\ \A i \in Requests(m) : i \in Nat
        /\ offset \in Requests(m) <=> SameAttempt(message, m)
    BY <1>1 DEF Requests, TypeInv, LoopInv
  <1>6. CASE ~SameAttempt(message, m)
    <2>1. Reports(m)' = Reports(m)
      BY <1>3, <1>4, <1>6 DEF Reports
    <2>2. RequestsBehind(m) \subseteq RequestsBehind(m)'
      BY <1>2, <1>5 DEF RequestsBehind
    <2>. QED  BY <2>1, <2>2
  <1>7. CASE SameAttempt(message, m)
    <2>1. Reports(m)' = Reports(m) \cup {n} /\ n \notin Reports(m)
      BY <1>3, <1>4, <1>7 DEF Reports
    <2>2. \A i \in Requests(m) : i <= Past' <=> i <= Past \/ i = offset
      BY <1>2, <1>5
    <2>3. /\ RequestsBehind(m)' = RequestsBehind(m) \cup {offset}
          /\ offset \notin RequestsBehind(m)
      BY <1>2, <1>5, <1>7, <2>2 DEF RequestsBehind
    <2>. QED  BY <2>1, <2>3, CountsTyped, FS_AddElement DEF Counts
  <1>. QED  BY <1>6, <1>7

(* Only a fault takes the worker back. *)
LEMMA PastAdvances ==
    ASSUME TypeInv, [Next]_vars
    PROVE  \/ Past \in Nat /\ Past' \in Nat /\ Past <= Past' /\ faults' = faults
           \/ faults' = faults + 1 /\ UNCHANGED <<replyCommands, sendFailed>>
  <1>1. /\ consumer \in Kafka!ConsumerType
        /\ consumer.committed \in Nat /\ consumer.position \in Nat
        /\ consumer.next \in Nat
        /\ consumer.committed <= consumer.position
        /\ consumer.mode = "batch" =>
              consumer.committed <= consumer.next /\ consumer.next <= consumer.position
    BY DEF TypeInv, LoopInv, Kafka!OffsetOrder, Kafka!ConsumerType
  <1>2. Past \in Nat
    BY <1>1 DEF Past, offset
  <1>3. CASE Succeed \/ HttpError \/ Unreachable \/ SilenceEscapes \/ SilenceReported
    <2>1. /\ Executes /\ UNCHANGED faults
          /\ \/ step' # "idle" /\ UNCHANGED consumer
             \/ Kafka!Raise /\ step' = step
      BY <1>3, CallChanges
    <2>2. Past = consumer.next /\ consumer.mode = "batch"
      BY <2>1 DEF Executes, ReadyFor, Kafka!HasRecord, Past
    <2>3. Past' \in {consumer.next, consumer.next + 1, consumer.position}
      BY <1>1, <2>1, <2>2 DEF Past, offset, Kafka!Raise, Kafka!ConsumerType
    <2>. QED  BY <1>1, <2>1, <2>2, <2>3
  <1>4. CASE PublishFailure
    <2>1. /\ UNCHANGED <<consumer, faults>> /\ consumer.mode = "batch" /\ step = "publish"
          /\ step' = "return"
      BY <1>4 DEF PublishFailure, ReadyFor, Kafka!HasRecord
    <2>2. Past = consumer.next /\ Past' = consumer.next + 1
      BY <2>1 DEF Past, offset
    <2>. QED  BY <1>1, <2>1, <2>2
  <1>5. CASE SkipMalformed \/ Return
    <2>1. UNCHANGED faults /\ Kafka!Finish /\ step' = "idle"
      BY <1>5 DEF SkipMalformed, Return, ReadyFor
    <2>2. Past' = consumer.next + 1
      BY <2>1, FinishMoves DEF Past, offset, TypeInv
    <2>3. Past \in {consumer.next, consumer.next + 1}
      BY <2>1 DEF Past, offset, Kafka!Finish, Kafka!HasRecord
    <2>. QED  BY <1>1, <2>1, <2>2, <2>3
  <1>6. CASE NonObjectRaises
    <2>1. UNCHANGED faults /\ Kafka!Raise /\ step = "idle"
      BY <1>6 DEF NonObjectRaises, ReadyFor
    <2>2. Past' = consumer.position /\ Past = consumer.next /\ consumer.mode = "batch"
      BY <1>1, <2>1 DEF Past, Kafka!Raise, Kafka!ConsumerType
    <2>. QED  BY <1>1, <2>1, <2>2
  <1>7. CASE Loop
    <2>1. UNCHANGED <<faults, step>> /\ step = "idle"
      BY <1>7 DEF Loop
    <2>2. Past' = Past
      BY <1>1, <1>7, <2>1 DEF Loop, Past, Kafka!Start, Kafka!Poll, Kafka!Commit,
         Kafka!ConsumerType
    <2>. QED  BY <1>2, <2>1, <2>2
  <1>8. CASE Raise \/ Rejoin \/ Crash
    BY <1>8 DEF Raise, Rejoin, Crash, Abandon, local, Kafka!Fault, Kafka!Raise,
       Kafka!Rejoin, Kafka!Crash
  <1>9. CASE Produce \/ UNCHANGED vars
    <2>1. UNCHANGED <<step, consumer, faults>>
      BY <1>9 DEF Produce, vars, Kafka!Produce
    <2>. QED  BY <1>2, <2>1 DEF Past, offset
  <1>. QED
    BY <1>3, <1>4, <1>5, <1>6, <1>7, <1>8, <1>9 DEF Next, Worker

(* Products of natural numbers grow with their factors. *)
LEMMA Distributes ==
    /\ \A x, y \in Nat : x * y \in Nat /\ x * (y + 1) = x * y + x
    /\ \A x, y, z \in Nat : x <= y => x * z <= y * z
  OBVIOUS

(* Every step keeps the account of the reports. *)
LEMMA ReportsPaidInductive ==
    /\ Init => ReportsPaid
    /\ TypeInv /\ TypeInv' /\ ReportsPaid /\ [Next]_vars => ReportsPaid'
  <1>1. ASSUME Init PROVE ReportsPaid
    <2>. SUFFICES ASSUME NEW m \in Command
                  PROVE  Cardinality(Reports(m))
                           <= Cardinality(Requests(m)) * faults + Cardinality(RequestsBehind(m))
      BY DEF ReportsPaid
    <2>1. Reports(m) = {} /\ Requests(m) = {} /\ RequestsBehind(m) = {} /\ faults = 0
      BY <1>1 DEF Init, Kafka!Init, Reports, Requests, RequestsBehind
    <2>2. Cardinality({}) = 0
      BY FS_EmptySet
    <2>. QED  BY <2>1, <2>2
  <1>2. ASSUME TypeInv, TypeInv', ReportsPaid, [Next]_vars PROVE ReportsPaid'
    <2>. SUFFICES ASSUME NEW m \in Command
                  PROVE  Cardinality(Reports(m)')
                           <= Cardinality(Requests(m)') * faults'
                                + Cardinality(RequestsBehind(m)')
      BY DEF ReportsPaid
    <2>. DEFINE r == Cardinality(Reports(m))
                c == Cardinality(Requests(m))
                b == Cardinality(RequestsBehind(m))
    <2>1. /\ r \in Nat /\ c \in Nat /\ b \in Nat /\ b <= c /\ faults \in Nat
          /\ r' \in Nat /\ c' \in Nat /\ b' \in Nat /\ faults' \in Nat
          /\ r <= c * faults + b /\ c <= c'
          /\ IsFiniteSet(RequestsBehind(m)')
      BY <1>2, CountsTyped, RequestsGrow DEF Counts, ReportsPaid, TypeInv, LocalTypes
    <2>2. CASE PublishFailure
      <3>1. c' = c /\ faults' = faults
        BY <2>2 DEF PublishFailure, Requests
      <3>2. (b <= b' /\ r' = r) \/ (r' = r + 1 /\ b' = b + 1)
        BY <1>2, <2>1, <2>2, PublicationIsPaid, FS_Subset
      <3>3. \A x, w, y, z, v \in Nat :
                w <= x + y /\ ((y <= z /\ v = w) \/ (v = w + 1 /\ z = y + 1)) => v <= x + z
        OBVIOUS
      <3>4. c * faults \in Nat
        BY <2>1
      <3>. QED  BY <2>1, <3>1, <3>2, <3>3, <3>4
    <2>3. CASE faults' = faults + 1 /\ UNCHANGED <<replyCommands, sendFailed>>
      <3>1. r' = r /\ c' = c
        BY <2>3 DEF Reports, Requests
      <3>2. c * faults' = c * faults + c /\ c * faults \in Nat
        BY <2>1, <2>3, Distributes
      <3>3. \A x, w, y, z, v \in Nat : w <= x + y /\ y <= z => w <= x + z + v
        OBVIOUS
      <3>. QED  BY <2>1, <3>1, <3>2, <3>3
    <2>4. CASE Past \in Nat /\ Past' \in Nat /\ Past <= Past' /\ faults' = faults
                 /\ UNCHANGED sendFailed
      <3>1. r' = r
        BY <2>4 DEF Reports
      <3>2. b <= b'
        <4>1. \A i \in Requests(m) : i \in Nat
          BY <1>2 DEF Requests, TypeInv, LoopInv
        <4>2. RequestsBehind(m) \subseteq RequestsBehind(m)'
          BY <1>2, <2>4, <4>1, RequestsGrow DEF RequestsBehind
        <4>. QED  BY <2>1, <4>2, FS_Subset
      <3>3. c * faults <= c' * faults /\ c * faults \in Nat /\ c' * faults \in Nat
        BY <2>1, Distributes
      <3>4. \A x, w, y, z, v \in Nat : w <= x + y /\ y <= z /\ x <= v => w <= v + z
        OBVIOUS
      <3>. QED  BY <2>1, <2>4, <3>1, <3>2, <3>3, <3>4
    <2>5. PublishFailure \/ UNCHANGED sendFailed
      BY <1>2 DEF Next, Worker, vars, local, SkipMalformed, NonObjectRaises, Succeed,
         HttpError, Unreachable, SilenceEscapes, SilenceReported, Refuse, Return, Loop,
         Raise, Rejoin, Crash, Abandon, Produce
    <2>. QED  BY <1>2, <2>2, <2>3, <2>4, <2>5, PastAdvances
  <1>. QED  BY <1>1, <1>2

(* However often a failed command comes back, it is reported once, and once
   more for each fault at most: per record that asked for the attempt. *)
THEOREM FaultsCostAReportEach == Spec => []ReportsBounded
  <1>1. TypeInv /\ ReportsPaid => ReportsBounded
    <2>. SUFFICES ASSUME TypeInv, ReportsPaid, NEW j \in DOMAIN sendFailed
                  PROVE  Cardinality(Reports(sendFailed[j]))
                           <= Cardinality(Requests(sendFailed[j])) * (1 + faults)
      BY DEF ReportsBounded
    <2>1. PICK m \in Command : SameAttempt(sendFailed[j], m) /\ SameAttempt(m, sendFailed[j])
      <3>1. sendFailed[j] \in Report
        BY DEF TypeInv, LocalTypes
      <3>. DEFINE m == [command |-> sendFailed[j].command, action_type |-> "hide_comment",
                        retry_count |-> sendFailed[j].retry_count, max_retries |-> 0]
      <3>2. m \in Command
        BY <3>1 DEF Report, Command
      <3>. QED  BY <3>2 DEF SameAttempt
    <2>2. Reports(sendFailed[j]) = Reports(m) /\ Requests(sendFailed[j]) = Requests(m)
      BY <2>1 DEF SameAttempt, Reports, Requests
    <2>. DEFINE c == Cardinality(Requests(m))
                b == Cardinality(RequestsBehind(m))
    <2>3. /\ Cardinality(Reports(m)) \in Nat /\ c \in Nat /\ b \in Nat /\ b <= c
          /\ faults \in Nat
          /\ Cardinality(Reports(m)) <= c * faults + b
      BY CountsTyped DEF Counts, ReportsPaid, TypeInv, LocalTypes
    <2>4. c * (1 + faults) = c * faults + c /\ c * faults \in Nat
      BY <2>3, Distributes
    <2>5. \A x, w, y, z \in Nat : w <= x + y /\ y <= z => w <= x + z
      OBVIOUS
    <2>. QED  BY <2>2, <2>3, <2>4, <2>5
  <1>. QED  BY <1>1, TypeInvInductive, ReportsPaidInductive, PTL DEF Spec
=============================================================================
