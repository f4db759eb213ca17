------------------------- MODULE RetryServiceProofs -------------------------
(***************************************************************************)
(* What the retry worker keeps for every set of commands and failures,     *)
(* every batch size and every number of crashes, rejoins and exceptions.   *)
(***************************************************************************)
EXTENDS RetryService, FiniteSetTheorems, TLAPS

Record == Failures \cup {NullRecord}

(* The offsets are in order, and handled offsets exist. *)
Offsets ==
    /\ consumer.committed <= consumer.position
    /\ consumer.position <= Len(sendFailed)
    /\ consumer.mode = "batch" =>
          consumer.committed <= consumer.next /\ consumer.next <= consumer.position
    /\ handled \subseteq 1..Len(sendFailed)

(* process() runs on a record of the batch that decoded and validated. *)
InProcess == step # "idle" => Kafka!HasRecord /\ message # NullRecord

-----------------------------------------------------------------------------

(* Appending keeps what a sequence holds and puts the element behind it. *)
LEMMA AppendFacts ==
    ASSUME NEW S, NEW s \in Seq(S), NEW e \in S
    PROVE  /\ Append(s, e) \in Seq(S)
           /\ Len(Append(s, e)) = Len(s) + 1
           /\ \A i \in 1..Len(s) : Append(s, e)[i] = s[i]
           /\ Append(s, e)[Len(s) + 1] = e
  OBVIOUS

(* A record the worker is about to handle is one of the topic's. *)
LEMMA CurrentIsRecord ==
    ASSUME TypeOK, Offsets, Kafka!HasRecord
    PROVE  /\ consumer.next + 1 \in 1..Len(sendFailed)
           /\ message \in Record
           /\ message # NullRecord => message \in Failure
  <1>1. consumer.next + 1 \in 1..Len(sendFailed)
    BY DEF TypeOK, Offsets, Kafka!HasRecord, Kafka!ConsumerType
  <1>2. message \in Record
    BY <1>1 DEF TypeOK, message, Kafka!Current, Record
  <1>. QED  BY <1>1, <1>2, RetryAssumption DEF Record

(* The record process() runs on is a failure. *)
LEMMA InProcessFailure ==
    ASSUME TypeOK, Offsets, InProcess, NEW s, ReadyFor(s), s # "idle"
    PROVE  /\ message \in Failure
           /\ message.command \in Commands
           /\ message.retry_count \in Nat
           /\ message.max_retries \in Nat
  <1>1. message \in Failure
    BY CurrentIsRecord DEF ReadyFor, InProcess
  <1>. QED  BY <1>1 DEF Failure

(* The initial state has the types and the offsets in order. *)
LEMMA InitTypes == Init => TypeOK /\ Offsets /\ InProcess
  BY DEF Init, Kafka!Init, TypeOK, Offsets, InProcess, Kafka!InitialConsumer,
         Kafka!ConsumerType, NoAttempt, Attempt, Steps

-----------------------------------------------------------------------------
(* Type correctness *)

(* Every step keeps the types and the order of the offsets. *)
LEMMA NextTypes == TypeOK /\ Offsets /\ InProcess /\ [Next]_vars => TypeOK' /\ Offsets'
  <1>. SUFFICES ASSUME TypeOK, Offsets, InProcess, [Next]_vars
                PROVE  TypeOK' /\ Offsets'
    OBVIOUS
  <1>. USE DEF Kafka!ConsumerType
  <1>1. CASE UNCHANGED vars
    BY <1>1 DEF vars, TypeOK, Offsets
  <1>2. ASSUME Kafka!Finish, UNCHANGED <<local, faults>>, step' \in Steps
        PROVE  TypeOK' /\ Offsets'
    <2>1. consumer.next + 1 \in 1..Len(sendFailed)
      BY <1>2, CurrentIsRecord DEF Kafka!Finish
    <2>2. consumer' \in Kafka!ConsumerType
      BY <1>2 DEF Kafka!Finish, TypeOK
    <2>3. /\ consumer'.next = consumer.next + 1
          /\ consumer'.mode = consumer.mode
          /\ consumer'.committed = consumer.committed
          /\ consumer'.position = consumer.position
      BY <1>2 DEF Kafka!Finish, TypeOK
    <2>4. Offsets'
      BY <1>2, <2>1, <2>3 DEF Kafka!Finish, Kafka!HasRecord, TypeOK, Offsets
    <2>5. TypeOK'
      BY <1>2, <2>1, <2>2 DEF Kafka!Finish, TypeOK, local
    <2>. QED  BY <2>4, <2>5
  <1>3. CASE SkipInvalid \/ SkipDeadLettered \/ SkipDuplicate
    BY <1>3, <1>2 DEF SkipInvalid, SkipDeadLettered, SkipDuplicate, TypeOK
  <1>4. CASE Return
    BY <1>4, <1>2 DEF Return, Steps
  <1>5. CASE GiveUp \/ Schedule
    BY <1>5 DEF GiveUp, Schedule, TypeOK, Offsets, local, Steps
  <1>6. CASE PublishDeadLetter
    <2>1. DeadLetterOf(message) \in DeadLetter
      BY <1>6, InProcessFailure DEF PublishDeadLetter, DeadLetterOf, DeadLetter
    <2>. QED  BY <1>6, <2>1, AppendFacts DEF PublishDeadLetter, TypeOK, Offsets, Steps
  <1>7. CASE MarkDeadLettered
    <2>1. message.command \in Commands /\ message.retry_count \in Nat
      BY <1>7, InProcessFailure DEF MarkDeadLettered
    <2>2. ledger' \in [Commands -> Attempt]
      BY <1>7, <2>1 DEF MarkDeadLettered, TypeOK, Attempt
    <2>. QED  BY <1>7, <2>2 DEF MarkDeadLettered, TypeOK, Offsets, Steps
  <1>8. CASE PublishRetry
    <2>1. SendRetryOf(message) \in SendRetry
      BY <1>8, InProcessFailure DEF PublishRetry, SendRetryOf, SendRetry
    <2>. QED  BY <1>8, <2>1, AppendFacts DEF PublishRetry, TypeOK, Offsets, Steps
  <1>9. CASE MarkScheduled
    <2>1. message.command \in Commands /\ message.retry_count \in Nat
      BY <1>9, InProcessFailure DEF MarkScheduled
    <2>2. ledger' \in [Commands -> Attempt]
      BY <1>9, <2>1 DEF MarkScheduled, TypeOK, Attempt
    <2>. QED  BY <1>9, <2>2 DEF MarkScheduled, TypeOK, Offsets, Steps
  <1>10. CASE Loop
    <2>1. CASE Kafka!Start
      <3>1. /\ consumer' \in Kafka!ConsumerType
            /\ consumer'.mode = "polling"
            /\ consumer'.committed = consumer.committed
            /\ consumer'.position = consumer.committed
        BY <2>1 DEF Kafka!Start, TypeOK
      <3>. QED  BY <1>10, <2>1, <3>1 DEF Loop, TypeOK, Offsets, local, Kafka!Start
    <2>2. CASE Kafka!Poll
      <3>1. PICK n \in 1..MaxPoll :
              /\ consumer.position + n <= Len(sendFailed)
              /\ consumer' = [consumer EXCEPT !.mode = "batch",
                                              !.next = consumer.position,
                                              !.position = consumer.position + n]
              /\ handled' = handled \ (consumer.position + 1 .. consumer.position + n)
        BY <2>2 DEF Kafka!Poll
      <3>2. n \in Nat
        BY <3>1, RetryAssumption
      <3>3. /\ consumer \in Kafka!ConsumerType
            /\ consumer.position \in Nat
            /\ consumer.committed \in Nat
        BY DEF TypeOK
      <3>4. consumer.position + n \in Nat
        BY <3>2, <3>3
      <3>5. /\ consumer' \in Kafka!ConsumerType
            /\ consumer'.committed = consumer.committed
            /\ consumer'.next = consumer.position
            /\ consumer'.position = consumer.position + n
        BY <3>1, <3>3, <3>4
      <3>6. TypeOK'
        BY <1>10, <2>2, <3>1, <3>5 DEF Loop, TypeOK, local, Kafka!Poll
      <3>7. UNCHANGED sendFailed
        BY <2>2 DEF Kafka!Poll
      <3>8. Offsets'
        BY <3>1, <3>2, <3>3, <3>5, <3>7 DEF Offsets
      <3>. QED  BY <3>6, <3>8
    <2>3. CASE Kafka!Commit
      BY <1>10, <2>3 DEF Loop, TypeOK, Offsets, local, Kafka!Commit
    <2>. QED  BY <1>10, <2>1, <2>2, <2>3 DEF Loop
  <1>11. CASE Raise \/ Crash \/ Rejoin
    BY <1>11 DEF Raise, Crash, Rejoin, Kafka!Raise, Kafka!Crash, Kafka!Rejoin,
         Kafka!Fault, TypeOK, Offsets, local, Steps
  <1>12. CASE Produce
    BY <1>12, RetryAssumption, AppendFacts DEF Produce, Kafka!Produce, TypeOK, Offsets, local
  <1>. QED
    BY <1>1, <1>3, <1>4, <1>5, <1>6, <1>7, <1>8, <1>9, <1>10, <1>11, <1>12
    DEF Next, Worker

-----------------------------------------------------------------------------
(* Topics only grow, and so do the answers they hold. *)

Grows(s, t) == Len(s) <= Len(t) /\ \A i \in 1..Len(s) : t[i] = s[i]

(* No step rewrites a topic. *)
LEMMA TopicsGrow ==
    ASSUME TypeOK, Offsets, InProcess, [Next]_vars
    PROVE  /\ Grows(sendFailed, sendFailed')
           /\ Grows(sendRetry, sendRetry')
           /\ Grows(deadLetter, deadLetter')
  <1>1. CASE UNCHANGED <<sendFailed, sendRetry, deadLetter>>
    BY <1>1 DEF Grows, TypeOK
  <1>2. CASE PublishDeadLetter
    <2>1. DeadLetterOf(message) \in DeadLetter
      BY <1>2, InProcessFailure DEF PublishDeadLetter, DeadLetterOf, DeadLetter
    <2>. QED  BY <1>2, <2>1, AppendFacts DEF PublishDeadLetter, Grows, TypeOK
  <1>3. CASE PublishRetry
    <2>1. SendRetryOf(message) \in SendRetry
      BY <1>3, InProcessFailure DEF PublishRetry, SendRetryOf, SendRetry
    <2>. QED  BY <1>3, <2>1, AppendFacts DEF PublishRetry, Grows, TypeOK
  <1>4. CASE Produce
    BY <1>4, AppendFacts DEF Produce, Kafka!Produce, Grows, TypeOK, local
  <1>5. CASE \/ GiveUp \/ Schedule \/ MarkDeadLettered \/ MarkScheduled
    BY <1>5, <1>1 DEF GiveUp, Schedule, MarkDeadLettered, MarkScheduled, local
  <1>6. CASE SkipInvalid \/ SkipDeadLettered \/ SkipDuplicate \/ Return
    BY <1>6, <1>1
    DEF SkipInvalid, SkipDeadLettered, SkipDuplicate, Return, Kafka!Finish, local
  <1>7. CASE Loop \/ Raise \/ Rejoin \/ Crash
    BY <1>7, <1>1 DEF Loop, Raise, Rejoin, Crash, Kafka!Start, Kafka!Poll,
       Kafka!Commit, Kafka!Raise, Kafka!Rejoin, Kafka!Crash, local
  <1>. QED
    BY <1>1, <1>2, <1>3, <1>4, <1>5, <1>6, <1>7 DEF Next, Worker, vars

(* What was published stays published. *)
LEMMA AnswersStay ==
    ASSUME TypeOK, TypeOK', Grows(sendRetry, sendRetry'), Grows(deadLetter, deadLetter')
    PROVE  /\ \A c : IsDeadLettered(c) => IsDeadLettered(c)'
           /\ \A c, n : IsScheduled(c, n) => IsScheduled(c, n)'
           /\ \A m : Answered(m) => Answered(m)'
  <1>1. DOMAIN deadLetter \subseteq DOMAIN deadLetter'
    BY DEF Grows, TypeOK
  <1>2. \A i \in DOMAIN deadLetter : deadLetter'[i] = deadLetter[i]
    BY DEF Grows, TypeOK
  <1>3. DOMAIN sendRetry \subseteq DOMAIN sendRetry'
    BY DEF Grows, TypeOK
  <1>4. \A i \in DOMAIN sendRetry : sendRetry'[i] = sendRetry[i]
    BY DEF Grows, TypeOK
  <1>5. \A c : IsDeadLettered(c) => IsDeadLettered(c)'
    BY <1>1, <1>2 DEF IsDeadLettered
  <1>6. \A c, n : IsScheduled(c, n) => IsScheduled(c, n)'
    BY <1>3, <1>4 DEF IsScheduled
  <1>. QED  BY <1>5, <1>6 DEF Answered

-----------------------------------------------------------------------------
(* What each step of process() may rely on. *)

StepInv ==
    /\ step = "publish_dead_letter" => ~IsRetryable(message) \/ Exhausted(message)
    /\ step = "publish_retry" => IsRetryable(message) /\ ~Exhausted(message)
    /\ step = "mark_dead_lettered" => IsDeadLettered(message.command)
    /\ step = "mark_scheduled" => IsScheduled(message.command, message.retry_count + 1)
    /\ step = "return" => Answered(message)

Inv ==
    /\ TypeOK /\ Offsets /\ InProcess /\ StepInv
    /\ LedgerIsBacked /\ HandledIsAnswered
    /\ RetryIsJustified /\ DeadLetterIsJustified

(* Inside process() the worker stays on its record. *)
LEMMA NextInProcess ==
    ASSUME TypeOK, TypeOK', Offsets, InProcess, [Next]_vars,
           Grows(sendFailed, sendFailed')
    PROVE  /\ InProcess'
           /\ step' # "idle" => message' = message
  <1>1. CASE step' = "idle"
    BY <1>1 DEF InProcess
  <1>2. ASSUME step' # "idle"
        PROVE  Kafka!HasRecord /\ UNCHANGED consumer /\ message # NullRecord
    <2>1. CASE UNCHANGED vars
      BY <1>2, <2>1 DEF vars, InProcess
    <2>2. CASE GiveUp \/ Schedule
      BY <2>2 DEF GiveUp, Schedule, ReadyFor
    <2>3. CASE PublishDeadLetter \/ PublishRetry \/ MarkDeadLettered \/ MarkScheduled
      BY <2>3 DEF PublishDeadLetter, PublishRetry, MarkDeadLettered, MarkScheduled,
         ReadyFor, InProcess
    <2>4. CASE SkipInvalid \/ SkipDeadLettered \/ SkipDuplicate \/ Return \/ Loop
      BY <1>2, <2>4 DEF SkipInvalid, SkipDeadLettered, SkipDuplicate, Return, Loop, ReadyFor
    <2>5. CASE Raise \/ Crash
      BY <1>2, <2>5 DEF Raise, Crash
    <2>6. CASE Rejoin
      BY <1>2, <2>6 DEF Rejoin, Kafka!Rejoin, InProcess, Kafka!HasRecord
    <2>7. CASE Produce
      BY <1>2, <2>7 DEF Produce, Kafka!Produce, InProcess
    <2>. QED
      BY <2>1, <2>2, <2>3, <2>4, <2>5, <2>6, <2>7 DEF Next, Worker
  <1>3. CASE step' # "idle"
    <2>1. Kafka!HasRecord' /\ consumer'.next = consumer.next
      BY <1>2, <1>3 DEF Kafka!HasRecord
    <2>2. message' = message
      BY <1>2, <1>3, <2>1, CurrentIsRecord DEF message, Kafka!Current, Grows
    <2>. QED  BY <1>2, <1>3, <2>1, <2>2 DEF InProcess
  <1>. QED  BY <1>1, <1>3

(* A publication answers the failure it was made for. *)
LEMMA PublishAnswers ==
    ASSUME TypeOK, InProcess, Offsets
    PROVE  /\ PublishDeadLetter => IsDeadLettered(message.command)'
           /\ PublishRetry => IsScheduled(message.command, message.retry_count + 1)'
  <1>1. ASSUME PublishDeadLetter PROVE IsDeadLettered(message.command)'
    <2>1. DeadLetterOf(message) \in DeadLetter
      BY <1>1, InProcessFailure DEF PublishDeadLetter, DeadLetterOf, DeadLetter
    <2>2. /\ deadLetter' \in Seq(DeadLetter)
          /\ Len(deadLetter) + 1 \in 1..Len(deadLetter')
          /\ deadLetter'[Len(deadLetter) + 1] = DeadLetterOf(message)
      BY <1>1, <2>1, AppendFacts DEF PublishDeadLetter, TypeOK
    <2>3. message' = message
      BY <1>1 DEF PublishDeadLetter, message, Kafka!Current
    <2>4. DeadLetterOf(message).command = message.command
      BY DEF DeadLetterOf
    <2>5. Len(deadLetter) + 1 \in DOMAIN deadLetter'
      BY <2>2
    <2>. QED  BY <2>2, <2>3, <2>4, <2>5 DEF IsDeadLettered
  <1>2. ASSUME PublishRetry
        PROVE  IsScheduled(message.command, message.retry_count + 1)'
    <2>1. SendRetryOf(message) \in SendRetry
      BY <1>2, InProcessFailure DEF PublishRetry, SendRetryOf, SendRetry
    <2>2. /\ sendRetry' \in Seq(SendRetry)
          /\ Len(sendRetry) + 1 \in 1..Len(sendRetry')
          /\ sendRetry'[Len(sendRetry) + 1] = SendRetryOf(message)
      BY <1>2, <2>1, AppendFacts DEF PublishRetry, TypeOK
    <2>3. message' = message
      BY <1>2 DEF PublishRetry, message, Kafka!Current
    <2>. QED  BY <2>2, <2>3 DEF IsScheduled, SendRetryOf
  <1>. QED  BY <1>1, <1>2

(* Every step leaves behind what the next one relies on. *)
LEMMA NextStepInv ==
    ASSUME Inv, TypeOK', [Next]_vars,
           Grows(sendFailed, sendFailed'), Grows(sendRetry, sendRetry'),
           Grows(deadLetter, deadLetter')
    PROVE  StepInv'
  <1>. USE DEF Inv
  <1>1. /\ step' # "idle" => message' = message
        /\ \A c : IsDeadLettered(c) => IsDeadLettered(c)'
        /\ \A c, n : IsScheduled(c, n) => IsScheduled(c, n)'
        /\ \A m : Answered(m) => Answered(m)'
    BY NextInProcess, AnswersStay
  <1>2. CASE step' = step
    BY <1>1, <1>2 DEF StepInv, IsRetryable, Exhausted
  <1>3. CASE step' = "idle"
    BY <1>3 DEF StepInv
  <1>4. CASE GiveUp \/ Schedule
    BY <1>1, <1>4 DEF GiveUp, Schedule, StepInv, IsRetryable, Exhausted
  <1>5. CASE PublishDeadLetter \/ PublishRetry
    BY <1>5, PublishAnswers DEF PublishDeadLetter, PublishRetry, StepInv
  <1>6. CASE MarkDeadLettered \/ MarkScheduled
    BY <1>1, <1>6 DEF MarkDeadLettered, MarkScheduled, ReadyFor, StepInv, Answered
  <1>7. CASE SkipInvalid \/ SkipDeadLettered \/ SkipDuplicate \/ Return \/ Loop
    BY <1>7, <1>2, <1>3
    DEF SkipInvalid, SkipDeadLettered, SkipDuplicate, Return, Loop
  <1>8. CASE Raise \/ Rejoin \/ Crash \/ Produce \/ UNCHANGED vars
    BY <1>8, <1>2, <1>3 DEF Raise, Rejoin, Crash, Produce, vars
  <1>. QED
    BY <1>4, <1>5, <1>6, <1>7, <1>8 DEF Next, Worker

-----------------------------------------------------------------------------
(* The invariants *)

(* Only what is on Kafka is entered in the ledger. *)
LEMMA NextLedger ==
    ASSUME Inv, TypeOK', [Next]_vars,
           Grows(sendRetry, sendRetry'), Grows(deadLetter, deadLetter')
    PROVE  LedgerIsBacked'
  <1>. USE DEF Inv
  <1>1. /\ \A c : IsDeadLettered(c) => IsDeadLettered(c)'
        /\ \A c, n : IsScheduled(c, n) => IsScheduled(c, n)'
    BY AnswersStay
  <1>2. CASE UNCHANGED ledger
    BY <1>1, <1>2 DEF LedgerIsBacked
  <1>3. CASE MarkDeadLettered
    <2>1. IsDeadLettered(message.command) /\ message.command \in Commands
      BY <1>3, InProcessFailure DEF MarkDeadLettered, ReadyFor, StepInv
    <2>2. \A c \in Commands :
            /\ c # message.command => ledger'[c] = ledger[c]
            /\ ledger'[c].scheduled_retry_counts = ledger[c].scheduled_retry_counts
      BY <1>3, <2>1 DEF MarkDeadLettered, TypeOK, Attempt
    <2>. QED  BY <1>1, <2>1, <2>2 DEF LedgerIsBacked
  <1>4. CASE MarkScheduled
    <2>1. /\ IsScheduled(message.command, message.retry_count + 1)
          /\ message.command \in Commands
      BY <1>4, InProcessFailure DEF MarkScheduled, ReadyFor, StepInv
    <2>2. /\ \A c \in Commands : c # message.command => ledger'[c] = ledger[c]
          /\ ledger'[message.command].status = "scheduled"
          /\ ledger'[message.command].scheduled_retry_counts =
                ledger[message.command].scheduled_retry_counts
                    \cup {message.retry_count + 1}
      BY <1>4, <2>1 DEF MarkScheduled, TypeOK
    <2>. QED  BY <1>1, <2>1, <2>2 DEF LedgerIsBacked
  <1>. QED
    BY <1>2, <1>3, <1>4
    DEF Next, Worker, vars, local, SkipInvalid, SkipDeadLettered, SkipDuplicate, Return,
        GiveUp, Schedule, PublishDeadLetter, PublishRetry, Loop, Raise, Rejoin,
        Crash, Produce

(* An iteration ends on an answered failure. *)
LEMMA NextHandled ==
    ASSUME Inv, TypeOK', [Next]_vars, Grows(sendFailed, sendFailed'),
           Grows(sendRetry, sendRetry'), Grows(deadLetter, deadLetter')
    PROVE  HandledIsAnswered'
  <1>. USE DEF Inv
  <1>1. \A m : Answered(m) => Answered(m)'
    BY AnswersStay
  <1>2. \A i \in 1..Len(sendFailed) :
            Answered(sendFailed[i]) => Answered(sendFailed[i])'
    BY <1>1 DEF Grows
  <1>3. CASE handled' \subseteq handled
    BY <1>2, <1>3 DEF HandledIsAnswered, Offsets
  <1>4. ASSUME Kafka!Finish, Answered(message)
        PROVE  HandledIsAnswered'
    <2>1. consumer.next + 1 \in 1..Len(sendFailed)
      BY <1>4, CurrentIsRecord DEF Kafka!Finish
    <2>2. Answered(sendFailed[consumer.next + 1])
      BY <1>4 DEF message, Kafka!Current
    <2>3. handled' = handled \cup {consumer.next + 1}
      BY <1>4 DEF Kafka!Finish
    <2>. QED  BY <1>2, <2>1, <2>2, <2>3 DEF HandledIsAnswered, Offsets
  <1>5. CASE SkipInvalid
    BY <1>4, <1>5 DEF SkipInvalid, Answered
  <1>6. CASE SkipDeadLettered \/ SkipDuplicate
    <2>1. message \in Failure
      BY <1>6, CurrentIsRecord DEF SkipDeadLettered, SkipDuplicate, ReadyFor
    <2>2. message.command \in Commands
      BY <2>1 DEF Failure
    <2>3. Answered(message)
      BY <1>6, <2>2 DEF SkipDeadLettered, SkipDuplicate, AlreadyDeadLettered,
         DuplicateRetry, LedgerIsBacked, Answered
    <2>. QED  BY <1>4, <1>6, <2>3 DEF SkipDeadLettered, SkipDuplicate
  <1>7. CASE Return
    BY <1>4, <1>7 DEF Return, ReadyFor, StepInv
  <1>8. CASE Loop \/ Raise \/ Rejoin \/ Crash \/ Produce
    BY <1>8, <1>3 DEF Loop, Raise, Rejoin, Crash, Produce, Kafka!Start, Kafka!Poll,
       Kafka!Commit, Kafka!Raise, Kafka!Rejoin, Kafka!Crash, Kafka!Produce
  <1>. QED
    BY <1>3, <1>5, <1>6, <1>7, <1>8
    DEF Next, Worker, vars, GiveUp, Schedule, PublishDeadLetter, PublishRetry,
        MarkDeadLettered, MarkScheduled

(* A published attempt goes back to a retryable failure with budget left. *)
LEMMA NextJustified ==
    ASSUME Inv, TypeOK', [Next]_vars, Grows(sendFailed, sendFailed')
    PROVE  RetryIsJustified' /\ DeadLetterIsJustified'
  <1>. USE DEF Inv
  <1>1. /\ DOMAIN sendFailed \subseteq DOMAIN sendFailed'
        /\ \A j \in DOMAIN sendFailed : sendFailed'[j] = sendFailed[j]
    BY DEF Grows, TypeOK
  <1>2. ASSUME UNCHANGED sendRetry PROVE RetryIsJustified'
    BY <1>1, <1>2 DEF RetryIsJustified
  <1>3. ASSUME UNCHANGED deadLetter PROVE DeadLetterIsJustified'
    BY <1>1, <1>3 DEF DeadLetterIsJustified
  <1>4. CASE PublishRetry
    <2>. DEFINE j == consumer.next + 1
    <2>1. /\ j \in DOMAIN sendFailed
          /\ sendFailed[j] = message
          /\ message \in Failure /\ message # NullRecord
      BY <1>4, CurrentIsRecord, InProcessFailure
      DEF PublishRetry, ReadyFor, InProcess, message, Kafka!Current, TypeOK
    <2>2. IsRetryable(message) /\ message.retry_count + 1 <= message.max_retries
      BY <1>4, <2>1 DEF PublishRetry, ReadyFor, StepInv, Exhausted, Failure
    <2>3. SendRetryOf(message) \in SendRetry
      BY <2>1 DEF SendRetryOf, SendRetry, Failure
    <2>4. /\ DOMAIN sendRetry' = DOMAIN sendRetry \cup {Len(sendRetry) + 1}
          /\ \A i \in DOMAIN sendRetry : sendRetry'[i] = sendRetry[i]
          /\ sendRetry'[Len(sendRetry) + 1] = SendRetryOf(message)
      BY <1>4, <2>3, AppendFacts DEF PublishRetry, TypeOK
    <2>5. SendRetryOf(message).retry_count <= message.max_retries
      BY <2>2 DEF SendRetryOf
    <2>6. sendFailed' = sendFailed /\ deadLetter' = deadLetter
      BY <1>4 DEF PublishRetry
    <2>7. RetryIsJustified'
      BY <2>1, <2>2, <2>4, <2>5, <2>6 DEF RetryIsJustified
    <2>. QED  BY <1>3, <2>6, <2>7
  <1>5. CASE PublishDeadLetter
    <2>. DEFINE j == consumer.next + 1
    <2>1. /\ j \in DOMAIN sendFailed
          /\ sendFailed[j] = message
          /\ message \in Failure /\ message # NullRecord
      BY <1>5, CurrentIsRecord, InProcessFailure
      DEF PublishDeadLetter, ReadyFor, InProcess, message, Kafka!Current, TypeOK
    <2>2. DeadLetterOf(message).reason = "reported" => ~IsRetryable(message)
      BY <1>5 DEF PublishDeadLetter, ReadyFor, StepInv, DeadLetterOf
    <2>3. DeadLetterOf(message) \in DeadLetter
      BY <2>1 DEF DeadLetterOf, DeadLetter, Failure
    <2>4. /\ DOMAIN deadLetter' = DOMAIN deadLetter \cup {Len(deadLetter) + 1}
          /\ \A i \in DOMAIN deadLetter : deadLetter'[i] = deadLetter[i]
          /\ deadLetter'[Len(deadLetter) + 1] = DeadLetterOf(message)
      BY <1>5, <2>3, AppendFacts DEF PublishDeadLetter, TypeOK
    <2>5. sendFailed' = sendFailed /\ sendRetry' = sendRetry
      BY <1>5 DEF PublishDeadLetter
    <2>6. DeadLetterIsJustified'
      BY <2>1, <2>2, <2>4, <2>5 DEF DeadLetterIsJustified
    <2>. QED  BY <1>2, <2>5, <2>6
  <1>. QED
    BY <1>2, <1>3, <1>4, <1>5
    DEF Next, Worker, vars, local, SkipInvalid, SkipDeadLettered, SkipDuplicate,
        Return, GiveUp, Schedule, MarkDeadLettered, MarkScheduled, Loop, Raise,
        Rejoin, Crash, Produce

-----------------------------------------------------------------------------

(* The inductive invariant: it holds initially and every step keeps it. *)
LEMMA InvInductive == (Init => Inv) /\ (Inv /\ [Next]_vars => Inv')
  <1>1. Init => Inv
    <2>. SUFFICES ASSUME Init PROVE Inv
      OBVIOUS
    <2>1. TypeOK /\ Offsets /\ InProcess
      BY InitTypes
    <2>2. StepInv /\ LedgerIsBacked /\ HandledIsAnswered
      BY DEF Init, Kafka!Init, StepInv, LedgerIsBacked, HandledIsAnswered, NoAttempt
    <2>3. RetryIsJustified /\ DeadLetterIsJustified
      BY DEF Init, RetryIsJustified, DeadLetterIsJustified
    <2>. QED  BY <2>1, <2>2, <2>3 DEF Inv
  <1>2. ASSUME Inv, [Next]_vars PROVE Inv'
    <2>1. TypeOK' /\ Offsets'
      BY <1>2, NextTypes DEF Inv
    <2>2. /\ Grows(sendFailed, sendFailed')
          /\ Grows(sendRetry, sendRetry')
          /\ Grows(deadLetter, deadLetter')
      BY <1>2, TopicsGrow DEF Inv
    <2>3. InProcess'
      BY <1>2, <2>1, <2>2, NextInProcess DEF Inv
    <2>4. StepInv' /\ LedgerIsBacked' /\ HandledIsAnswered'
      BY <1>2, <2>1, <2>2, NextStepInv, NextLedger, NextHandled
    <2>5. RetryIsJustified' /\ DeadLetterIsJustified'
      BY <1>2, <2>1, <2>2, NextJustified
    <2>. QED  BY <2>1, <2>3, <2>4, <2>5 DEF Inv
  <1>. QED  BY <1>1, <1>2

(* Inv holds throughout. *)
LEMMA Invariance == Spec => []Inv
  BY InvInductive, PTL DEF Spec

(* Every reachable state has the types, RetryProcessor's and the consumer's. *)
THEOREM RetryTypeCorrect == Spec => []TypeOK
  BY Invariance, PTL DEF Inv

(* The ledger, which makes process() skip a failure, only ever claims what
   is on Kafka, wherever the worker crashes or a call raises. *)
THEOREM LedgerNeverAheadOfKafka == Spec => []LedgerIsBacked
  BY Invariance, PTL DEF Inv

(* A failure whose iteration ran to its end has been retried or dead-lettered:
   none of the skips of process() swallows one. *)
THEOREM NoHandledFailureIsLost == Spec => []HandledIsAnswered
  BY Invariance, PTL DEF Inv

(* No attempt beyond the budget, and none for a failure that is final. *)
THEOREM RetriesAreJustified == Spec => []RetryIsJustified
  BY Invariance, PTL DEF Inv

(* Nothing is given up that may still be retried. *)
THEOREM DeadLettersAreJustified == Spec => []DeadLetterIsJustified
  BY Invariance, PTL DEF Inv

-----------------------------------------------------------------------------
(* Dead-lettering is final *)

(* No step takes dead_lettered back, given that process() is not about to
   schedule a command that is. *)
LEMMA StepKeepsDeadLetter ==
    ASSUME Inv, [Next]_vars, NEW c \in Commands, ledger[c].status = "dead_lettered",
           step = "mark_scheduled" => message.command # c,
           step = "publish_retry" => message.command # c
    PROVE  /\ ledger'[c].status = "dead_lettered"
           /\ \A n \in 1..Len(sendRetry') : n > Len(sendRetry) =>
                 sendRetry'[n].command # c
  <1>. USE DEF Inv
  <1>1. CASE UNCHANGED <<ledger, sendRetry>>
    BY <1>1 DEF TypeOK
  <1>2. CASE MarkDeadLettered
    BY <1>2, InProcessFailure DEF MarkDeadLettered, TypeOK, Attempt
  <1>3. CASE MarkScheduled
    BY <1>3 DEF MarkScheduled, ReadyFor, TypeOK
  <1>4. CASE PublishRetry
    <2>1. SendRetryOf(message) \in SendRetry /\ message.command # c
      BY <1>4, InProcessFailure DEF PublishRetry, ReadyFor, SendRetryOf, SendRetry
    <2>2. /\ Len(sendRetry') = Len(sendRetry) + 1
          /\ sendRetry'[Len(sendRetry) + 1].command # c
      BY <1>4, <2>1, AppendFacts DEF PublishRetry, TypeOK, SendRetryOf
    <2>. QED  BY <1>4, <2>2 DEF PublishRetry, TypeOK
  <1>. QED
    BY <1>1, <1>2, <1>3, <1>4
    DEF Next, Worker, vars, local, SkipInvalid, SkipDeadLettered, SkipDuplicate, Return,
        GiveUp, Schedule, PublishDeadLetter, Loop, Raise, Rejoin, Crash, Produce

(* process() on its way to a retry found its command not dead-lettered, and
   nothing else writes the ledger. *)
NotDead ==
    step \in {"publish_retry", "mark_scheduled"} =>
        ledger[message.command].status # "dead_lettered"

(* process() never publishes an attempt of a command whose ledger says
   dead_lettered: it checked, and nobody else writes the ledger. *)
LEMMA NotDeadInductive ==
    /\ Init => NotDead
    /\ Inv /\ NotDead /\ TypeOK' /\ [Next]_vars /\ Grows(sendFailed, sendFailed') => NotDead'
  <1>1. Init => NotDead
    BY DEF Init, NotDead
  <1>2. ASSUME Inv, NotDead, TypeOK', [Next]_vars, Grows(sendFailed, sendFailed')
        PROVE  NotDead'
    <2>. USE DEF Inv
    <2>1. step' # "idle" => message' = message
      BY <1>2, NextInProcess
    <2>2. CASE step' = step /\ UNCHANGED ledger
      BY <1>2, <2>1, <2>2 DEF NotDead
    <2>3. CASE step' \notin {"publish_retry", "mark_scheduled"}
      BY <2>3 DEF NotDead
    <2>4. CASE Schedule
      BY <2>1, <2>4 DEF Schedule, NotDead, AlreadyDeadLettered, local
    <2>5. CASE PublishRetry
      BY <1>2, <2>1, <2>5 DEF PublishRetry, ReadyFor, NotDead
    <2>. QED
      BY <1>2, <2>2, <2>3, <2>4, <2>5
      DEF Next, Worker, vars, local, SkipInvalid, SkipDeadLettered, SkipDuplicate,
          Return, GiveUp, PublishDeadLetter, MarkDeadLettered, MarkScheduled,
          Loop, Raise, Rejoin, Crash, Produce
  <1>. QED  BY <1>1, <1>2

(* Once dead-lettered, a command stays so and is never published again. *)
THEOREM DeadLettersAreFinal == Spec => DeadLetterIsFinal
  <1>1. Inv /\ [Next]_vars => TypeOK' /\ Grows(sendFailed, sendFailed')
    BY InvInductive, TopicsGrow DEF Inv
  <1>2. Inv /\ NotDead /\ [Next]_vars => NotDead'
    BY <1>1, NotDeadInductive
  <1>3. ASSUME Inv, NotDead, [Next]_vars
        PROVE  \A c \in Commands : ledger[c].status = "dead_lettered" =>
                  /\ ledger'[c].status = "dead_lettered"
                  /\ \A n \in 1..Len(sendRetry') : n > Len(sendRetry) =>
                        sendRetry'[n].command # c
    BY <1>3, StepKeepsDeadLetter DEF NotDead
  <1>. QED
    BY <1>1, <1>2, <1>3, Invariance, NotDeadInductive, PTL DEF Spec, DeadLetterIsFinal

-----------------------------------------------------------------------------
(* Without exceptions, the committed offset passes no unanswered failure. *)

Progress ==
    /\ 1..consumer.committed \subseteq handled
    /\ consumer.mode = "polling" => 1..consumer.position \subseteq handled
    /\ consumer.mode = "batch" => 1..consumer.next \subseteq handled

(* Without exceptions that leave the batch, the committed offset and the
   position never pass a record that is not handled. *)
LEMMA ProgressInductive ==
    ASSUME "raise" \notin FaultKinds
    PROVE  /\ Init => Progress
           /\ Inv /\ Progress /\ [Next]_vars => Progress'
  <1>1. Init => Progress
    BY DEF Init, Kafka!Init, Kafka!InitialConsumer, Progress
  <1>2. ASSUME Inv, Progress, [Next]_vars PROVE Progress'
    <2>. USE DEF Inv
    <2>1. /\ consumer.committed \in Nat /\ consumer.position \in Nat
          /\ consumer.next \in Nat
          /\ consumer \in Kafka!ConsumerType
      BY <1>2 DEF TypeOK, Kafka!ConsumerType
    <2>. USE DEF Kafka!ConsumerType
    <2>2. CASE UNCHANGED <<consumer, handled>>
      BY <1>2, <2>2 DEF Progress
    <2>3. CASE Kafka!Finish
      <3>1. /\ consumer'.next = consumer.next + 1
            /\ consumer'.mode = "batch"
            /\ consumer'.committed = consumer.committed
        BY <2>1, <2>3 DEF Kafka!Finish, Kafka!HasRecord
      <3>2. handled' = handled \cup {consumer.next + 1}
        BY <2>3 DEF Kafka!Finish
      <3>3. 1..consumer.next \subseteq handled
        BY <1>2, <2>3 DEF Progress, Kafka!Finish, Kafka!HasRecord
      <3>4. 1..consumer.next + 1 = (1..consumer.next) \cup {consumer.next + 1}
        BY <2>1
      <3>. QED  BY <1>2, <3>1, <3>2, <3>3, <3>4 DEF Progress
    <2>4. CASE Kafka!Start
      BY <1>2, <2>1, <2>4 DEF Kafka!Start, Progress
    <2>5. CASE Kafka!Commit
      BY <1>2, <2>1, <2>5 DEF Kafka!Commit, Progress
    <2>6. CASE Kafka!Poll
      <3>1. PICK n \in 1..MaxPoll :
              /\ consumer' = [consumer EXCEPT !.mode = "batch",
                                              !.next = consumer.position,
                                              !.position = consumer.position + n]
              /\ handled' = handled \ (consumer.position + 1 .. consumer.position + n)
        BY <2>6 DEF Kafka!Poll
      <3>2. /\ consumer.mode = "polling"
            /\ consumer'.mode = "batch"
            /\ consumer'.next = consumer.position
            /\ consumer'.committed = consumer.committed
        BY <2>1, <2>6, <3>1 DEF Kafka!Poll
      <3>3. consumer.committed <= consumer.position
        BY <1>2 DEF Offsets
      <3>4. 1..consumer.position \subseteq handled
        BY <1>2, <3>2 DEF Progress
      <3>5. 1..consumer.position \subseteq handled'
        BY <2>1, <3>1, <3>4
      <3>6. 1..consumer.committed \subseteq 1..consumer.position
        BY <2>1, <3>3
      <3>. QED  BY <3>2, <3>5, <3>6 DEF Progress
    <2>7. CASE Rejoin \/ Crash
      BY <1>2, <2>1, <2>7 DEF Rejoin, Crash, Kafka!Rejoin, Kafka!Crash, Progress
    <2>8. ~Raise
      BY DEF Raise, Kafka!Fault
    <2>9. CASE Loop
      BY <2>9, <2>4, <2>5, <2>6 DEF Loop
    <2>10. CASE SkipInvalid \/ SkipDeadLettered \/ SkipDuplicate \/ Return
      BY <2>10, <2>3 DEF SkipInvalid, SkipDeadLettered, SkipDuplicate, Return
    <2>. QED
      BY <1>2, <2>2, <2>7, <2>8, <2>9, <2>10
      DEF Next, Worker, vars, GiveUp, Schedule, PublishDeadLetter, PublishRetry,
          MarkDeadLettered, MarkScheduled, Produce, Kafka!Produce
  <1>. QED  BY <1>1, <1>2

(* Crashes and rejoins alone never make a committed failure unanswered: only
   an exception that leaves the batch does. *)
THEOREM CrashesLoseNothing ==
    ASSUME "raise" \notin FaultKinds
    PROVE  Spec => []CommittedIsAnswered
  <1>1. Inv /\ Progress => CommittedIsAnswered
    BY DEF Inv, Progress, HandledIsAnswered, CommittedIsAnswered
  <1>2. (Init => Progress) /\ (Inv /\ Progress /\ [Next]_vars => Progress')
    BY ProgressInductive
  <1>. QED  BY <1>1, <1>2, Invariance, PTL DEF Spec

-----------------------------------------------------------------------------
(* What faults cost: another copy of an attempt each. *)

\* The ledger knows of the attempt, or is about to.
Counted(c, n) ==
    \/ n \in ledger[c].scheduled_retry_counts
    \/ step = "mark_scheduled" /\ message.command = c /\ message.retry_count + 1 = n

\* process() publishes an attempt that is not counted, and one that is counted
\* was published once, plus once per fault.
FaultsPay ==
    /\ step = "publish_retry" => ~DuplicateRetry(message)
    /\ \A c \in Commands, n \in Nat :
          Copies(c, n) <= faults + IF Counted(c, n) THEN 1 ELSE 0

(* A publication adds one copy of its attempt, and none of any other. *)
LEMMA PublishCopies ==
    ASSUME TypeOK, Offsets, InProcess, PublishRetry, NEW CONSTANT c, NEW CONSTANT n
    PROVE  /\ Copies(c, n) \in Nat
           /\ Copies(c, n)' \in Nat
           /\ Copies(c, n)' <= Copies(c, n) + 1
           /\ ~(message.command = c /\ message.retry_count + 1 = n) =>
                 Copies(c, n)' = Copies(c, n)
  <1>. DEFINE Of(s) == {i \in DOMAIN s : s[i].command = c /\ s[i].retry_count = n}
              k == Len(sendRetry) + 1
  <1>1. SendRetryOf(message) \in SendRetry /\ sendRetry \in Seq(SendRetry)
    BY InProcessFailure DEF PublishRetry, SendRetryOf, SendRetry, TypeOK
  <1>2. /\ DOMAIN sendRetry' = DOMAIN sendRetry \cup {k}
        /\ \A i \in DOMAIN sendRetry : sendRetry'[i] = sendRetry[i]
        /\ sendRetry'[k] = SendRetryOf(message)
    BY <1>1, AppendFacts DEF PublishRetry
  <1>3. IsFiniteSet(Of(sendRetry))
    <2>1. IsFiniteSet(1..Len(sendRetry)) /\ DOMAIN sendRetry = 1..Len(sendRetry)
      BY <1>1, FS_Interval
    <2>. QED  BY <2>1, FS_Subset
  <1>4. /\ Copies(c, n) = Cardinality(Of(sendRetry))
        /\ Copies(c, n)' = Cardinality(Of(sendRetry'))
    BY DEF Copies
  <1>5. Cardinality(Of(sendRetry)) \in Nat
    BY <1>3, FS_CardinalityType
  <1>6. CASE message.command = c /\ message.retry_count + 1 = n
    <2>1. Of(sendRetry') = Of(sendRetry) \cup {k}
      BY <1>2, <1>6 DEF SendRetryOf
    <2>2. \/ Cardinality(Of(sendRetry')) = Cardinality(Of(sendRetry))
          \/ Cardinality(Of(sendRetry')) = Cardinality(Of(sendRetry)) + 1
      BY <1>3, <2>1, FS_AddElement
    <2>. HIDE DEF Of
    <2>. QED  BY <1>4, <1>5, <1>6, <2>2
  <1>7. CASE ~(message.command = c /\ message.retry_count + 1 = n)
    <2>1. Of(sendRetry') = Of(sendRetry)
      BY <1>2, <1>7 DEF SendRetryOf
    <2>. HIDE DEF Of
    <2>. QED  BY <1>4, <1>5, <1>7, <2>1
  <1>. QED  BY <1>6, <1>7

(* The number of copies is a number. *)
LEMMA CopiesType ==
    ASSUME TypeOK, NEW CONSTANT c, NEW CONSTANT n
    PROVE  Copies(c, n) \in Nat
  <1>1. IsFiniteSet(1..Len(sendRetry)) /\ DOMAIN sendRetry = 1..Len(sendRetry)
    BY FS_Interval DEF TypeOK
  <1>2. IsFiniteSet({i \in DOMAIN sendRetry :
                        sendRetry[i].command = c /\ sendRetry[i].retry_count = n})
    BY <1>1, FS_Subset
  <1>. QED  BY <1>2, FS_CardinalityType DEF Copies

(* process() publishes only what it has just found not to be scheduled. *)
LEMMA NextPublishesNew ==
    ASSUME Inv, Inv', [Next]_vars, Grows(sendFailed, sendFailed'),
           step = "publish_retry" => ~DuplicateRetry(message)
    PROVE  step' = "publish_retry" => ~DuplicateRetry(message)'
  <1>. SUFFICES ASSUME step' = "publish_retry" PROVE ~DuplicateRetry(message)'
    OBVIOUS
  <1>1. message' = message
    BY NextInProcess DEF Inv
  <1>2. ledger' = ledger
    BY DEF Next, Worker, vars, local, SkipInvalid, SkipDeadLettered, SkipDuplicate, GiveUp,
           PublishDeadLetter, MarkDeadLettered, Schedule, PublishRetry, MarkScheduled,
           Return, Loop, Raise, Rejoin, Crash, Produce
  <1>3. ~DuplicateRetry(message)
    BY DEF Next, Worker, vars, local, ReadyFor, SkipInvalid, SkipDeadLettered, SkipDuplicate,
           GiveUp, PublishDeadLetter, MarkDeadLettered, Schedule, PublishRetry,
           MarkScheduled, Return, Loop, Raise, Rejoin, Crash, Produce
  <1>. QED  BY <1>1, <1>2, <1>3 DEF DuplicateRetry

(* Every step keeps the account of an attempt: a fault between the publication
   and the entry in the ledger is the only way to a second copy. *)
LEMMA NextPays ==
    ASSUME Inv, Inv', [Next]_vars, Grows(sendFailed, sendFailed'), FaultsPay,
           NEW CONSTANT c \in Commands, NEW CONSTANT n \in Nat
    PROVE  Copies(c, n)' <= faults' + IF Counted(c, n)' THEN 1 ELSE 0
  <1>1. /\ step' # "idle" => message' = message
        /\ faults \in Nat
        /\ Copies(c, n) \in Nat
        /\ Copies(c, n) <= faults + IF Counted(c, n) THEN 1 ELSE 0
    BY NextInProcess, CopiesType DEF Inv, TypeOK, FaultsPay
  <1>2. ASSUME sendRetry' = sendRetry PROVE Copies(c, n)' = Copies(c, n)
    BY <1>2 DEF Copies
  <1>3. ASSUME UNCHANGED <<ledger, sendRetry, faults>>,
               step = "mark_scheduled" => step' = "mark_scheduled"
        PROVE  Copies(c, n)' <= faults' + IF Counted(c, n)' THEN 1 ELSE 0
    <2>1. Counted(c, n) => Counted(c, n)'
      BY <1>1, <1>3 DEF Counted
    <2>. QED  BY <1>1, <1>2, <1>3, <2>1
  <1>4. CASE PublishRetry
    <2>1. /\ step = "publish_retry"
          /\ step' = "mark_scheduled"
          /\ UNCHANGED <<ledger, faults>>
      BY <1>4 DEF PublishRetry, ReadyFor
    <2>2. Counted(c, n)' <=> \/ n \in ledger[c].scheduled_retry_counts
                             \/ message.command = c /\ message.retry_count + 1 = n
      BY <1>1, <2>1 DEF Counted
    <2>3. Counted(c, n) <=> n \in ledger[c].scheduled_retry_counts
      BY <2>1 DEF Counted
    <2>4. message.command = c /\ message.retry_count + 1 = n =>
             n \notin ledger[c].scheduled_retry_counts
      BY <2>1 DEF FaultsPay, DuplicateRetry
    <2>5. /\ Copies(c, n)' \in Nat
          /\ Copies(c, n)' <= Copies(c, n) + 1
          /\ ~(message.command = c /\ message.retry_count + 1 = n) =>
                Copies(c, n)' = Copies(c, n)
      BY <1>4, PublishCopies DEF Inv
    <2>. QED  BY <1>1, <2>1, <2>2, <2>3, <2>4, <2>5
  <1>5. CASE MarkScheduled
    <2>1. /\ step = "mark_scheduled"
          /\ message.command \in Commands
          /\ UNCHANGED <<sendRetry, faults>>
          /\ ledger' = [ledger EXCEPT ![message.command] =
                [status |-> "scheduled",
                 retry_count |-> message.retry_count + 1,
                 scheduled_retry_counts |-> @.scheduled_retry_counts
                                                \cup {message.retry_count + 1}]]
      BY <1>5, InProcessFailure DEF MarkScheduled, ReadyFor, Inv
    <2>2. Counted(c, n) => n \in ledger'[c].scheduled_retry_counts
      BY <2>1 DEF Counted, Inv, TypeOK
    <2>3. Counted(c, n) => Counted(c, n)'
      BY <2>2 DEF Counted
    <2>. QED  BY <1>1, <1>2, <2>1, <2>3
  <1>6. CASE MarkDeadLettered
    <2>1. /\ step = "mark_dead_lettered"
          /\ message.command \in Commands
          /\ UNCHANGED <<sendRetry, faults>>
          /\ ledger' = [ledger EXCEPT ![message.command].status = "dead_lettered",
                                      ![message.command].retry_count = message.retry_count]
      BY <1>6, InProcessFailure DEF MarkDeadLettered, ReadyFor, Inv
    <2>2. ledger'[c].scheduled_retry_counts = ledger[c].scheduled_retry_counts
      BY <2>1 DEF Inv, TypeOK, Attempt
    <2>3. Counted(c, n) => Counted(c, n)'
      BY <2>1, <2>2 DEF Counted
    <2>. QED  BY <1>1, <1>2, <2>1, <2>3
  <1>7. CASE Raise \/ Rejoin \/ Crash
    <2>1. faults' = faults + 1 /\ sendRetry' = sendRetry
      BY <1>7 DEF Raise, Rejoin, Crash, Kafka!Fault, local
    <2>. QED  BY <1>1, <1>2, <2>1
  <1>. QED
    BY <1>3, <1>4, <1>5, <1>6, <1>7
    DEF Next, Worker, vars, local, ReadyFor, SkipInvalid, SkipDeadLettered, SkipDuplicate,
        GiveUp, PublishDeadLetter, Schedule, Return, Loop, Produce

(* The account is inductive, beside the invariant. *)
LEMMA FaultsPayInductive ==
    (Init => FaultsPay) /\ (Inv /\ Inv' /\ FaultsPay /\ [Next]_vars => FaultsPay')
  <1>1. ASSUME Init PROVE FaultsPay
    <2>1. ASSUME NEW c \in Commands, NEW n \in Nat PROVE Copies(c, n) = 0
      <3>1. {i \in DOMAIN sendRetry :
                sendRetry[i].command = c /\ sendRetry[i].retry_count = n} = {}
        BY <1>1 DEF Init
      <3>. QED  BY <3>1, FS_EmptySet DEF Copies
    <2>. QED  BY <1>1, <2>1 DEF Init, Kafka!Init, FaultsPay
  <1>2. ASSUME Inv, Inv', FaultsPay, [Next]_vars PROVE FaultsPay'
    <2>1. Grows(sendFailed, sendFailed')
      BY <1>2, TopicsGrow DEF Inv
    <2>. QED  BY <1>2, <2>1, NextPublishesNew, NextPays DEF FaultsPay
  <1>. QED  BY <1>1, <1>2

(* However often a failure is redelivered or reported again, an attempt of a
   command reaches Kafka once, and at most once more per fault. *)
THEOREM FaultsCostACopyEach == Spec => []DuplicatesBounded
  <1>1. ASSUME Inv, FaultsPay PROVE DuplicatesBounded
    <2>. SUFFICES ASSUME NEW i \in DOMAIN sendRetry
                  PROVE  Copies(sendRetry[i].command, sendRetry[i].retry_count) <= 1 + faults
      BY DEF DuplicatesBounded
    <2>1. /\ sendRetry[i].command \in Commands
          /\ sendRetry[i].retry_count \in Nat
          /\ faults \in Nat
      <3>1. sendRetry[i] \in SendRetry
        BY <1>1 DEF Inv, TypeOK
      <3>. QED  BY <1>1, <3>1 DEF Inv, TypeOK, SendRetry
    <2>2. PICK c \in Commands, n \in Nat :
             c = sendRetry[i].command /\ n = sendRetry[i].retry_count
      BY <2>1
    <2>3. Copies(c, n) \in Nat /\ Copies(c, n) <= faults + 1
      BY <1>1, <2>1, CopiesType DEF FaultsPay, Inv
    <2>. QED  BY <2>1, <2>2, <2>3
  <1>2. (Init => Inv) /\ (Inv /\ [Next]_vars => Inv')
    BY InvInductive
  <1>3. (Init => FaultsPay) /\ (Inv /\ Inv' /\ FaultsPay /\ [Next]_vars => FaultsPay')
    BY FaultsPayInductive
  <1>. QED  BY <1>1, <1>2, <1>3, PTL DEF Spec
=============================================================================
