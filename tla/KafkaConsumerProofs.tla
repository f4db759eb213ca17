------------------------ MODULE KafkaConsumerProofs ------------------------
(***************************************************************************)
(* What the poll / process / commit loop keeps for every topic, batch size *)
(* and number of faults.  The first part is about the steps one by one, so *)
(* that the proofs about the workers, which instantiate the loop, can cite *)
(* it; the second part is about the loop on its own.                       *)
(***************************************************************************)
EXTENDS KafkaConsumer, FiniteSetTheorems, TLAPS

\* Types and order of the loop's own variables, whoever counts the faults.
LoopInv ==
    /\ log \in Seq(Records)
    /\ consumer \in ConsumerType
    /\ handled \subseteq 1..Len(log)
    /\ OffsetOrder

\* Somebody publishes to the topic, however long it is.
Published ==
    \E r \in Records : log' = Append(log, r) /\ UNCHANGED <<consumer, handled>>

\* The steps of the loop and of its environment: those that keep the place in
\* the batch, or give it up for the committed offset, and the one that does not.
OrderlyStep ==
    \/ Start \/ Poll \/ Finish \/ Commit \/ Rejoin \/ Crash
    \/ Published

LoopStep == OrderlyStep \/ Raise

\* A topic is only appended to.
Grows(s, t) == Len(s) <= Len(t) /\ \A i \in 1..Len(s) : t[i] = s[i]

-----------------------------------------------------------------------------
(* The steps of the loop *)

(* The record that comes next is one of the topic's. *)
LEMMA CurrentIsRecord ==
    ASSUME LoopInv, HasRecord
    PROVE  consumer.next + 1 \in 1..Len(log) /\ Current \in Records
  <1>1. consumer.next + 1 \in 1..Len(log)
    BY DEF LoopInv, HasRecord, OffsetOrder, ConsumerType
  <1>. QED  BY <1>1 DEF LoopInv, Current

(* poll() takes the next records, at most MaxPoll of them, and forgets what
   became of their earlier deliveries. *)
LEMMA PollTakes ==
    ASSUME LoopInv, Poll
    PROVE  \E n \in 1..MaxPoll :
              /\ consumer.mode = "polling"
              /\ consumer.position + n <= Len(log)
              /\ consumer' \in ConsumerType
              /\ consumer'.mode = "batch"
              /\ consumer'.committed = consumer.committed
              /\ consumer'.next = consumer.position
              /\ consumer'.position = consumer.position + n
              /\ handled' = handled \ (consumer.position + 1 .. consumer.position + n)
              /\ log' = log
  <1>1. PICK n \in 1..MaxPoll :
            /\ consumer.position + n <= Len(log)
            /\ consumer' = [consumer EXCEPT !.mode = "batch",
                                            !.next = consumer.position,
                                            !.position = consumer.position + n]
            /\ handled' = handled \ (consumer.position + 1 .. consumer.position + n)
    BY DEF Poll
  <1>2. consumer \in ConsumerType /\ n \in Nat /\ consumer.position \in Nat
    BY ConsumerAssumption DEF LoopInv, ConsumerType
  <1>. consumer.position + n \in Nat
    BY <1>2
  <1>3. /\ consumer' \in ConsumerType
        /\ consumer'.mode = "batch"
        /\ consumer'.committed = consumer.committed
        /\ consumer'.next = consumer.position
        /\ consumer'.position = consumer.position + n
    BY <1>1, <1>2 DEF ConsumerType
  <1>. QED  BY <1>1, <1>3 DEF Poll

(* Finish moves on by one record, and remembers it. *)
LEMMA FinishMoves ==
    ASSUME LoopInv, Finish
    PROVE  /\ consumer' \in ConsumerType
           /\ consumer'.mode = "batch"
           /\ consumer'.committed = consumer.committed
           /\ consumer'.position = consumer.position
           /\ consumer'.next = consumer.next + 1
           /\ consumer.next + 1 \in 1..Len(log)
           /\ consumer.next + 1 <= consumer.position
           /\ handled' = handled \cup {consumer.next + 1}
           /\ log' = log
  BY CurrentIsRecord DEF LoopInv, Finish, HasRecord, ConsumerType

(* Every step keeps the types and the order of the offsets, and none rewrites
   the topic. *)
LEMMA LoopStepKeeps ==
    ASSUME LoopInv, LoopStep \/ UNCHANGED <<log, consumer, handled>>
    PROVE  LoopInv' /\ Grows(log, log')
  <1>1. ASSUME log' = log PROVE Grows(log, log')
    BY <1>1 DEF Grows, LoopInv
  <1>2. CASE UNCHANGED <<log, consumer, handled>>
    BY <1>1, <1>2 DEF LoopInv, OffsetOrder
  <1>3. CASE Start \/ Rejoin
    <2>1. /\ consumer' \in ConsumerType
          /\ consumer'.mode = "polling"
          /\ consumer'.committed = consumer.committed
          /\ consumer'.position = consumer.committed
      BY <1>3 DEF Start, Rejoin, LoopInv, ConsumerType
    <2>2. UNCHANGED <<log, handled>>
      BY <1>3 DEF Start, Rejoin
    <2>3. Len(log) \in Nat /\ consumer.position \in Nat /\ consumer.committed \in Nat
      BY DEF LoopInv, ConsumerType
    <2>4. OffsetOrder'
      BY <2>1, <2>2, <2>3 DEF LoopInv, OffsetOrder
    <2>. QED  BY <1>1, <2>1, <2>2, <2>4 DEF LoopInv
  <1>4. CASE Poll
    <2>1. PICK n \in 1..MaxPoll :
              /\ consumer.position + n <= Len(log)
              /\ consumer' \in ConsumerType
              /\ consumer'.mode = "batch"
              /\ consumer'.committed = consumer.committed
              /\ consumer'.next = consumer.position
              /\ consumer'.position = consumer.position + n
              /\ handled' = handled \ (consumer.position + 1 .. consumer.position + n)
              /\ log' = log
      BY <1>4, PollTakes
    <2>2. n \in Nat /\ consumer.position \in Nat /\ consumer.committed \in Nat
      BY ConsumerAssumption DEF LoopInv, ConsumerType
    <2>3. OffsetOrder'
      BY <2>1, <2>2 DEF OffsetOrder, LoopInv
    <2>. QED  BY <1>1, <2>1, <2>3 DEF LoopInv
  <1>5. CASE Finish
    <2>1. consumer.next \in Nat /\ consumer.position \in Nat /\ consumer.committed \in Nat
      BY DEF LoopInv, ConsumerType
    <2>2. OffsetOrder'
      BY <1>5, <2>1, FinishMoves DEF LoopInv, OffsetOrder, Finish, HasRecord
    <2>. QED  BY <1>1, <1>5, <2>2, FinishMoves DEF LoopInv
  <1>6. CASE Commit
    BY <1>1, <1>6 DEF Commit, LoopInv, OffsetOrder, ConsumerType
  <1>7. CASE Raise \/ Crash
    BY <1>1, <1>7 DEF Raise, Crash, LoopInv, OffsetOrder, ConsumerType
  <1>8. CASE Published
    <2>1. /\ log' \in Seq(Records)
          /\ Len(log') = Len(log) + 1
          /\ \A i \in 1..Len(log) : log'[i] = log[i]
      BY <1>8 DEF Published, LoopInv
    <2>2. UNCHANGED <<consumer, handled>>
      BY <1>8 DEF Published
    <2>3. Len(log) \in Nat /\ consumer.position \in Nat
      BY DEF LoopInv, ConsumerType
    <2>. QED  BY <2>1, <2>2, <2>3 DEF LoopInv, OffsetOrder, Grows
  <1>. QED
    BY <1>2, <1>3, <1>4, <1>5, <1>6, <1>7, <1>8 DEF LoopStep, OrderlyStep

(* Whatever is published meanwhile, the loop keeps its place. *)
LEMMA TopicGrows ==
    ASSUME LoopInv, UNCHANGED <<consumer, handled>>, log' \in Seq(Records), Grows(log, log')
    PROVE  LoopInv'
  <1>1. /\ Len(log) \in Nat /\ Len(log') \in Nat /\ Len(log) <= Len(log')
        /\ consumer.position \in Nat
    BY DEF LoopInv, ConsumerType, Grows
  <1>. QED  BY <1>1 DEF LoopInv, OffsetOrder

\* Nothing is left behind that is not handled.
Progress ==
    /\ 1..consumer.committed \subseteq handled
    /\ consumer.mode = "polling" => 1..consumer.position \subseteq handled
    /\ consumer.mode = "batch" => 1..consumer.next \subseteq handled

(* Only an exception that leaves the batch leaves records behind: every other
   step goes on where all before it is handled, or back to there. *)
LEMMA StepKeepsProgress ==
    ASSUME LoopInv, Progress,
           OrderlyStep \/ UNCHANGED <<log, consumer, handled>>
    PROVE  Progress'
  <1>1. /\ consumer \in ConsumerType
        /\ consumer.committed \in Nat /\ consumer.position \in Nat
        /\ consumer.next \in Nat
    BY DEF LoopInv, ConsumerType
  <1>2. CASE UNCHANGED <<consumer, handled>>
    BY <1>2 DEF Progress
  <1>3. CASE Start \/ Rejoin \/ Crash
    BY <1>1, <1>3 DEF Start, Rejoin, Crash, Progress, ConsumerType
  <1>4. CASE Poll
    <2>1. PICK n \in 1..MaxPoll :
              /\ consumer.mode = "polling"
              /\ consumer'.mode = "batch"
              /\ consumer'.committed = consumer.committed
              /\ consumer'.next = consumer.position
              /\ handled' = handled \ (consumer.position + 1 .. consumer.position + n)
      BY <1>4, PollTakes
    <2>2. consumer.committed <= consumer.position /\ 1..consumer.position \subseteq handled
      BY <2>1 DEF LoopInv, OffsetOrder, Progress
    <2>3. 1..consumer.position \subseteq handled'
      BY <1>1, <2>1, <2>2
    <2>4. 1..consumer.committed \subseteq 1..consumer.position
      BY <1>1, <2>2
    <2>. QED  BY <2>1, <2>3, <2>4 DEF Progress
  <1>5. CASE Finish
    <2>1. 1..consumer.next \subseteq handled
      BY <1>5 DEF Finish, HasRecord, Progress
    <2>2. 1 .. consumer.next + 1 = (1..consumer.next) \cup {consumer.next + 1}
      BY <1>1
    <2>. QED  BY <1>5, <2>1, <2>2, FinishMoves DEF Progress
  <1>6. CASE Commit
    BY <1>1, <1>6 DEF Commit, Progress, ConsumerType
  <1>7. CASE Published
    BY <1>7, <1>2 DEF Published
  <1>. QED  BY <1>2, <1>3, <1>4, <1>5, <1>6, <1>7 DEF OrderlyStep

-----------------------------------------------------------------------------
(* The loop on its own: types and offsets *)

(* The loop on its own takes these steps only. *)
LEMMA NextIsLoopStep == [Next]_vars => LoopStep \/ UNCHANGED <<log, consumer, handled>>
  BY DEF Next, WorkerStep, FaultStep, LoopStep, OrderlyStep, Published,
     Produce, vars

TypeInv == LoopInv /\ faults \in Nat

(* Its variables have their types, and the offsets are in order. *)
LEMMA TypeInvInductive == (Init => TypeInv) /\ (TypeInv /\ [Next]_vars => TypeInv')
  <1>1. Init => TypeInv
    BY DEF Init, InitialConsumer, TypeInv, LoopInv, OffsetOrder, ConsumerType
  <1>2. ASSUME TypeInv, [Next]_vars PROVE TypeInv'
    <2>1. LoopInv'
      BY <1>2, NextIsLoopStep, LoopStepKeeps DEF TypeInv
    <2>2. faults' \in Nat
      BY <1>2 DEF Next, WorkerStep, FaultStep, Fault, vars, TypeInv
    <2>. QED  BY <2>1, <2>2 DEF TypeInv
  <1>. QED  BY <1>1, <1>2

(* Every reachable state of the loop has the declared types. *)
THEOREM ConsumerTypeCorrect == Spec => []TypeOK
  <1>1. TypeInv => TypeOK
    BY DEF TypeInv, LoopInv, TypeOK
  <1>. QED  BY <1>1, TypeInvInductive, PTL DEF Spec

(* committed <= next <= position <= Len(log): the consumer never commits, or
   takes for processed, what it has not fetched, and never fetches what is not
   on the topic. *)
THEOREM OffsetsStayOrdered == Spec => []OffsetOrder
  <1>1. TypeInv => OffsetOrder
    BY DEF TypeInv, LoopInv
  <1>. QED  BY <1>1, TypeInvInductive, PTL DEF Spec

-----------------------------------------------------------------------------
(* What faults cost: the records an offset has passed unhandled. *)

Passed(n, done) == (1..n) \ done

\* The records behind which the loop works on have cost a batch per fault, and
\* a batch is no longer than MaxPoll.
FaultsPay ==
    /\ Cardinality(Passed(consumer.committed, handled)) <= MaxPoll * faults
    /\ consumer.mode = "polling" =>
          Cardinality(Passed(consumer.position, handled)) <= MaxPoll * faults
    /\ consumer.mode = "batch" =>
          /\ Cardinality(Passed(consumer.next, handled)) <= MaxPoll * faults
          /\ consumer.position <= consumer.next + MaxPoll

(* The budget of a fault: one batch. *)
LEMMA Budget ==
    ASSUME NEW n \in Nat
    PROVE  /\ MaxPoll * n \in Nat
           /\ MaxPoll * (n + 1) = MaxPoll * n + MaxPoll
           /\ MaxPoll \in Nat
  BY ConsumerAssumption

(* Passing m more records leaves at most m more unhandled. *)
LEMMA PassingMore ==
    ASSUME NEW n \in Nat, NEW m \in Nat, NEW done
    PROVE  /\ IsFiniteSet(Passed(n, done))
           /\ Cardinality(Passed(n, done)) \in Nat
           /\ Cardinality(Passed(n + m, done)) \in Nat
           /\ Cardinality(Passed(n + m, done)) <= Cardinality(Passed(n, done)) + m
  <1>. DEFINE P == Passed(n, done)
              M == n + 1 .. n + m
  <1>1. /\ IsFiniteSet(1..n) /\ IsFiniteSet(M)
        /\ Cardinality(M) = m
    BY FS_Interval
  <1>2. IsFiniteSet(P) /\ Cardinality(P) \in Nat
    BY <1>1, FS_Difference, FS_CardinalityType DEF Passed
  <1>3. Passed(n + m, done) \subseteq P \cup M
    BY DEF Passed
  <1>4. /\ IsFiniteSet(P \cup M)
        /\ Cardinality(P \cup M) = Cardinality(P) + m - Cardinality(P \cap M)
    BY <1>1, <1>2, FS_Union
  <1>5. Cardinality(P \cap M) \in Nat
    BY <1>2, FS_Intersection, FS_CardinalityType
  <1>6. /\ Cardinality(Passed(n + m, done)) <= Cardinality(P \cup M)
        /\ Cardinality(Passed(n + m, done)) \in Nat
    BY <1>3, <1>4, FS_Subset, FS_CardinalityType
  <1>. QED  BY <1>2, <1>4, <1>5, <1>6

(* Every step keeps the account. *)
LEMMA FaultsPayInductive ==
    (Init => FaultsPay) /\ (TypeInv /\ FaultsPay /\ [Next]_vars => FaultsPay')
  <1>1. ASSUME Init PROVE FaultsPay
    <2>1. /\ Passed(0, {}) = {}
          /\ consumer.committed = 0 /\ consumer.mode = "down"
          /\ handled = {} /\ faults = 0
      BY <1>1 DEF Init, InitialConsumer, Passed
    <2>2. Cardinality(Passed(consumer.committed, handled)) = 0
      BY <2>1, FS_EmptySet
    <2>3. MaxPoll * faults \in Nat
      BY <2>1, Budget
    <2>. QED  BY <2>1, <2>2, <2>3 DEF FaultsPay
  <1>2. ASSUME TypeInv, FaultsPay, [Next]_vars PROVE FaultsPay'
    <2>1. /\ consumer \in ConsumerType
          /\ consumer.committed \in Nat /\ consumer.position \in Nat
          /\ consumer.next \in Nat
      BY <1>2 DEF TypeInv, LoopInv, ConsumerType
    <2>2. /\ MaxPoll * faults \in Nat /\ MaxPoll \in Nat
          /\ MaxPoll * (faults + 1) = MaxPoll * faults + MaxPoll
      BY <1>2, Budget DEF TypeInv
    <2>3. CASE UNCHANGED <<consumer, handled, faults>>
      BY <1>2, <2>3 DEF FaultsPay
    <2>4. CASE Start /\ UNCHANGED faults
      BY <1>2, <2>1, <2>4 DEF Start, FaultsPay, ConsumerType
    <2>5. CASE Poll /\ UNCHANGED faults
      <3>1. PICK n \in 1..MaxPoll :
                /\ consumer.mode = "polling"
                /\ consumer'.mode = "batch"
                /\ consumer'.committed = consumer.committed
                /\ consumer'.next = consumer.position
                /\ consumer'.position = consumer.position + n
                /\ handled' = handled \ (consumer.position + 1 .. consumer.position + n)
        BY <1>2, <2>5, PollTakes DEF TypeInv
      <3>2. n \in Nat /\ n <= MaxPoll
        BY <2>2
      <3>3. consumer.committed <= consumer.position
        BY <1>2 DEF TypeInv, LoopInv, OffsetOrder
      <3>4. /\ Passed(consumer.position, handled') = Passed(consumer.position, handled)
            /\ Passed(consumer.committed, handled') = Passed(consumer.committed, handled)
        BY <2>1, <3>1, <3>3 DEF Passed
      <3>. QED  BY <1>2, <2>1, <2>2, <2>5, <3>1, <3>2, <3>4 DEF FaultsPay
    <2>6. CASE Finish /\ UNCHANGED faults
      <3>1. /\ consumer'.mode = "batch"
            /\ consumer'.committed = consumer.committed
            /\ consumer'.position = consumer.position
            /\ consumer'.next = consumer.next + 1
            /\ handled' = handled \cup {consumer.next + 1}
        BY <1>2, <2>6, FinishMoves DEF TypeInv
      <3>2. consumer.mode = "batch" /\ consumer.committed <= consumer.next
        BY <1>2, <2>6 DEF TypeInv, LoopInv, OffsetOrder, Finish, HasRecord
      <3>3. /\ Passed(consumer.next + 1, handled') = Passed(consumer.next, handled)
            /\ Passed(consumer.committed, handled') = Passed(consumer.committed, handled)
        BY <2>1, <3>1, <3>2 DEF Passed
      <3>. QED  BY <1>2, <2>1, <2>2, <2>6, <3>1, <3>2, <3>3 DEF FaultsPay
    <2>7. CASE Commit /\ UNCHANGED faults
      BY <1>2, <2>1, <2>7 DEF Commit, FaultsPay, ConsumerType
    <2>8. CASE Raise /\ faults' = faults + 1
      <3>1. /\ consumer.mode = "batch" /\ consumer'.mode = "polling"
            /\ consumer'.committed = consumer.committed
            /\ consumer'.position = consumer.position
            /\ handled' = handled
        BY <2>1, <2>8 DEF Raise, ConsumerType
      <3>2. PICK m \in 0..MaxPoll : consumer.position = consumer.next + m
        <4>1. consumer.position - consumer.next \in 0..MaxPoll
          BY <1>2, <2>1, <2>2, <3>1 DEF FaultsPay, TypeInv, LoopInv, OffsetOrder
        <4>. QED  BY <2>1, <4>1
      <3>3. /\ Cardinality(Passed(consumer.position, handled)) \in Nat
            /\ Cardinality(Passed(consumer.next, handled)) \in Nat
            /\ Cardinality(Passed(consumer.position, handled)) <=
                  Cardinality(Passed(consumer.next, handled)) + m
        BY <2>1, <2>2, <3>2, PassingMore
      <3>4. /\ Cardinality(Passed(consumer.committed, handled)) \in Nat
            /\ m \in Nat /\ m <= MaxPoll
        BY <2>1, <2>2, <3>2, PassingMore
      <3>. QED  BY <1>2, <2>1, <2>2, <2>8, <3>1, <3>3, <3>4 DEF FaultsPay
    <2>9. CASE (Rejoin \/ Crash) /\ faults' = faults + 1
      <3>1. /\ consumer'.mode # "batch"
            /\ consumer'.mode = "polling" => consumer'.position = consumer.committed
            /\ consumer'.committed = consumer.committed
            /\ handled' = handled
        BY <2>1, <2>9 DEF Rejoin, Crash, ConsumerType
      <3>2. Cardinality(Passed(consumer.committed, handled)) \in Nat
        BY <2>1, <2>2, PassingMore
      <3>. QED  BY <1>2, <2>2, <2>9, <3>1, <3>2 DEF FaultsPay
    <2>. QED
      BY <1>2, <2>3, <2>4, <2>5, <2>6, <2>7, <2>8, <2>9
      DEF Next, WorkerStep, FaultStep, Fault, Produce, vars
  <1>. QED  BY <1>1, <1>2

(* However crashes, rejoins and exceptions follow each other, the records the
   committed offset has passed unhandled are at most one batch per fault. *)
THEOREM FaultsCostABatchEach == Spec => []SkippedBounded
  <1>1. FaultsPay => SkippedBounded
    BY DEF FaultsPay, SkippedBounded, Skipped, Passed
  <1>. QED  BY <1>1, TypeInvInductive, FaultsPayInductive, PTL DEF Spec

(* Crashes and rejoins alone make the committed offset pass nothing: what is
   lost is lost to exceptions, which the loop catches behind the batch. *)
THEOREM OnlyExceptionsSkip ==
    ASSUME "raise" \notin FaultKinds
    PROVE  Spec => []NoRecordSkipped
  <1>1. Init => Progress
    BY DEF Init, InitialConsumer, Progress
  <1>2. TypeInv /\ Progress /\ [Next]_vars => Progress'
    <2>1. [Next]_vars => OrderlyStep \/ UNCHANGED <<log, consumer, handled>>
      BY DEF Next, WorkerStep, FaultStep, Fault, OrderlyStep, Published, Produce, vars
    <2>. QED  BY <2>1, StepKeepsProgress DEF TypeInv
  <1>3. Progress => NoRecordSkipped
    BY DEF Progress, NoRecordSkipped, Skipped
  <1>. QED  BY <1>1, <1>2, <1>3, TypeInvInductive, PTL DEF Spec
=============================================================================
