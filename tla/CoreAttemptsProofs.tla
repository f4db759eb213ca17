------------------------- MODULE CoreAttemptsProofs -------------------------
(***************************************************************************)
(* However an event is redelivered, retried, or cut short, core-service    *)
(* gives it no more commands and no more reviews than attempts, and is     *)
(* done with it only when it has an outcome.  The argument for the bounds  *)
(* is an account: every attempt that is still due, or under way without    *)
(* its effect, is one that AttemptsAt already grants.  The last part is    *)
(* about the steps that lose no call, which are those of Pipeline.         *)
(***************************************************************************)
EXTENDS CoreServiceProofs

-----------------------------------------------------------------------------
(* Whose attempt a call is *)

\* A busy worker's call is about the record it is at; an idle one has none.
AtOwnRecord ==
    /\ stage[worker] = "idle" => At(worker, "idle")
    /\ stage[worker] # "idle" => calls[worker].event = rawEvent
    /\ stage[retrier] = "idle" => At(retrier, "idle")
    /\ stage[retrier] # "idle" => calls[retrier].event = EventOf(retryCommand.command)

\* The webhook publishes an event once.
PublishedOnce == \A i, j \in DOMAIN rawEvents : rawEvents[i] = rawEvents[j] => i = j

OwnInv == AtOwnRecord /\ PublishedOnce

(* process() takes no step for a caller that has not called it. *)
LEMMA ProcessIsCalled ==
    ASSUME CollectionTypes, NEW a \in Callers,
           ProcessStep(a) \/ DecideFails(a) \/ PublishFails(a) \/ ProcessRaises(a)
    PROVE  ~At(a, "idle")
  BY DEF ProcessStep, FindNew, FindDuplicate, FindRetry, MarkRetrying, Reread, Create,
     CreateDuplicateKey, Decide, SaveFailure, FindSuccess, FindLog, LogPending,
     LogDuplicateKey, LogSkipped, LogEscalated, LogQueued, LogFailed, LogOutcome,
     Publish, CreateReview, Save, DecideFails, PublishFails, ProcessRaises, Running, At

(* A worker's record stays where it is when its topic grows. *)
LEMMA RecordsStay ==
    ASSUME TypeInv, [Next]_vars
    PROVE  /\ stage[worker] # "idle" /\ UNCHANGED rawConsumer => rawEvent' = rawEvent
           /\ stage[retrier] # "idle" /\ UNCHANGED retryConsumer => retryCommand' = retryCommand
  <1>1. Grows(rawEvents, rawEvents') /\ Grows(sendRetry, sendRetry')
    BY NextRawLoop, NextRetryLoop, RawLoopKeeps, RetryLoopKeeps DEF TypeInv
  <1>2. /\ stage[worker] # "idle" => rawConsumer.next + 1 \in 1..Len(rawEvents)
        /\ stage[retrier] # "idle" => retryConsumer.next + 1 \in 1..Len(sendRetry)
    BY CurrentRecords DEF TypeInv, InBatch
  <1>. QED
    BY <1>1, <1>2 DEF Grows, rawEvent, retryCommand, RawEvents!Current, SendRetries!Current

\* The steps of the three callers that are none of process().
WorkerMoves ==
    \/ WorkerBegins \/ WorkerSucceeds \/ WorkerRetries \/ WorkerGivesUp
    \/ WorkerPublishesFailure \/ WorkerFinishes \/ WorkerLoop
    \/ WorkerRaises \/ WorkerCrashes \/ WorkerRejoins

RetrierMoves ==
    \/ RetrierBegins \/ RetrierSucceeds \/ RetrierPublishesFailure
    \/ RetrierFinishes \/ RetrierLoop \/ RetrierAbandons
    \/ RetrierRaises \/ RetrierCrashes \/ RetrierRejoins

WebMoves == WebAnswers \/ WebCrashes \/ \E e \in Events : WebRetries(e)

\* The steps of the pipeline around the service, and stuttering.
OutsideMoves ==
    PipelineRetries \/ (\E e \in Events : WebhookPublishes(e)) \/ UNCHANGED vars

(* Every step is one of theirs, or one of process(). *)
LEMMA NextIsSomeones ==
    [Next]_vars => Processes \/ WorkerMoves \/ RetrierMoves \/ WebMoves \/ OutsideMoves
  BY NextIsOneOf DEF WorkerMoves, RetrierMoves, WebMoves, OutsideMoves

(* A worker's own steps leave the other callers and their topics alone. *)
LEMMA WorkerIsLocal ==
    ASSUME TypeInv, WorkerMoves
    PROVE  /\ UNCHANGED <<rawEvents, sendRetry, retryConsumer, manual>>
           /\ \A b \in Callers : b # worker => calls'[b] = calls[b]
           /\ stage'[retrier] = stage[retrier]
  <1>. USE DEF WorkerBegins, WorkerSucceeds, WorkerRetries, WorkerGivesUp,
       WorkerPublishesFailure, WorkerFinishes, WorkerLoop, WorkerRaises, WorkerCrashes,
       WorkerRejoins
  <1>1. UNCHANGED <<sendRetry, retryConsumer, manual>>
    BY DEF WorkerMoves, topics, retryLoop
  <1>2. UNCHANGED rawEvents
    BY DEF WorkerMoves, topics, RawEvents!Start, RawEvents!Poll, RawEvents!Finish,
       RawEvents!Commit, RawEvents!Raise, RawEvents!Rejoin, RawEvents!Crash
  <1>3. UNCHANGED calls \/ \E c : calls' = [calls EXCEPT ![worker] = c]
    BY DEF WorkerMoves, Hangup, Call
  <1>4. UNCHANGED stage \/ \E x : stage' = [stage EXCEPT ![worker] = x]
    BY DEF WorkerMoves, Stage
  <1>. QED
    BY <1>1, <1>2, <1>3, <1>4, CallersDiffer DEF TypeInv, CollectionTypes, ServiceTypes

(* And so do the steps of the send_retry worker, *)
LEMMA RetrierIsLocal ==
    ASSUME TypeInv, RetrierMoves
    PROVE  /\ UNCHANGED <<rawEvents, sendRetry, rawConsumer, manual>>
           /\ \A b \in Callers : b # retrier => calls'[b] = calls[b]
           /\ stage'[worker] = stage[worker]
  <1>. USE DEF RetrierBegins, RetrierSucceeds, RetrierPublishesFailure, RetrierFinishes,
       RetrierLoop, RetrierAbandons, RetrierRaises, RetrierCrashes, RetrierRejoins
  <1>1. UNCHANGED <<rawEvents, rawConsumer, manual>>
    BY DEF RetrierMoves, topics, rawLoop
  <1>2. UNCHANGED sendRetry
    BY DEF RetrierMoves, topics, SendRetries!Start, SendRetries!Poll, SendRetries!Finish,
       SendRetries!Commit, SendRetries!Raise, SendRetries!Rejoin, SendRetries!Crash
  <1>3. UNCHANGED calls \/ \E c : calls' = [calls EXCEPT ![retrier] = c]
    BY DEF RetrierMoves, Hangup, Call
  <1>4. UNCHANGED stage \/ \E x : stage' = [stage EXCEPT ![retrier] = x]
    BY DEF RetrierMoves, Stage
  <1>. QED
    BY <1>1, <1>2, <1>3, <1>4, CallersDiffer DEF TypeInv, CollectionTypes, ServiceTypes

(* of the web application, *)
LEMMA WebIsLocal ==
    ASSUME TypeInv, WebMoves
    PROVE  /\ UNCHANGED <<rawEvents, sendRetry, rawConsumer, retryConsumer, stage>>
           /\ \A b \in Callers : b # web => calls'[b] = calls[b]
  <1>. USE DEF WebAnswers, WebCrashes, WebRetries
  <1>1. UNCHANGED <<rawEvents, sendRetry, rawConsumer, retryConsumer, stage>>
    BY DEF WebMoves, topics, rawLoop, retryLoop
  <1>2. \E c : calls' = [calls EXCEPT ![web] = c]
    BY DEF WebMoves, Hangup, Call
  <1>. QED  BY <1>1, <1>2 DEF TypeInv, CollectionTypes

(* and of the pipeline. *)
LEMMA OutsideIsLocal ==
    ASSUME OutsideMoves
    PROVE  UNCHANGED <<calls, stage, rawConsumer, retryConsumer, manual, faults>>
  BY DEF OutsideMoves, PipelineRetries, RetryScheduled, WebhookPublishes, vars, rawLoop,
     retryLoop, RawEvents!Produce, SendRetries!Produce

(* process() keeps every call at its own record. *)
LEMMA ProcessKeepsOwn ==
    ASSUME TypeInv, OwnInv, [Next]_vars, Processes
    PROVE  AtOwnRecord'
  <1>1. PICK a \in Callers : Step(a) \/ DecisionFailure(a) \/ PublishFailure(a) \/ CallRaises(a)
    BY DEF Processes
  <1>2. ProcessStep(a) \/ DecideFails(a) \/ PublishFails(a) \/ ProcessRaises(a)
    BY <1>1 DEF Step, DecisionFailure, PublishFailure, CallRaises
  <1>3. UNCHANGED <<stage, rawConsumer, retryConsumer>>
    BY ProcessesIsLocal DEF loops, rawLoop, retryLoop
  <1>4. /\ ~At(a, "idle")
        /\ \A b \in Callers : b # a => calls'[b] = calls[b]
        /\ calls'[a].event = calls[a].event
    BY <1>2, ProcessIsCalled, ProcessChanges DEF TypeInv
  <1>5. \A b \in Callers : calls'[b].event = calls[b].event /\ (At(b, "idle") => At(b, "idle")')
    BY <1>4 DEF At
  <1>. QED  BY <1>3, <1>5, RecordsStay, CallersDiffer DEF OwnInv, AtOwnRecord

(* And so does every other step. *)
LEMMA MovesKeepOwn ==
    ASSUME TypeInv, OwnInv, [Next]_vars, ~Processes
    PROVE  AtOwnRecord'
  <1>1. /\ calls \in [Callers -> CallType]
        /\ stage \in [{worker, retrier} -> {"idle", "process", "publish_failed", "finish"}]
        /\ worker \in Callers /\ retrier \in Callers /\ web \in Callers
        /\ worker # retrier /\ worker # web /\ retrier # web
    BY CallersDiffer DEF TypeInv, CollectionTypes, ServiceTypes
  <1>2. ASSUME calls'[worker] = calls[worker], stage'[worker] = stage[worker],
               UNCHANGED rawConsumer
        PROVE  /\ stage'[worker] = "idle" => calls'[worker].pc = "idle"
               /\ stage'[worker] # "idle" => calls'[worker].event = rawEvent'
    BY <1>2, RecordsStay DEF OwnInv, AtOwnRecord, At
  <1>3. ASSUME calls'[retrier] = calls[retrier], stage'[retrier] = stage[retrier],
               UNCHANGED retryConsumer
        PROVE  /\ stage'[retrier] = "idle" => calls'[retrier].pc = "idle"
               /\ stage'[retrier] # "idle" =>
                     calls'[retrier].event = EventOf(retryCommand'.command)
    BY <1>3, RecordsStay DEF OwnInv, AtOwnRecord, At
  <1>4. CASE WorkerMoves
    <2>1. /\ stage'[worker] = "idle" => calls'[worker].pc = "idle"
          /\ stage'[worker] # "idle" => calls'[worker].event = rawEvent'
      <3>1. CASE WorkerSucceeds \/ WorkerFinishes \/ WorkerRaises \/ WorkerCrashes
        BY <1>1, <3>1, IdleTyped
        DEF WorkerSucceeds, WorkerFinishes, WorkerRaises, WorkerCrashes, Hangup, Stage
      <3>2. CASE WorkerBegins \/ WorkerRetries
        <4>1. /\ calls'[worker].event = rawEvent
              /\ stage'[worker] = "process"
              /\ UNCHANGED <<rawEvents, rawConsumer>>
          <5>1. PICK force, given : Call(worker, rawEvent, force, given)
            BY <3>2 DEF WorkerBegins, WorkerRetries
          <5>2. calls'[worker].event = rawEvent
            <6>1. calls'[worker] = NoCall(rawEvent, force, given)
              BY <1>1, <5>1 DEF Call
            <6>2. NoCall(rawEvent, force, given).event = rawEvent
              BY DEF NoCall
            <6>. QED  BY <6>1, <6>2
          <5>3. stage'[worker] = "process"
            BY <1>1, <3>2 DEF WorkerBegins, WorkerRetries, Stage
          <5>4. UNCHANGED <<rawEvents, rawConsumer>>
            BY <3>2 DEF WorkerBegins, WorkerRetries, topics, rawLoop
          <5>. QED  BY <5>2, <5>3, <5>4
        <4>. QED  BY <4>1 DEF rawEvent, RawEvents!Current
      <3>3. CASE WorkerGivesUp \/ WorkerPublishesFailure
        <4>1. /\ UNCHANGED <<calls, rawEvents, rawConsumer>>
              /\ stage[worker] # "idle" /\ stage'[worker] # "idle"
          BY <1>1, <3>3 DEF WorkerGivesUp, WorkerPublishesFailure, Stage, topics, rawLoop
        <4>. QED  BY <4>1 DEF rawEvent, RawEvents!Current, OwnInv, AtOwnRecord
      <3>4. CASE WorkerLoop \/ WorkerRejoins
        <4>1. UNCHANGED <<calls, stage>> /\ stage[worker] = "idle"
          BY <3>4 DEF WorkerLoop, WorkerRejoins, RawEvents!Rejoin, TypeInv, InBatch,
             RawEvents!HasRecord
        <4>. QED  BY <4>1 DEF OwnInv, AtOwnRecord, At
      <3>. QED  BY <1>4, <3>1, <3>2, <3>3, <3>4 DEF WorkerMoves
    <2>. QED  BY <1>1, <1>3, <1>4, <2>1, WorkerIsLocal DEF AtOwnRecord, At
  <1>5. CASE RetrierMoves
    <2>1. /\ stage'[retrier] = "idle" => calls'[retrier].pc = "idle"
          /\ stage'[retrier] # "idle" =>
                calls'[retrier].event = EventOf(retryCommand'.command)
      <3>1. CASE RetrierSucceeds \/ RetrierFinishes \/ RetrierAbandons \/ RetrierRaises
                    \/ RetrierCrashes
        BY <1>1, <3>1, IdleTyped
        DEF RetrierSucceeds, RetrierFinishes, RetrierAbandons, RetrierRaises,
            RetrierCrashes, Hangup, Stage
      <3>2. CASE RetrierBegins
        <4>1. /\ calls'[retrier].event = EventOf(retryCommand.command)
              /\ stage'[retrier] = "process"
              /\ UNCHANGED <<sendRetry, retryConsumer>>
          BY <1>1, <3>2 DEF RetrierBegins, Call, NoCall, Stage, topics, retryLoop
        <4>. QED  BY <4>1 DEF retryCommand, SendRetries!Current
      <3>3. CASE RetrierPublishesFailure
        <4>1. /\ UNCHANGED <<calls, sendRetry, retryConsumer>>
              /\ stage[retrier] # "idle" /\ stage'[retrier] # "idle"
          BY <1>1, <3>3 DEF RetrierPublishesFailure, Stage, retryLoop
        <4>. QED  BY <4>1 DEF retryCommand, SendRetries!Current, OwnInv, AtOwnRecord
      <3>4. CASE RetrierLoop \/ RetrierRejoins
        <4>1. UNCHANGED <<calls, stage>> /\ stage[retrier] = "idle"
          BY <3>4 DEF RetrierLoop, RetrierRejoins, SendRetries!Rejoin, TypeInv, InBatch,
             SendRetries!HasRecord
        <4>. QED  BY <4>1 DEF OwnInv, AtOwnRecord, At
      <3>. QED  BY <1>5, <3>1, <3>2, <3>3, <3>4 DEF RetrierMoves
    <2>. QED  BY <1>1, <1>2, <1>5, <2>1, RetrierIsLocal DEF AtOwnRecord, At
  <1>6. CASE WebMoves
    BY <1>1, <1>2, <1>3, <1>6, WebIsLocal DEF AtOwnRecord, At
  <1>7. CASE OutsideMoves
    BY <1>1, <1>2, <1>3, <1>7, OutsideIsLocal DEF AtOwnRecord, At
  <1>. QED  BY <1>4, <1>5, <1>6, <1>7, NextIsSomeones

(* Calls are at their records, and the topic repeats no event. *)
LEMMA OwnInvInductive ==
    (Init => OwnInv) /\ (TypeInv /\ OwnInv /\ [Next]_vars => OwnInv')
  <1>1. ASSUME Init PROVE OwnInv
    BY <1>1, CallersDiffer, IdleTyped DEF Init, ProcessorInit, OwnInv, AtOwnRecord, At,
       PublishedOnce
  <1>2. ASSUME TypeInv, OwnInv, [Next]_vars PROVE OwnInv'
    <2>1. AtOwnRecord'
      BY <1>2, ProcessKeepsOwn, MovesKeepOwn
    <2>2. PublishedOnce'
      <3>1. CASE UNCHANGED rawEvents
        BY <1>2, <3>1 DEF OwnInv, PublishedOnce
      <3>2. ASSUME NEW e \in Events, WebhookPublishes(e) PROVE PublishedOnce'
        <4>1. /\ rawEvents' = Append(rawEvents, e)
              /\ \A i \in DOMAIN rawEvents : rawEvents[i] # e
          BY <3>2 DEF WebhookPublishes, RawEvents!Produce
        <4>. QED  BY <1>2, <4>1 DEF OwnInv, PublishedOnce, TypeInv, RawLoopInv
      <3>3. CASE Processes
        BY <3>1, <3>3, ProcessesIsLocal DEF loops, topics
      <3>4. CASE WorkerMoves \/ RetrierMoves \/ WebMoves
        BY <1>2, <3>1, <3>4, WorkerIsLocal, RetrierIsLocal, WebIsLocal
      <3>5. CASE PipelineRetries \/ UNCHANGED vars
        BY <3>1, <3>5 DEF PipelineRetries, RetryScheduled, vars, topics
      <3>. QED  BY <1>2, <3>2, <3>3, <3>4, <3>5, NextIsSomeones DEF OutsideMoves
    <2>. QED  BY <2>1, <2>2 DEF OwnInv
  <1>. QED  BY <1>1, <1>2

-----------------------------------------------------------------------------
(* What is still due *)

\* The records that a worker would not see again, if nothing failed.
Front(consumer) ==
    CASE consumer.mode = "down" -> consumer.committed
      [] consumer.mode = "polling" -> consumer.position
      [] OTHER -> consumer.next

\* Attempts due behind the first n records: one for the event on raw_events,
\* even before it is published, and one for each of its retries.
RawDue(topic, e, n) == IF \E i \in 1..n : topic[i] = e THEN 0 ELSE 1

RetryDue(topic, e, n) == {i \in About(topic, e) : i > n}

\* The attempts at e that are due or under way, when spent[a] is 1 for a call
\* of a that has had its effect already.
RawLeft(e, n) == RawDue(rawEvents, e, Front(rawConsumer) + n)

RetryLeft(e, n) == Cardinality(RetryDue(sendRetry, e, Front(retryConsumer) + n))

WebLeft(e, n) == IF ~At(web, "idle") /\ calls[web].event = e THEN 1 - n ELSE 0

Left(e, spent) ==
    RawLeft(e, spent[worker]) + RetryLeft(e, spent[retrier]) + WebLeft(e, spent[web])

Retries(e) == Cardinality(About(sendRetry, e))

(* The messages about an event are finitely many, and no fewer as the topic
   grows; as many more are due as it has more. *)
LEMMA MessagesAbout ==
    ASSUME NEW S, NEW x \in Seq(S), NEW y \in Seq(S), Grows(x, y), NEW e,
           NEW n \in Nat, NEW m \in Nat, n <= m
    PROVE  /\ Cardinality(About(x, e)) \in Nat /\ Cardinality(About(y, e)) \in Nat
           /\ Cardinality(RetryDue(x, e, n)) \in Nat /\ Cardinality(RetryDue(y, e, m)) \in Nat
           /\ Cardinality(RetryDue(y, e, m)) <= Cardinality(About(y, e))
           /\ Cardinality(About(x, e)) <= Cardinality(About(y, e))
           /\ Cardinality(RetryDue(y, e, m)) + Cardinality(About(x, e)) <=
                 Cardinality(RetryDue(x, e, n)) + Cardinality(About(y, e))
  <1>. DEFINE New == {i \in About(y, e) : i > Len(x)}
  <1>1. /\ Len(x) \in Nat /\ Len(y) \in Nat /\ Len(x) <= Len(y)
        /\ DOMAIN x = 1..Len(x) /\ DOMAIN y = 1..Len(y)
        /\ \A i \in 1..Len(x) : y[i] = x[i]
    BY DEF Grows
  <1>2. IsFiniteSet(1..Len(y))
    <2>1. ASSUME NEW N \in Nat PROVE IsFiniteSet(1..N)
      BY FS_Interval
    <2>. QED  BY <1>1, <2>1
  <1>3. /\ About(x, e) \subseteq 1..Len(y) /\ About(y, e) \subseteq 1..Len(y)
        /\ New \subseteq 1..Len(y)
        /\ RetryDue(x, e, n) \subseteq 1..Len(y) /\ RetryDue(y, e, m) \subseteq 1..Len(y)
    BY <1>1 DEF About, RetryDue
  <1>4. /\ IsFiniteSet(About(x, e)) /\ IsFiniteSet(About(y, e)) /\ IsFiniteSet(New)
        /\ IsFiniteSet(RetryDue(x, e, n)) /\ IsFiniteSet(RetryDue(y, e, m))
    BY <1>2, <1>3, FS_Subset
  <1>5. /\ Cardinality(About(x, e)) \in Nat /\ Cardinality(About(y, e)) \in Nat
        /\ Cardinality(New) \in Nat
        /\ Cardinality(RetryDue(x, e, n)) \in Nat /\ Cardinality(RetryDue(y, e, m)) \in Nat
    BY <1>4, FS_CardinalityType
  <1>6. About(y, e) = About(x, e) \cup New /\ About(x, e) \cap New = {}
    BY <1>1 DEF About
  <1>7. Cardinality(About(y, e)) = Cardinality(About(x, e)) + Cardinality(New)
    <2>1. Cardinality(About(x, e) \cup New) =
             Cardinality(About(x, e)) + Cardinality(New) - Cardinality(About(x, e) \cap New)
      BY <1>4, FS_Union
    <2>2. Cardinality(About(x, e) \cap New) = 0
      BY <1>6, FS_EmptySet
    <2>. HIDE DEF New
    <2>. QED  BY <1>5, <1>6, <2>1, <2>2
  <1>8. RetryDue(y, e, m) \subseteq RetryDue(x, e, n) \cup New
    BY <1>1 DEF About, RetryDue
  <1>9. Cardinality(RetryDue(y, e, m)) <= Cardinality(RetryDue(x, e, n)) + Cardinality(New)
    <2>. HIDE DEF New
    <2>1. /\ IsFiniteSet(RetryDue(x, e, n) \cup New)
          /\ Cardinality(RetryDue(x, e, n) \cup New) =
                Cardinality(RetryDue(x, e, n)) + Cardinality(New)
                    - Cardinality(RetryDue(x, e, n) \cap New)
      BY <1>4, FS_Union
    <2>2. Cardinality(RetryDue(y, e, m)) <= Cardinality(RetryDue(x, e, n) \cup New)
      BY <1>8, <2>1, FS_Subset
    <2>3. Cardinality(RetryDue(x, e, n) \cap New) \in Nat
      BY <1>4, FS_Subset, FS_CardinalityType
    <2>. QED  BY <1>5, <2>1, <2>2, <2>3
  <1>10. Cardinality(RetryDue(y, e, m)) <= Cardinality(About(y, e))
    BY <1>4, FS_Subset DEF RetryDue
  <1>. HIDE DEF New
  <1>. QED  BY <1>5, <1>7, <1>9, <1>10

(* A front is a number of records. *)
LEMMA FrontTyped ==
    ASSUME NEW c \in [mode : {"down", "polling", "batch"},
                      committed : Nat, position : Nat, next : Nat]
    PROVE  Front(c) \in Nat
  BY DEF Front

(* The fronts are within the topics, also behind the record of a busy worker. *)
LEMMA FrontsInTopic ==
    ASSUME RawLoopInv, RetryLoopInv
    PROVE  /\ Front(rawConsumer) \in Nat /\ Front(rawConsumer) <= Len(rawEvents)
           /\ Front(retryConsumer) \in Nat /\ Front(retryConsumer) <= Len(sendRetry)
           /\ RawEvents!HasRecord =>
                 Front(rawConsumer) = rawConsumer.next /\ rawConsumer.next + 1 <= Len(rawEvents)
           /\ SendRetries!HasRecord =>
                 Front(retryConsumer) = retryConsumer.next /\ retryConsumer.next + 1 <= Len(sendRetry)
  <1>1. /\ rawConsumer \in RawEvents!ConsumerType /\ RawEvents!OffsetOrder
        /\ retryConsumer \in SendRetries!ConsumerType /\ SendRetries!OffsetOrder
        /\ Len(rawEvents) \in Nat /\ Len(sendRetry) \in Nat
    BY DEF RawLoopInv, RetryLoopInv
  <1>2. /\ Front(rawConsumer) \in Nat /\ Front(rawConsumer) <= Len(rawEvents)
        /\ RawEvents!HasRecord =>
              Front(rawConsumer) = rawConsumer.next /\ rawConsumer.next + 1 <= Len(rawEvents)
    BY <1>1 DEF Front, RawEvents!ConsumerType, RawEvents!OffsetOrder, RawEvents!HasRecord
  <1>3. /\ Front(retryConsumer) \in Nat /\ Front(retryConsumer) <= Len(sendRetry)
        /\ SendRetries!HasRecord =>
              Front(retryConsumer) = retryConsumer.next /\ retryConsumer.next + 1 <= Len(sendRetry)
    BY <1>1 DEF Front, SendRetries!ConsumerType, SendRetries!OffsetOrder, SendRetries!HasRecord
  <1>. QED  BY <1>2, <1>3

\* The steps that may set a worker back.
WorkerFault ==
    rawConsumer' # rawConsumer /\ (WorkerRaises \/ WorkerCrashes \/ WorkerRejoins)

RetrierFault ==
    retryConsumer' # retryConsumer /\ (RetrierRaises \/ RetrierCrashes \/ RetrierRejoins)

(* Unless a fault sets it back, the front of the raw_events worker passes a
   record with the call that is spent on it. *)
LEMMA RawFrontAdvances ==
    ASSUME TypeInv, OwnInv, [Next]_vars, Processes \/ ~WorkerFault, NEW k \in {0, 1}, NEW l \in {0, 1},
           At(worker, "idle") \/ Failed(worker) => k = 0,
           calls'[worker] = calls[worker] => l = k,
           Processes => k <= l
    PROVE  /\ Front(rawConsumer) + k <= Front(rawConsumer') + l
           /\ Front(rawConsumer) + k <= Len(rawEvents)
  <1>1. /\ Front(rawConsumer) \in Nat /\ Front(rawConsumer) <= Len(rawEvents)
        /\ Front(rawConsumer') \in Nat /\ Len(rawEvents) \in Nat
        /\ stage[worker] # "idle" =>
              Front(rawConsumer) = rawConsumer.next /\ rawConsumer.next + 1 <= Len(rawEvents)
        /\ rawConsumer \in RawEvents!ConsumerType /\ RawEvents!OffsetOrder
    <2>1. RawLoopInv'
      BY TypeInvInductive DEF TypeInv
    <2>2. Front(rawConsumer') \in Nat
      BY <2>1, FrontTyped DEF RawLoopInv, RawEvents!ConsumerType
    <2>. QED  BY <2>2, FrontsInTopic DEF TypeInv, InBatch, RawLoopInv
  <1>2. stage[worker] = "idle" => k = 0
    BY DEF OwnInv, AtOwnRecord
  <1>3. Front(rawConsumer) + k <= Len(rawEvents)
    BY <1>1, <1>2
  <1>4. ASSUME UNCHANGED rawConsumer, calls'[worker] = calls[worker]
        PROVE  Front(rawConsumer) + k <= Front(rawConsumer') + l
    BY <1>1, <1>4
  <1>5. CASE Processes
    BY <1>1, <1>3, <1>5, ProcessesIsLocal DEF loops, rawLoop
  <1>6. CASE WorkerBegins \/ WorkerRetries
    <2>1. k = 0 /\ UNCHANGED rawConsumer
      BY <1>2, <1>6 DEF WorkerBegins, WorkerRetries, rawLoop
    <2>. QED  BY <1>1, <1>3, <2>1
  <1>7. CASE WorkerSucceeds \/ WorkerFinishes
    <2>1. RawEvents!Finish
      BY <1>7 DEF WorkerSucceeds, WorkerFinishes
    <2>2. Front(rawConsumer') = Front(rawConsumer) + 1
      BY <1>1, <2>1 DEF RawEvents!Finish, RawEvents!HasRecord, RawEvents!ConsumerType, Front
    <2>. QED  BY <1>1, <1>3, <2>2
  <1>8. CASE WorkerGivesUp \/ WorkerPublishesFailure
    BY <1>3, <1>4, <1>8 DEF WorkerGivesUp, WorkerPublishesFailure, rawLoop
  <1>9. CASE WorkerLoop
    <2>1. k = 0
      BY <1>2, <1>9 DEF WorkerLoop
    <2>2. Front(rawConsumer) <= Front(rawConsumer')
      <3>1. CASE RawEvents!Start
        BY <1>1, <3>1 DEF RawEvents!Start, RawEvents!ConsumerType, RawEvents!OffsetOrder, Front
      <3>2. CASE RawEvents!Poll
        BY <1>1, <3>2 DEF RawEvents!Poll, RawEvents!ConsumerType, RawEvents!OffsetOrder, Front
      <3>3. CASE RawEvents!Commit
        BY <1>1, <3>3 DEF RawEvents!Commit, RawEvents!ConsumerType, RawEvents!OffsetOrder, Front
      <3>. QED  BY <1>9, <3>1, <3>2, <3>3 DEF WorkerLoop
    <2>. QED  BY <1>1, <1>3, <2>1, <2>2
  <1>10. CASE RetrierMoves \/ WebMoves \/ OutsideMoves
    BY <1>3, <1>4, <1>10, RetrierIsLocal, WebIsLocal, OutsideIsLocal, CallersDiffer
  <1>11. CASE (WorkerRaises \/ WorkerCrashes \/ WorkerRejoins) /\ UNCHANGED rawConsumer
    <2>1. rawConsumer.mode' # rawConsumer.mode \/ UNCHANGED calls
      BY <1>1, <1>11 DEF WorkerRaises, WorkerCrashes, WorkerRejoins, RawEvents!Raise, RawEvents!Crash, RawEvents!ConsumerType
    <2>. QED  BY <1>3, <1>4, <1>11, <2>1
  <1>. QED
    BY <1>5, <1>6, <1>7, <1>8, <1>9, <1>10, <1>11, NextIsSomeones DEF WorkerMoves, WorkerFault

(* The same, of the send_retry worker; there a failed call leaves its batch. *)
LEMMA RetryFrontAdvances ==
    ASSUME TypeInv, OwnInv, [Next]_vars, Processes \/ ~RetrierFault, NEW k \in {0, 1}, NEW l \in {0, 1},
           At(retrier, "idle") \/ Failed(retrier) => k = 0,
           calls'[retrier] = calls[retrier] => l = k,
           Processes => k <= l
    PROVE  /\ Front(retryConsumer) + k <= Front(retryConsumer') + l
           /\ Front(retryConsumer) + k <= Len(sendRetry)
  <1>1. /\ Front(retryConsumer) \in Nat /\ Front(retryConsumer) <= Len(sendRetry)
        /\ Front(retryConsumer') \in Nat /\ Len(sendRetry) \in Nat
        /\ stage[retrier] # "idle" =>
              Front(retryConsumer) = retryConsumer.next /\ retryConsumer.next + 1 <= Len(sendRetry)
        /\ retryConsumer \in SendRetries!ConsumerType /\ SendRetries!OffsetOrder
    <2>1. RetryLoopInv'
      BY TypeInvInductive DEF TypeInv
    <2>2. Front(retryConsumer') \in Nat
      BY <2>1, FrontTyped DEF RetryLoopInv, SendRetries!ConsumerType
    <2>. QED  BY <2>2, FrontsInTopic DEF TypeInv, InBatch, RetryLoopInv
  <1>2. stage[retrier] = "idle" => k = 0
    BY DEF OwnInv, AtOwnRecord
  <1>3. Front(retryConsumer) + k <= Len(sendRetry)
    BY <1>1, <1>2
  <1>4. ASSUME UNCHANGED retryConsumer, calls'[retrier] = calls[retrier]
        PROVE  Front(retryConsumer) + k <= Front(retryConsumer') + l
    BY <1>1, <1>4
  <1>5. CASE Processes
    BY <1>1, <1>3, <1>5, ProcessesIsLocal DEF loops, retryLoop
  <1>6. CASE RetrierBegins
    <2>1. k = 0 /\ UNCHANGED retryConsumer
      BY <1>2, <1>6 DEF RetrierBegins, retryLoop
    <2>. QED  BY <1>1, <1>3, <2>1
  <1>7. CASE RetrierSucceeds \/ RetrierFinishes
    <2>1. SendRetries!Finish
      BY <1>7 DEF RetrierSucceeds, RetrierFinishes
    <2>2. Front(retryConsumer') = Front(retryConsumer) + 1
      BY <1>1, <2>1
      DEF SendRetries!Finish, SendRetries!HasRecord, SendRetries!ConsumerType, Front
    <2>. QED  BY <1>1, <1>3, <2>2
  <1>8. CASE RetrierPublishesFailure
    BY <1>3, <1>4, <1>8 DEF RetrierPublishesFailure, retryLoop
  <1>9. CASE RetrierLoop \/ RetrierAbandons
    <2>1. k = 0
      BY <1>2, <1>9 DEF RetrierLoop, RetrierAbandons, Failed
    <2>2. Front(retryConsumer) <= Front(retryConsumer')
      <3>1. CASE SendRetries!Start
        BY <1>1, <3>1 DEF SendRetries!Start, SendRetries!ConsumerType, SendRetries!OffsetOrder, Front
      <3>2. CASE SendRetries!Poll
        BY <1>1, <3>2 DEF SendRetries!Poll, SendRetries!ConsumerType, SendRetries!OffsetOrder, Front
      <3>3. CASE SendRetries!Commit
        BY <1>1, <3>3 DEF SendRetries!Commit, SendRetries!ConsumerType, SendRetries!OffsetOrder, Front
      <3>4. CASE SendRetries!Raise
        BY <1>1, <3>4
        DEF SendRetries!Raise, SendRetries!ConsumerType, SendRetries!OffsetOrder, Front
      <3>. QED  BY <1>9, <3>1, <3>2, <3>3, <3>4 DEF RetrierLoop, RetrierAbandons
    <2>. QED  BY <1>1, <1>3, <2>1, <2>2
  <1>10. CASE WorkerMoves \/ WebMoves \/ OutsideMoves
    BY <1>3, <1>4, <1>10, WorkerIsLocal, WebIsLocal, OutsideIsLocal, CallersDiffer
  <1>11. CASE (RetrierRaises \/ RetrierCrashes \/ RetrierRejoins) /\ UNCHANGED retryConsumer
    <2>1. retryConsumer.mode' # retryConsumer.mode \/ UNCHANGED calls
      BY <1>1, <1>11 DEF RetrierRaises, RetrierCrashes, RetrierRejoins, SendRetries!Raise, SendRetries!Crash, SendRetries!ConsumerType
    <2>. QED  BY <1>3, <1>4, <1>11, <2>1
  <1>. QED
    BY <1>5, <1>6, <1>7, <1>8, <1>9, <1>10, <1>11, NextIsSomeones DEF RetrierMoves, RetrierFault

-----------------------------------------------------------------------------
(* The account *)

(* An event that is behind the front stays there. *)
LEMMA RawDueFalls ==
    ASSUME NEW S, NEW x \in Seq(S), NEW y \in Seq(S), Grows(x, y), NEW e,
           NEW n \in Nat, NEW m \in Nat, n <= m, n <= Len(x)
    PROVE  RawDue(y, e, m) <= RawDue(x, e, n)
  <1>1. \A i \in 1..n : i \in 1..Len(x) /\ i \in 1..m /\ y[i] = x[i]
    BY DEF Grows
  <1>. QED  BY <1>1 DEF RawDue

(* What is left is one attempt of the raw_events worker, one of the web
   application, and one for each retry, at most. *)
LEMMA LeftBounded ==
    ASSUME TypeInv, NEW e \in Events, NEW k \in {0, 1}
    PROVE  /\ RawLeft(e, k) \in {0, 1}
           /\ WebLeft(e, k) \in {0, 1}
           /\ RetryLeft(e, k) \in Nat /\ Retries(e) \in Nat
           /\ RetryLeft(e, k) <= Retries(e)
  <1>1. Front(retryConsumer) \in Nat /\ Len(sendRetry) \in Nat /\ sendRetry \in Seq(RetryRecord)
    BY FrontsInTopic DEF TypeInv, RetryLoopInv
  <1>. DEFINE n == Front(retryConsumer) + k
  <1>2. n \in Nat /\ n <= n /\ Grows(sendRetry, sendRetry)
    BY <1>1 DEF Grows
  <1>3. /\ RetryLeft(e, k) \in Nat /\ Retries(e) \in Nat
        /\ RetryLeft(e, k) <= Retries(e)
    <2>. HIDE DEF n
    <2>1. /\ Cardinality(RetryDue(sendRetry, e, n)) \in Nat
          /\ Cardinality(About(sendRetry, e)) \in Nat
          /\ Cardinality(RetryDue(sendRetry, e, n)) <= Cardinality(About(sendRetry, e))
      BY <1>1, <1>2, MessagesAbout
    <2>. QED  BY <2>1 DEF RetryLeft, Retries, n
  <1>. QED  BY <1>3 DEF RawLeft, RawDue, WebLeft

\* What the callers have spent, before a step and after it: an idle or a failed
\* call nothing, a call that does not change as much as before.
SpendingStep(s, t) ==
    /\ s \in [Callers -> {0, 1}] /\ t \in [Callers -> {0, 1}]
    /\ \A a \in Callers :
          /\ At(a, "idle") \/ Failed(a) => s[a] = 0
          /\ calls'[a] = calls[a] => t[a] = s[a]

(* Also after the step. *)
LEMMA LeftBoundedNext ==
    ASSUME TypeInv, [Next]_vars, NEW e \in Events, NEW k \in {0, 1}
    PROVE  /\ RawLeft(e, k)' \in {0, 1}
           /\ WebLeft(e, k)' \in {0, 1}
           /\ RetryLeft(e, k)' \in Nat /\ Retries(e)' \in Nat
           /\ RetryLeft(e, k)' <= Retries(e)'
  <1>1. sendRetry' \in Seq(RetryRecord) /\ Front(retryConsumer') \in Nat
    BY TypeInvInductive, FrontTyped DEF TypeInv, RetryLoopInv, SendRetries!ConsumerType
  <1>. DEFINE n == Front(retryConsumer') + k
  <1>2. n \in Nat /\ n <= n /\ Grows(sendRetry', sendRetry')
    BY <1>1 DEF Grows
  <1>3. /\ RetryLeft(e, k)' \in Nat /\ Retries(e)' \in Nat
        /\ RetryLeft(e, k)' <= Retries(e)'
    <2>. HIDE DEF n
    <2>1. /\ Cardinality(RetryDue(sendRetry', e, n)) \in Nat
          /\ Cardinality(About(sendRetry', e)) \in Nat
          /\ Cardinality(RetryDue(sendRetry', e, n)) <= Cardinality(About(sendRetry', e))
      BY <1>1, <1>2, MessagesAbout
    <2>. QED  BY <2>1 DEF RetryLeft, Retries, n
  <1>. QED  BY <1>3 DEF RawLeft, RawDue, WebLeft

(* No caller has more left than before, except for the retry that comes in,
   unless it takes back what it has spent, its consumer falls back, or the
   operator asks for a retry. *)
LEMMA NothingComesBack ==
    ASSUME TypeInv, OwnInv, [Next]_vars, NEW e \in Events, NEW s, NEW t, SpendingStep(s, t)
    PROVE  /\ (IF Processes THEN s[worker] <= t[worker] ELSE ~WorkerFault) =>
                 RawLeft(e, t[worker])' <= RawLeft(e, s[worker])
           /\ (IF Processes THEN s[retrier] <= t[retrier] ELSE ~RetrierFault) =>
                 RetryLeft(e, t[retrier])' + Retries(e) <= RetryLeft(e, s[retrier]) + Retries(e)'
           /\ Retries(e) <= Retries(e)'
           /\ (IF Processes THEN s[web] <= t[web] ELSE manual' = manual) =>
                 WebLeft(e, t[web])' <= WebLeft(e, s[web])
  <1>1. /\ worker \in Callers /\ retrier \in Callers /\ web \in Callers
        /\ s \in [Callers -> {0, 1}] /\ t \in [Callers -> {0, 1}]
    BY CallersDiffer DEF SpendingStep
  <1>2. /\ rawEvents \in Seq(Events) /\ rawEvents' \in Seq(Events)
        /\ Grows(rawEvents, rawEvents')
        /\ sendRetry \in Seq(RetryRecord) /\ sendRetry' \in Seq(RetryRecord)
        /\ Grows(sendRetry, sendRetry')
    BY NextRawLoop, NextRetryLoop, RawLoopKeeps, RetryLoopKeeps
    DEF TypeInv, RawLoopInv, RetryLoopInv
  <1>3. /\ Front(rawConsumer) \in Nat /\ Front(rawConsumer') \in Nat
        /\ Front(retryConsumer) \in Nat /\ Front(retryConsumer') \in Nat
    BY TypeInvInductive, FrontTyped
    DEF TypeInv, RawLoopInv, RetryLoopInv, RawEvents!ConsumerType, SendRetries!ConsumerType
  <1>4. ASSUME IF Processes THEN s[worker] <= t[worker] ELSE ~WorkerFault
        PROVE  RawLeft(e, t[worker])' <= RawLeft(e, s[worker])
    <2>. DEFINE n == Front(rawConsumer) + s[worker]
                m == Front(rawConsumer') + t[worker]
    <2>1. n <= m /\ n <= Len(rawEvents)
      BY <1>1, <1>4, RawFrontAdvances DEF SpendingStep
    <2>2. n \in Nat /\ m \in Nat
      BY <1>1, <1>3
    <2>. HIDE DEF n, m
    <2>3. RawDue(rawEvents', e, m) <= RawDue(rawEvents, e, n)
      BY <1>2, <2>1, <2>2, RawDueFalls
    <2>. QED  BY <2>3 DEF RawLeft, n, m
  <1>5. Retries(e) <= Retries(e)'
    <2>1. Cardinality(About(sendRetry, e)) <= Cardinality(About(sendRetry', e))
      BY <1>2, MessagesAbout, 0 \in Nat, 0 <= 0
    <2>. QED  BY <2>1 DEF Retries
  <1>6. ASSUME IF Processes THEN s[retrier] <= t[retrier] ELSE ~RetrierFault
        PROVE  RetryLeft(e, t[retrier])' + Retries(e) <= RetryLeft(e, s[retrier]) + Retries(e)'
    <2>. DEFINE n == Front(retryConsumer) + s[retrier]
                m == Front(retryConsumer') + t[retrier]
    <2>1. n <= m /\ n <= Len(sendRetry)
      BY <1>1, <1>6, RetryFrontAdvances DEF SpendingStep
    <2>2. n \in Nat /\ m \in Nat
      BY <1>1, <1>3
    <2>. HIDE DEF n, m
    <2>3. Cardinality(RetryDue(sendRetry', e, m)) + Cardinality(About(sendRetry, e)) <=
             Cardinality(RetryDue(sendRetry, e, n)) + Cardinality(About(sendRetry', e))
      BY <1>2, <2>1, <2>2, MessagesAbout
    <2>. QED  BY <2>3 DEF RetryLeft, Retries, n, m
  <1>7. ASSUME IF Processes THEN s[web] <= t[web] ELSE manual' = manual
        PROVE  WebLeft(e, t[web])' <= WebLeft(e, s[web])
    <2>1. WebLeft(e, s[web]) \in {0, 1}
      BY <1>1 DEF WebLeft
    <2>2. CASE calls'[web] = calls[web]
      <3>1. t[web] = s[web]
        BY <1>1, <2>2 DEF SpendingStep
      <3>. QED  BY <2>1, <2>2, <3>1 DEF WebLeft, At
    <2>3. CASE Processes
      <3>1. PICK a \in Callers : Step(a) \/ DecisionFailure(a) \/ PublishFailure(a) \/ CallRaises(a)
        BY <2>3 DEF Processes
      <3>2. /\ ~At(a, "idle")
            /\ \A b \in Callers : b # a => calls'[b] = calls[b]
            /\ calls'[a].event = calls[a].event
        BY <3>1, ProcessIsCalled, ProcessChanges
        DEF Step, DecisionFailure, PublishFailure, CallRaises, TypeInv
      <3>3. CASE a = web
        <4>1. s[web] <= t[web]
          BY <1>1, <1>7, <2>3
        <4>. QED  BY <1>1, <3>2, <3>3, <4>1 DEF WebLeft
      <3>. QED  BY <1>1, <2>2, <3>2, <3>3
    <2>4. CASE WebMoves /\ ~Processes
      <3>1. Hangup(web)
        <4>1. manual \in Nat
          BY CoreAssumption DEF TypeInv, ServiceTypes
        <4>2. ASSUME NEW f \in Events, WebRetries(f) PROVE FALSE
          BY <1>7, <2>4, <4>1, <4>2 DEF WebRetries
        <4>. QED  BY <2>4, <4>2 DEF WebMoves, WebAnswers, WebCrashes
      <3>2. calls'[web].pc = "idle"
        BY <1>1, <3>1, IdleTyped DEF Hangup, TypeInv, CollectionTypes
      <3>. QED  BY <2>1, <3>2 DEF WebLeft, At
    <2>5. CASE WorkerMoves \/ RetrierMoves \/ OutsideMoves
      BY <1>1, <2>2, <2>5, WorkerIsLocal, RetrierIsLocal, OutsideIsLocal, CallersDiffer
    <2>. QED  BY <2>2, <2>3, <2>4, <2>5, NextIsSomeones
  <1>. QED  BY <1>4, <1>5, <1>6, <1>7

(* A call that has its effect spends the attempt it is. *)
LEMMA EffectIsSpent ==
    ASSUME TypeInv, OwnInv, [Next]_vars, NEW s, NEW t, SpendingStep(s, t),
           NEW a \in Callers, Step(a), s[a] = 0, t[a] = 1,
           NEW e, e = calls[a].event
    PROVE  /\ a = worker => RawLeft(e, t[a])' + 1 <= RawLeft(e, s[a])
           /\ a = retrier => RetryLeft(e, t[a])' + 1 <= RetryLeft(e, s[a])
           /\ a = web => WebLeft(e, t[a])' + 1 <= WebLeft(e, s[a])
  <1>1. /\ ~At(a, "idle")
        /\ calls'[a].event = e
    BY ProcessIsCalled, ProcessChanges DEF Step, TypeInv
  <1>2. UNCHANGED <<rawEvents, sendRetry, rawConsumer, retryConsumer>>
    BY DEF Step, loops, topics, rawLoop, retryLoop
  <1>3. ASSUME a = worker PROVE RawLeft(e, t[a])' + 1 <= RawLeft(e, s[a])
    <2>1. /\ RawEvents!HasRecord
          /\ e = rawEvent
      BY <1>1, <1>3 DEF OwnInv, AtOwnRecord, TypeInv, InBatch
    <2>. DEFINE n == rawConsumer.next
    <2>2. /\ Front(rawConsumer) = n
          /\ n + 1 \in 1..Len(rawEvents) /\ e = rawEvents[n + 1]
      BY <2>1, FrontsInTopic, CurrentRecords DEF TypeInv
    <2>3. n \in Nat /\ DOMAIN rawEvents = 1..Len(rawEvents) /\ Len(rawEvents) \in Nat
      BY DEF TypeInv, RawLoopInv, RawEvents!ConsumerType
    <2>. HIDE DEF n
    <2>4. \A i \in 1..n + 0 : rawEvents[i] # e
      BY <2>2, <2>3 DEF OwnInv, PublishedOnce
    <2>5. RawDue(rawEvents, e, n + 0) = 1
      BY <2>4 DEF RawDue
    <2>6. RawDue(rawEvents, e, n + 1) = 0
      BY <2>2, <2>3 DEF RawDue
    <2>. QED  BY <1>2, <2>2, <2>5, <2>6 DEF RawLeft
  <1>4. ASSUME a = retrier PROVE RetryLeft(e, t[a])' + 1 <= RetryLeft(e, s[a])
    <2>1. /\ SendRetries!HasRecord
          /\ e = EventOf(retryCommand.command)
      BY <1>1, <1>4 DEF OwnInv, AtOwnRecord, TypeInv, InBatch
    <2>. DEFINE n == retryConsumer.next
    <2>2. /\ Front(retryConsumer) = n
          /\ n + 1 \in 1..Len(sendRetry) /\ e = EventOf(sendRetry[n + 1].command)
      BY <2>1, FrontsInTopic, CurrentRecords DEF TypeInv
    <2>3. /\ n \in Nat /\ DOMAIN sendRetry = 1..Len(sendRetry) /\ Len(sendRetry) \in Nat
          /\ sendRetry \in Seq(RetryRecord)
      BY DEF TypeInv, RetryLoopInv, SendRetries!ConsumerType
    <2>. HIDE DEF n
    <2>4. /\ n + 1 \in RetryDue(sendRetry, e, n)
          /\ RetryDue(sendRetry, e, n + 1) = RetryDue(sendRetry, e, n) \ {n + 1}
      BY <2>2, <2>3 DEF RetryDue, About
    <2>5. IsFiniteSet(RetryDue(sendRetry, e, n))
      <3>1. ASSUME NEW N \in Nat PROVE IsFiniteSet(1..N)
        BY FS_Interval
      <3>2. RetryDue(sendRetry, e, n) \subseteq 1..Len(sendRetry)
        BY <2>3 DEF RetryDue, About
      <3>. QED  BY <2>3, <3>1, <3>2, FS_Subset
    <2>6. Cardinality(RetryDue(sendRetry, e, n + 1)) =
             Cardinality(RetryDue(sendRetry, e, n)) - 1
      BY <2>4, <2>5, FS_RemoveElement
    <2>7. Cardinality(RetryDue(sendRetry, e, n)) \in Nat
      BY <2>5, FS_CardinalityType
    <2>8. n + 0 = n
      BY <2>3
    <2>. QED  BY <1>2, <2>2, <2>6, <2>7, <2>8 DEF RetryLeft
  <1>5. ASSUME a = web PROVE WebLeft(e, t[a])' + 1 <= WebLeft(e, s[a])
    BY <1>1, <1>5 DEF WebLeft, At
  <1>. QED  BY <1>3, <1>4, <1>5

\* What a fault may repeat, when an event has n retries.
Redelivered(n) == IF n = 0 THEN 1 ELSE n

(* What is left, with what was done, stays granted when a step adds no more
   than a retry, a manual retry or a fault grants. *)
LEMMA GrantedGrows ==
    ASSUME NEW r \in Nat, NEW r2 \in Nat, r <= r2,
           NEW m \in Nat, NEW m2 \in Nat, NEW f \in Nat, NEW f2 \in {f, f + 1},
           NEW used \in Nat, NEW used2 \in Nat,
           used2 + r + m <= used + r2 + m2 + (IF f2 = f THEN 0 ELSE Redelivered(r)),
           used <= 1 + r + m + f * Redelivered(r)
    PROVE  used2 <= 1 + r2 + m2 + f2 * Redelivered(r2)
  <1>1. /\ Redelivered(r) \in Nat /\ Redelivered(r2) \in Nat
        /\ Redelivered(r) <= Redelivered(r2)
    BY DEF Redelivered
  <1>2. ASSUME NEW x \in Nat, NEW y \in Nat, x <= y PROVE f * x <= f * y /\ f * x \in Nat /\ f * y \in Nat
    BY <1>2
  <1>3. ASSUME NEW x \in Nat PROVE (f + 1) * x = f * x + x
    BY <1>3
  <1>. QED  BY <1>1, <1>2, <1>3

(* The account: what is done, with what is left, is within what is granted. *)
LEMMA AccountKept ==
    ASSUME TypeInv, OwnInv, [Next]_vars, NEW e \in Events, NEW s, NEW t, SpendingStep(s, t),
           NEW p \in Nat, NEW q \in Nat,
           ~Processes => q = p,
           \A a \in Callers :
               /\ Step(a) =>
                     /\ s[a] <= t[a]
                     /\ \/ q = p
                        \/ q = p + 1 /\ calls[a].event = e /\ s[a] = 0 /\ t[a] = 1
               /\ DecisionFailure(a) => s[a] <= t[a] /\ q = p
               /\ PublishFailure(a) => s[a] <= t[a] /\ q <= p + 1
               /\ CallRaises(a) => q = p,
           p + Left(e, s) <= AttemptsAt(e)
    PROVE  q + Left(e, t)' <= AttemptsAt(e)'
  <1>. DEFINE raw == RawLeft(e, s[worker])
              raw2 == RawLeft(e, t[worker])'
              retry == RetryLeft(e, s[retrier])
              retry2 == RetryLeft(e, t[retrier])'
              wb == WebLeft(e, s[web])
              wb2 == WebLeft(e, t[web])'
              r == Retries(e)
              r2 == Retries(e)'
              used == p + raw + retry + wb
              used2 == q + raw2 + retry2 + wb2
              bonus == IF faults' = faults THEN 0 ELSE Redelivered(r)
  <1>1. /\ worker \in Callers /\ retrier \in Callers /\ web \in Callers
        /\ worker # retrier /\ worker # web /\ retrier # web
        /\ \A a \in Callers : a = worker \/ a = retrier \/ a = web
        /\ s \in [Callers -> {0, 1}] /\ t \in [Callers -> {0, 1}]
        /\ manual \in Nat /\ manual' \in Nat /\ faults \in Nat /\ faults' \in Nat
    BY CallersDiffer, CoreAssumption, TypeInvInductive DEF SpendingStep, TypeInv, ServiceTypes
  <1>2. /\ s[worker] \in {0, 1} /\ s[retrier] \in {0, 1} /\ s[web] \in {0, 1}
        /\ t[worker] \in {0, 1} /\ t[retrier] \in {0, 1} /\ t[web] \in {0, 1}
    BY <1>1
  <1>3. /\ raw \in {0, 1} /\ wb \in {0, 1} /\ retry \in Nat /\ r \in Nat /\ retry <= r
        /\ raw2 \in {0, 1} /\ wb2 \in {0, 1} /\ retry2 \in Nat /\ r2 \in Nat /\ retry2 <= r2
    BY <1>2, LeftBounded, LeftBoundedNext
  <1>4. /\ (IF Processes THEN s[worker] <= t[worker] ELSE ~WorkerFault) => raw2 <= raw
        /\ (IF Processes THEN s[retrier] <= t[retrier] ELSE ~RetrierFault) =>
              retry2 + r <= retry + r2
        /\ r <= r2
        /\ (IF Processes THEN s[web] <= t[web] ELSE manual' = manual) => wb2 <= wb
    BY NothingComesBack
  <1>5. /\ Redelivered(r) \in Nat /\ Redelivered(r) >= 1 /\ Redelivered(r) >= r
    BY <1>3 DEF Redelivered
  <1>6. faults' \in {faults, faults + 1} /\ used2 + r + manual <= used + r2 + manual' + bonus
    <2>1. CASE Processes
      <3>1. PICK a \in Callers : Step(a) \/ DecisionFailure(a) \/ PublishFailure(a) \/ CallRaises(a)
        BY <2>1 DEF Processes
      <3>2. \A b \in Callers : b # a => t[b] = s[b]
        BY <3>1, ProcessChanges
        DEF Step, DecisionFailure, PublishFailure, CallRaises, TypeInv, SpendingStep
      <3>3. manual' = manual /\ faults' \in {faults, faults + 1} /\ r2 = r
        BY <2>1, ProcessesIsLocal DEF loops, topics, Retries
      <3>4. (s[a] <= t[a]) => raw2 <= raw /\ retry2 <= retry /\ wb2 <= wb
        BY <1>1, <1>2, <1>3, <1>4, <2>1, <3>2, <3>3
      <3>. HIDE DEF raw, raw2, retry, retry2, wb, wb2, r, r2
      <3>5. CASE Step(a)
        <4>1. CASE q = p
          BY <1>1, <1>3, <1>5, <3>3, <3>4, <3>5, <4>1
        <4>2. CASE q = p + 1 /\ calls[a].event = e /\ s[a] = 0 /\ t[a] = 1
          <5>1. /\ a = worker => raw2 + 1 <= raw
                /\ a = retrier => retry2 + 1 <= retry
                /\ a = web => wb2 + 1 <= wb
            BY <3>5, <4>2, EffectIsSpent DEF raw, raw2, retry, retry2, wb, wb2
          <5>. QED  BY <1>1, <1>3, <1>5, <3>3, <3>4, <4>2, <5>1
        <4>. QED  BY <3>5, <4>1, <4>2
      <3>6. CASE DecisionFailure(a)
        BY <1>1, <1>3, <1>5, <3>3, <3>4, <3>6
      <3>7. CASE PublishFailure(a)
        <4>1. faults' = faults + 1 /\ s[a] <= t[a] /\ q <= p + 1
          BY <3>7 DEF PublishFailure, Fault
        <4>. QED  BY <1>1, <1>3, <1>5, <3>3, <3>4, <4>1
      <3>8. CASE CallRaises(a)
        <4>1. faults' = faults + 1 /\ q = p
          BY <3>8 DEF CallRaises, Fault
        <4>2. /\ a # worker => raw2 <= raw
              /\ a # retrier => retry2 <= retry
              /\ a # web => wb2 <= wb
          BY <1>1, <1>2, <1>3, <1>4, <2>1, <3>2, <3>3
        <4>. QED  BY <1>1, <1>3, <1>5, <3>3, <4>1, <4>2
      <3>. QED  BY <3>1, <3>5, <3>6, <3>7, <3>8
    <2>2. CASE WorkerMoves /\ ~Processes
      <3>1. manual' = manual /\ UNCHANGED <<sendRetry, retryConsumer>>
        BY <2>2, WorkerIsLocal
      <3>2. /\ wb2 <= wb /\ retry2 <= retry /\ r2 = r /\ q = p
            /\ ~WorkerFault => raw2 <= raw
        BY <1>3, <1>4, <2>2, <3>1 DEF RetrierFault, Retries
      <3>3. faults' \in {faults, faults + 1} /\ (WorkerFault => faults' = faults + 1)
        BY <2>2 DEF WorkerFault, WorkerMoves, WorkerBegins, WorkerSucceeds, WorkerRetries,
           WorkerGivesUp, WorkerPublishesFailure, WorkerFinishes, WorkerLoop, WorkerRaises,
           WorkerCrashes, WorkerRejoins, Fault
      <3>. HIDE DEF raw, raw2, retry, retry2, wb, wb2, r, r2
      <3>. QED  BY <1>1, <1>3, <1>5, <3>1, <3>2, <3>3
    <2>3. CASE RetrierMoves /\ ~Processes
      <3>1. manual' = manual /\ UNCHANGED <<sendRetry, rawConsumer>>
        BY <2>3, RetrierIsLocal
      <3>2. /\ wb2 <= wb /\ raw2 <= raw /\ r2 = r /\ q = p
            /\ ~RetrierFault => retry2 <= retry
        BY <1>3, <1>4, <2>3, <3>1 DEF WorkerFault, Retries
      <3>3. faults' \in {faults, faults + 1} /\ (RetrierFault => faults' = faults + 1)
        BY <2>3 DEF RetrierFault, RetrierMoves, RetrierBegins, RetrierSucceeds,
           RetrierPublishesFailure, RetrierFinishes, RetrierLoop, RetrierAbandons,
           RetrierRaises, RetrierCrashes, RetrierRejoins, Fault
      <3>. HIDE DEF raw, raw2, retry, retry2, wb, wb2, r, r2
      <3>. QED  BY <1>1, <1>3, <1>5, <3>1, <3>2, <3>3
    <2>4. CASE (WebMoves \/ OutsideMoves) /\ ~Processes
      <3>1. UNCHANGED <<rawConsumer, retryConsumer>>
        BY <2>4, WebIsLocal, OutsideIsLocal
      <3>2. /\ raw2 <= raw /\ retry2 + r <= retry + r2 /\ r <= r2 /\ q = p
            /\ manual' = manual => wb2 <= wb
        BY <1>4, <2>4, <3>1 DEF WorkerFault, RetrierFault
      <3>3. /\ faults' \in {faults, faults + 1}
            /\ manual' \in {manual, manual + 1}
        BY <2>4, OutsideIsLocal DEF WebMoves, WebAnswers, WebCrashes, WebRetries, Fault
      <3>4. bonus \in Nat
        BY <1>5
      <3>. HIDE DEF raw, raw2, retry, retry2, wb, wb2, r, r2, bonus
      <3>5. wb2 + manual <= wb + manual'
        <4>1. CASE manual' = manual
          BY <1>1, <1>3, <3>2, <4>1
        <4>2. CASE manual' = manual + 1
          BY <1>1, <1>3, <4>2
        <4>. QED  BY <3>3, <4>1, <4>2
      <3>6. faults' \in {faults, faults + 1}
        BY <3>3
      <3>7. used2 + r + manual <= used + r2 + manual' + bonus
        <4>1. raw2 <= raw /\ retry2 + r <= retry + r2 /\ q = p
          BY <3>2
        <4>2. /\ raw \in Nat /\ raw2 \in Nat /\ wb \in Nat /\ wb2 \in Nat
              /\ retry \in Nat /\ retry2 \in Nat /\ r \in Nat /\ r2 \in Nat
          BY <1>3
        <4>3. manual \in Nat /\ manual' \in Nat
          BY <1>1
        <4>4. ASSUME NEW a \in Nat, NEW a2 \in Nat, a2 <= a,
                     NEW b \in Nat, NEW b2 \in Nat, NEW x \in Nat, NEW x2 \in Nat,
                     b2 + x <= b + x2,
                     NEW c \in Nat, NEW c2 \in Nat, NEW m \in Nat, NEW m2 \in Nat,
                     c2 + m <= c + m2,
                     NEW n \in Nat
              PROVE  p + a2 + b2 + c2 + x + m <= p + a + b + c + x2 + m2 + n
          BY <4>4
        <4>. QED  BY <3>4, <3>5, <4>1, <4>2, <4>3, <4>4
      <3>. QED  BY <3>6, <3>7
    <2>. QED  BY <2>1, <2>2, <2>3, <2>4, NextIsSomeones
  <1>7. /\ AttemptsAt(e) = 1 + r + manual + faults * Redelivered(r)
        /\ AttemptsAt(e)' = 1 + r2 + manual' + faults' * Redelivered(r2)
    BY DEF AttemptsAt, Retries, Redelivered
  <1>8. p + Left(e, s) = used /\ q + Left(e, t)' = used2
    <2>1. Left(e, s) = raw + retry + wb /\ Left(e, t)' = raw2 + retry2 + wb2
      BY DEF Left
    <2>. HIDE DEF raw, raw2, retry, retry2, wb, wb2
    <2>. QED  BY <1>3, <2>1
  <1>9. used \in Nat /\ used2 \in Nat
    <2>. HIDE DEF raw, raw2, retry, retry2, wb, wb2
    <2>. QED  BY <1>3
  <1>. HIDE DEF used, used2, r, r2
  <1>10. used <= 1 + r + manual + faults * Redelivered(r)
    BY <1>7, <1>8
  <1>11. used2 <= 1 + r2 + manual' + faults' * Redelivered(r2)
    BY <1>1, <1>3, <1>4, <1>6, <1>9, <1>10, GrantedGrows
  <1>. QED  BY <1>7, <1>8, <1>11

-----------------------------------------------------------------------------
(* What a call has spent *)

\* A call with its command out, and one with its review in the queue.  A call
\* that ends well counts as if, for it will have neither.
CommandDone(c) ==
    \/ c.pc = "log_queued"
    \/ c.pc \in {"review", "save", "done"} /\ c.final_status # "failed"

ReviewDone(c) == c.pc \in {"save", "done"} /\ c.final_status # "failed"

CommandSpent == [a \in Callers |-> IF CommandDone(calls[a]) THEN 1 ELSE 0]

ReviewSpent == [a \in Callers |-> IF ReviewDone(calls[a]) THEN 1 ELSE 0]

Commands(e) == Cardinality(About(replyCommands, e))

AccountInv ==
    \A e \in Events :
        /\ Commands(e) + Left(e, CommandSpent) <= AttemptsAt(e)
        /\ reviews[e] + Left(e, ReviewSpent) <= AttemptsAt(e)

(* What a call has spent stays spent while process() goes on; and its command,
   or its review, is what it spends its attempt on. *)
LEMMA SpentStays ==
    ASSUME CollectionTypes, NEW a \in Callers, ProcessStep(a)
    PROVE  /\ CommandDone(calls[a]) => CommandDone(calls'[a])
           /\ ReviewDone(calls[a]) => ReviewDone(calls'[a])
           /\ Publish(a) => ~CommandDone(calls[a]) /\ CommandDone(calls'[a])
           /\ CreateReview(a) => ~ReviewDone(calls[a]) /\ ReviewDone(calls'[a])
  <1>1. calls \in [Callers -> CallType] /\ calls[a] \in CallType
    BY DEF CollectionTypes
  <1>2. CASE calls[a].pc \notin {"publish", "log_queued", "review", "save"}
    <2>1. ~Publish(a) /\ ~CreateReview(a)
      BY <1>2 DEF Publish, CreateReview, At
    <2>2. calls[a].pc # "done"
      BY DEF ProcessStep, FindNew, FindDuplicate, FindRetry, MarkRetrying, Reread, Create,
         CreateDuplicateKey, Decide, SaveFailure, FindSuccess, FindLog, LogPending,
         LogDuplicateKey, LogSkipped, LogEscalated, LogQueued, LogFailed, LogOutcome,
         Publish, CreateReview, Save, At
    <2>. QED  BY <1>2, <2>1, <2>2 DEF CommandDone, ReviewDone
  <1>3. CASE calls[a].pc \in {"publish", "log_queued", "review", "save"}
    <2>1. Publish(a) \/ LogQueued(a) \/ CreateReview(a) \/ Save(a)
      BY <1>3
      DEF ProcessStep, FindNew, FindDuplicate, FindRetry, MarkRetrying, Reread, Create,
          CreateDuplicateKey, Decide, SaveFailure, FindSuccess, FindLog, LogPending,
          LogDuplicateKey, LogSkipped, LogEscalated, LogFailed, LogOutcome, At
    <2>2. CASE Publish(a)
      <3>1. calls[a].pc = "publish" /\ calls'[a].pc = "log_queued"
        BY <1>1, <2>2 DEF Publish, Goto, At, CallType
      <3>2. ~CreateReview(a)
        BY <3>1 DEF CreateReview, At
      <3>. QED  BY <3>1, <3>2 DEF CommandDone, ReviewDone
    <2>3. CASE LogQueued(a)
      <3>1. calls[a].pc = "log_queued" /\ Executed(a, "queued")
        BY <2>3 DEF LogQueued, LogOutcome, At
      <3>2. calls'[a].pc \in {"review", "save"} /\ calls'[a].final_status # "failed"
        BY <3>1, ExecutedEnds
      <3>3. ~Publish(a) /\ ~CreateReview(a)
        BY <3>1 DEF Publish, CreateReview, At
      <3>. QED  BY <3>1, <3>2, <3>3 DEF CommandDone, ReviewDone
    <2>4. CASE CreateReview(a)
      <3>1. /\ calls[a].pc = "review"
            /\ calls'[a].pc = "save" /\ calls'[a].final_status = "review_pending"
        BY <1>1, <2>4 DEF CreateReview, At, CallType
      <3>2. ~Publish(a)
        BY <3>1 DEF Publish, At
      <3>. QED  BY <3>1, <3>2 DEF CommandDone, ReviewDone
    <2>5. CASE Save(a)
      <3>1. /\ calls[a].pc = "save"
            /\ calls'[a].pc = "done" /\ calls'[a].final_status = calls[a].final_status
        BY <1>1, <2>5 DEF Save, At, CallType
      <3>2. ~Publish(a) /\ ~CreateReview(a)
        BY <3>1 DEF Publish, CreateReview, At
      <3>. QED  BY <3>1, <3>2 DEF CommandDone, ReviewDone
    <2>. QED  BY <2>1, <2>2, <2>3, <2>4, <2>5
  <1>. QED  BY <1>2, <1>3

(* A command more is one more about its event, and no more about another. *)
LEMMA CommandAdds ==
    ASSUME CollectionTypes, NEW e \in Events
    PROVE  /\ Commands(e) \in Nat
           /\ \A c \in ReplyCommand :
                 replyCommands' = Append(replyCommands, c) =>
                    Commands(e)' = Commands(e) + IF EventOf(c.command) = e THEN 1 ELSE 0
  <1>1. replyCommands \in Seq(ReplyCommand) /\ Len(replyCommands) \in Nat
    BY DEF CollectionTypes
  <1>2. IsFiniteSet(About(replyCommands, e))
    <2>1. ASSUME NEW N \in Nat PROVE IsFiniteSet(1..N)
      BY FS_Interval
    <2>2. About(replyCommands, e) \subseteq 1..Len(replyCommands)
      BY <1>1 DEF About
    <2>. QED  BY <1>1, <2>1, <2>2, FS_Subset
  <1>3. Commands(e) \in Nat
    BY <1>2, FS_CardinalityType DEF Commands
  <1>4. ASSUME NEW c \in ReplyCommand, replyCommands' = Append(replyCommands, c)
        PROVE  Commands(e)' = Commands(e) + IF EventOf(c.command) = e THEN 1 ELSE 0
    <2>. DEFINE n == Len(replyCommands) + 1
    <2>1. /\ DOMAIN replyCommands' = DOMAIN replyCommands \cup {n}
          /\ n \notin DOMAIN replyCommands
          /\ \A i \in DOMAIN replyCommands : replyCommands'[i] = replyCommands[i]
          /\ replyCommands'[n] = c
      BY <1>1, <1>4
    <2>. HIDE DEF n
    <2>2. CASE EventOf(c.command) = e
      <3>1. /\ About(replyCommands', e) = About(replyCommands, e) \cup {n}
            /\ n \notin About(replyCommands, e)
        BY <2>1, <2>2 DEF About
      <3>2. Cardinality(About(replyCommands', e)) = Cardinality(About(replyCommands, e)) + 1
        BY <1>2, <3>1, FS_AddElement
      <3>. QED  BY <2>2, <3>2 DEF Commands
    <2>3. CASE EventOf(c.command) # e
      <3>1. About(replyCommands', e) = About(replyCommands, e)
        BY <2>1, <2>3 DEF About
      <3>. QED  BY <1>3, <2>3, <3>1 DEF Commands
    <2>. QED  BY <2>2, <2>3
  <1>. QED  BY <1>3, <1>4

(* Only two operations of process() have an effect that is counted here. *)
LEMMA CountedEffects ==
    ASSUME NEW a, ProcessStep(a)
    PROVE  /\ Publish(a) \/ replyCommands' = replyCommands
           /\ CreateReview(a) \/ reviews' = reviews
  BY DEF ProcessStep, FindNew, FindDuplicate, FindRetry, MarkRetrying, Reread, Create,
     CreateDuplicateKey, Decide, SaveFailure, FindSuccess, FindLog, LogPending,
     LogDuplicateKey, LogSkipped, LogEscalated, LogQueued, LogFailed, LogOutcome,
     Publish, CreateReview, Save, collections

(* Both ways of spending are spendings. *)
LEMMA SpentIsSpending ==
    ASSUME TypeInv,
           NEW s, NEW t, \/ s = CommandSpent /\ t = CommandSpent'
                         \/ s = ReviewSpent /\ t = ReviewSpent'
    PROVE  SpendingStep(s, t)
  <1>1. ASSUME NEW a \in Callers, At(a, "idle") \/ Failed(a)
        PROVE  ~CommandDone(calls[a]) /\ ~ReviewDone(calls[a])
    BY <1>1 DEF Failed, At, CommandDone, ReviewDone
  <1>2. CASE s = CommandSpent /\ t = CommandSpent'
    BY <1>1, <1>2 DEF SpendingStep, CommandSpent
  <1>3. CASE s = ReviewSpent /\ t = ReviewSpent'
    BY <1>1, <1>3 DEF SpendingStep, ReviewSpent
  <1>. QED  BY <1>2, <1>3

(* The account of the commands. *)
LEMMA CommandAccount ==
    ASSUME TypeInv, OwnInv, [Next]_vars, NEW e \in Events,
           Commands(e) + Left(e, CommandSpent) <= AttemptsAt(e)
    PROVE  (Commands(e) + Left(e, CommandSpent) <= AttemptsAt(e))'
  <1>1. CollectionTypes /\ CollectionTypes'
    BY TypeInvInductive DEF TypeInv
  <1>2. PICK s, t : s = CommandSpent /\ t = CommandSpent'
    OBVIOUS
  <1>3. /\ SpendingStep(s, t)
        /\ \A a \in Callers : s[a] = (IF CommandDone(calls[a]) THEN 1 ELSE 0)
        /\ \A a \in Callers : t[a] = (IF CommandDone(calls'[a]) THEN 1 ELSE 0)
    BY <1>2, SpentIsSpending DEF CommandSpent
  <1>4. Commands(e) \in Nat
    BY <1>1, CommandAdds
  <1>5. \A a \in Callers : At(a, "publish") =>
            /\ Command(a) \in ReplyCommand /\ EventOf(Command(a).command) = calls[a].event
    BY <1>1, CommandTyped, KeyTyped DEF Command
  <1>6. \A c \in ReplyCommand :
           replyCommands' = Append(replyCommands, c) =>
              Commands(e)' = Commands(e) + IF EventOf(c.command) = e THEN 1 ELSE 0
    BY <1>1, CommandAdds
  <1>7. replyCommands' = replyCommands => Commands(e)' = Commands(e)
    BY DEF Commands
  <1>8. ~Processes => Commands(e)' = Commands(e)
    BY <1>7, CallerSteps
  <1>9. ASSUME NEW a \in Callers, Step(a)
        PROVE  /\ s[a] <= t[a]
               /\ \/ Commands(e)' = Commands(e)
                  \/ /\ Commands(e)' = Commands(e) + 1
                     /\ calls[a].event = e /\ s[a] = 0 /\ t[a] = 1
    <2>1. ProcessStep(a)
      BY <1>9 DEF Step
    <2>2. s[a] <= t[a]
      BY <1>1, <1>3, <2>1, SpentStays
    <2>3. CASE Publish(a)
      <3>1. s[a] = 0 /\ t[a] = 1
        BY <1>1, <1>3, <2>1, <2>3, SpentStays
      <3>2. /\ replyCommands' = Append(replyCommands, Command(a))
            /\ At(a, "publish")
        BY <2>3 DEF Publish
      <3>3. Commands(e)' = Commands(e) + IF calls[a].event = e THEN 1 ELSE 0
        BY <1>5, <1>6, <3>2
      <3>. QED  BY <1>4, <2>2, <3>1, <3>3
    <2>. QED  BY <1>7, <2>1, <2>2, <2>3, CountedEffects
  <1>10. ASSUME NEW a \in Callers, DecisionFailure(a) \/ PublishFailure(a)
         PROVE  s[a] <= t[a]
    <2>1. ~CommandDone(calls[a])
      BY <1>10
      DEF DecisionFailure, PublishFailure, DecideFails, PublishFails, At, CommandDone
    <2>. QED  BY <1>3, <2>1
  <1>11. ASSUME NEW a \in Callers, DecisionFailure(a) \/ CallRaises(a)
         PROVE  Commands(e)' = Commands(e)
    BY <1>7, <1>11 DEF DecisionFailure, CallRaises, DecideFails, ProcessRaises, collections
  <1>12. ASSUME NEW a \in Callers, PublishFailure(a)
         PROVE  Commands(e)' <= Commands(e) + 1
    <2>1. /\ replyCommands' = replyCommands \/ replyCommands' = Append(replyCommands, Command(a))
          /\ At(a, "publish")
      BY <1>12 DEF PublishFailure, PublishFails
    <2>2. CASE replyCommands' = replyCommands
      BY <1>4, <1>7, <2>2
    <2>3. CASE replyCommands' = Append(replyCommands, Command(a))
      BY <1>4, <1>5, <1>6, <2>1, <2>3
    <2>. QED  BY <2>1, <2>2, <2>3
  <1>13. PICK p \in Nat : p = Commands(e)
    BY <1>4
  <1>14. PICK q \in Nat : q = Commands(e)'
    <2>1. Commands(e)' \in Nat
      <3>1. CASE replyCommands' = replyCommands
        BY <1>4, <1>7, <3>1
      <3>2. ASSUME NEW c \in ReplyCommand, replyCommands' = Append(replyCommands, c)
            PROVE  Commands(e)' \in Nat
        BY <1>4, <1>6, <3>2
      <3>3. ASSUME NEW a \in Callers, Step(a) PROVE Commands(e)' \in Nat
        BY <1>4, <1>9, <3>3
      <3>4. ASSUME NEW a \in Callers, PublishFailure(a) PROVE Commands(e)' \in Nat
        <4>1. /\ replyCommands' = replyCommands \/ replyCommands' = Append(replyCommands, Command(a))
              /\ At(a, "publish")
          BY <3>4 DEF PublishFailure, PublishFails
        <4>. QED  BY <1>5, <3>1, <3>2, <4>1
      <3>. QED  BY <1>4, <1>8, <1>11, <3>3, <3>4 DEF Processes
    <2>. QED  BY <2>1
  <1>15. Left(e, s) = Left(e, CommandSpent) /\ Left(e, t)' = Left(e, CommandSpent)'
    BY <1>2 DEF Left, RawLeft, RetryLeft, WebLeft, At
  <1>16. q + Left(e, t)' <= AttemptsAt(e)'
    <2>1. p + Left(e, s) <= AttemptsAt(e)
      BY <1>13, <1>15
    <2>2. ~Processes => q = p
      BY <1>8, <1>13, <1>14
    <2>3. \A a \in Callers :
             /\ Step(a) =>
                   /\ s[a] <= t[a]
                   /\ \/ q = p
                      \/ q = p + 1 /\ calls[a].event = e /\ s[a] = 0 /\ t[a] = 1
             /\ DecisionFailure(a) => s[a] <= t[a] /\ q = p
             /\ PublishFailure(a) => s[a] <= t[a] /\ q <= p + 1
             /\ CallRaises(a) => q = p
      BY <1>9, <1>10, <1>11, <1>12, <1>13, <1>14
    <2>. QED  BY <1>3, <2>1, <2>2, <2>3, AccountKept
  <1>. QED  BY <1>14, <1>15, <1>16

(* The account of the reviews. *)
LEMMA ReviewAccount ==
    ASSUME TypeInv, OwnInv, [Next]_vars, NEW e \in Events,
           reviews[e] + Left(e, ReviewSpent) <= AttemptsAt(e)
    PROVE  (reviews[e] + Left(e, ReviewSpent) <= AttemptsAt(e))'
  <1>1. /\ CollectionTypes /\ CollectionTypes'
        /\ reviews \in [Events -> Nat] /\ reviews' \in [Events -> Nat]
    BY TypeInvInductive DEF TypeInv, CollectionTypes
  <1>2. PICK s, t : s = ReviewSpent /\ t = ReviewSpent'
    OBVIOUS
  <1>3. /\ SpendingStep(s, t)
        /\ \A a \in Callers : s[a] = (IF ReviewDone(calls[a]) THEN 1 ELSE 0)
        /\ \A a \in Callers : t[a] = (IF ReviewDone(calls'[a]) THEN 1 ELSE 0)
    BY <1>2, SpentIsSpending DEF ReviewSpent
  <1>4. PICK p \in Nat, q \in Nat : p = reviews[e] /\ q = reviews'[e]
    BY <1>1
  <1>5. ~Processes => q = p
    BY <1>4, CallerSteps
  <1>6. ASSUME NEW a \in Callers, Step(a)
        PROVE  /\ s[a] <= t[a]
               /\ q = p \/ (q = p + 1 /\ calls[a].event = e /\ s[a] = 0 /\ t[a] = 1)
    <2>1. ProcessStep(a)
      BY <1>6 DEF Step
    <2>2. s[a] <= t[a]
      BY <1>1, <1>3, <2>1, SpentStays
    <2>3. CASE CreateReview(a)
      <3>1. s[a] = 0 /\ t[a] = 1
        BY <1>1, <1>3, <2>1, <2>3, SpentStays
      <3>2. PICK f \in Events : f = calls[a].event
        BY <1>1, KeyTyped
      <3>3. reviews' = [reviews EXCEPT ![f] = reviews[f] + 1]
        BY <2>3, <3>2 DEF CreateReview
      <3>. QED  BY <1>1, <1>4, <2>2, <3>1, <3>2, <3>3
    <2>. QED  BY <1>4, <2>1, <2>2, <2>3, CountedEffects
  <1>7. ASSUME NEW a \in Callers
        PROVE  /\ DecisionFailure(a) => s[a] <= t[a] /\ q = p
               /\ PublishFailure(a) => s[a] <= t[a] /\ q = p
               /\ CallRaises(a) => q = p
    <2>1. DecisionFailure(a) \/ PublishFailure(a) => ~ReviewDone(calls[a])
      BY DEF DecisionFailure, PublishFailure, DecideFails, PublishFails, At, ReviewDone
    <2>2. DecisionFailure(a) \/ PublishFailure(a) \/ CallRaises(a) => reviews' = reviews
      BY DEF DecisionFailure, PublishFailure, CallRaises, DecideFails, PublishFails,
         ProcessRaises, collections
    <2>. QED  BY <1>3, <1>4, <2>1, <2>2
  <1>8. Left(e, s) = Left(e, ReviewSpent) /\ Left(e, t)' = Left(e, ReviewSpent)'
    BY <1>2 DEF Left, RawLeft, RetryLeft, WebLeft, At
  <1>9. q + Left(e, t)' <= AttemptsAt(e)'
    <2>1. p + Left(e, s) <= AttemptsAt(e)
      BY <1>4, <1>8
    <2>2. \A a \in Callers :
             /\ Step(a) =>
                   /\ s[a] <= t[a]
                   /\ \/ q = p
                      \/ q = p + 1 /\ calls[a].event = e /\ s[a] = 0 /\ t[a] = 1
             /\ DecisionFailure(a) => s[a] <= t[a] /\ q = p
             /\ PublishFailure(a) => s[a] <= t[a] /\ q <= p + 1
             /\ CallRaises(a) => q = p
      BY <1>6, <1>7
    <2>. QED  BY <1>3, <1>5, <2>1, <2>2, AccountKept
  <1>. QED  BY <1>4, <1>8, <1>9

(* Both accounts balance at the start, and every step keeps them. *)
LEMMA AccountInvInductive ==
    /\ Init => AccountInv
    /\ TypeInv /\ OwnInv /\ AccountInv /\ [Next]_vars => AccountInv'
  <1>1. ASSUME Init, NEW e \in Events
        PROVE  /\ Commands(e) + Left(e, CommandSpent) <= AttemptsAt(e)
               /\ reviews[e] + Left(e, ReviewSpent) <= AttemptsAt(e)
    <2>1. /\ rawEvents = <<>> /\ sendRetry = <<>> /\ replyCommands = <<>>
          /\ reviews[e] = 0 /\ manual = 0 /\ faults = 0
          /\ calls[web].pc = "idle"
      BY <1>1, IdleTyped, CallersDiffer DEF Init, ProcessorInit
    <2>2. Commands(e) = 0 /\ Retries(e) = 0
      <3>1. About(replyCommands, e) = {} /\ About(sendRetry, e) = {}
        BY <2>1 DEF About
      <3>. QED  BY <3>1, FS_EmptySet DEF Commands, Retries
    <2>3. \A n : RawLeft(e, n) \in {0, 1} /\ RetryLeft(e, n) = 0 /\ WebLeft(e, n) = 0
      <3>1. ASSUME NEW n PROVE RetryDue(sendRetry, e, n) = {}
        BY <2>1 DEF RetryDue, About
      <3>. QED  BY <2>1, <3>1, FS_EmptySet DEF RawLeft, RawDue, RetryLeft, WebLeft, At
    <2>4. AttemptsAt(e) = 1
      BY <2>1, <2>2 DEF AttemptsAt, Retries
    <2>5. ASSUME NEW s PROVE 0 + Left(e, s) <= 1
      BY <2>3 DEF Left
    <2>. QED  BY <2>1, <2>2, <2>4, <2>5
  <1>2. ASSUME TypeInv, OwnInv, AccountInv, [Next]_vars PROVE AccountInv'
    BY <1>2, CommandAccount, ReviewAccount DEF AccountInv
  <1>. QED  BY <1>1, <1>2 DEF AccountInv

(* What is left is never negative. *)
LEMMA LeftIsNat ==
    ASSUME TypeInv, NEW e \in Events
    PROVE  Left(e, CommandSpent) \in Nat /\ Left(e, ReviewSpent) \in Nat
  <1>1. ASSUME NEW s \in [Callers -> {0, 1}] PROVE Left(e, s) \in Nat
    <2>1. s[worker] \in {0, 1} /\ s[retrier] \in {0, 1} /\ s[web] \in {0, 1}
      BY CallersDiffer
    <2>2. /\ RawLeft(e, s[worker]) \in {0, 1}
          /\ RetryLeft(e, s[retrier]) \in Nat
          /\ WebLeft(e, s[web]) \in {0, 1}
      BY <2>1, LeftBounded
    <2>. QED  BY <2>2 DEF Left
  <1>2. CommandSpent \in [Callers -> {0, 1}] /\ ReviewSpent \in [Callers -> {0, 1}]
    BY DEF CommandSpent, ReviewSpent
  <1>. QED  BY <1>1, <1>2

(* Attempts are counted. *)
LEMMA AttemptsAreNat ==
    ASSUME TypeInv, NEW e \in Events
    PROVE  AttemptsAt(e) \in Nat
  <1>1. Retries(e) \in Nat /\ manual \in Nat /\ faults \in Nat
    BY LeftBounded, CoreAssumption DEF TypeInv, ServiceTypes
  <1>2. Redelivered(Retries(e)) \in Nat
    BY <1>1 DEF Redelivered
  <1>. QED  BY <1>1, <1>2 DEF AttemptsAt, Retries, Redelivered

(* An event gets no more commands than attempts, whoever attempts it and
   wherever the attempts are cut short, redelivered or repeated. *)
THEOREM CommandsStayBounded == Spec => []CommandsBounded
  <1>1. TypeInv /\ AccountInv => CommandsBounded
    <2>. SUFFICES ASSUME TypeInv, AccountInv, NEW e \in Events
                  PROVE  Cardinality(About(replyCommands, e)) <= AttemptsAt(e)
      BY DEF CommandsBounded
    <2>1. Commands(e) \in Nat /\ Left(e, CommandSpent) \in Nat
      BY CommandAdds, LeftIsNat DEF TypeInv
    <2>2. AttemptsAt(e) \in Nat
      BY AttemptsAreNat
    <2>. QED  BY <2>1, <2>2 DEF AccountInv, Commands
  <1>. QED  BY <1>1, TypeInvInductive, OwnInvInductive, AccountInvInductive, PTL DEF Spec

(* Nor does it get more entries in the review queue. *)
THEOREM ReviewsStayBounded == Spec => []ReviewsBounded
  <1>1. TypeInv /\ AccountInv => ReviewsBounded
    <2>. SUFFICES ASSUME TypeInv, AccountInv, NEW e \in Events
                  PROVE  reviews[e] <= AttemptsAt(e)
      BY DEF ReviewsBounded
    <2>1. reviews[e] \in Nat /\ Left(e, ReviewSpent) \in Nat
      BY LeftIsNat DEF TypeInv, CollectionTypes
    <2>2. AttemptsAt(e) \in Nat
      BY AttemptsAreNat
    <2>. QED  BY <2>1, <2>2 DEF AccountInv
  <1>. QED  BY <1>1, TypeInvInductive, OwnInvInductive, AccountInvInductive, PTL DEF Spec

-----------------------------------------------------------------------------
(* What becomes of an event that was worked off *)

\* What others have heard of e: this nothing takes back.
Answered(e) == About(replyCommands, e) # {} \/ About(sendFailed, e) # {}

DoneWith(e) == Outcome(e) \/ docs[e].status = "received"

\* What is in the batch is not yet handled; only what was answered comes back
\* as a retry; and as long as no operator interferes, the one who ends a call
\* for an event leaves it with an outcome.
HandledInv ==
    /\ rawConsumer.mode = "batch" =>
          \A i \in rawHandled : i \notin rawConsumer.next + 1 .. rawConsumer.position
    /\ \A i \in DOMAIN sendRetry : Answered(EventOf(sendRetry[i].command))
    /\ stage[worker] = "finish" => About(sendFailed, rawEvent) # {}
    /\ manual = 0 =>
          /\ At(web, "idle")
          /\ Succeeded(worker) => DoneWith(calls[worker].event)
          /\ \A i \in rawHandled : DoneWith(rawEvents[i])

(* Every step only appends to what the service publishes. *)
LEMMA OutboxesGrow ==
    ASSUME TypeInv, [Next]_vars
    PROVE  /\ Grows(replyCommands, replyCommands') /\ Grows(sendFailed, sendFailed')
           /\ \A e \in Events : reviews[e] <= reviews'[e]
  <1>1. /\ CollectionTypes
        /\ reviews \in [Events -> Nat] /\ replyCommands \in Seq(ReplyCommand)
        /\ sendFailed \in Seq(FailureReport)
    BY DEF TypeInv, CollectionTypes, ServiceTypes
  <1>2. Grows(replyCommands, replyCommands') /\ \A e \in Events : reviews[e] <= reviews'[e]
    <2>1. CASE Processes
      BY <1>1, <2>1, EffectsStay
      DEF Processes, Step, DecisionFailure, PublishFailure, CallRaises
    <2>2. CASE UNCHANGED <<logs, reviews, replyCommands>>
      BY <1>1, <2>2 DEF Grows
    <2>. QED  BY <2>1, <2>2, CallerSteps
  <1>3. sendFailed' = sendFailed \/ \E m : sendFailed' = Append(sendFailed, m)
    <2>1. CASE WorkerMoves
      BY <2>1 DEF WorkerMoves, WorkerBegins, WorkerSucceeds, WorkerRetries, WorkerGivesUp,
         WorkerPublishesFailure, WorkerFinishes, WorkerLoop, WorkerRaises, WorkerCrashes,
         WorkerRejoins, topics
    <2>2. CASE RetrierMoves
      BY <2>2 DEF RetrierMoves, RetrierBegins, RetrierSucceeds, RetrierPublishesFailure,
         RetrierFinishes, RetrierLoop, RetrierAbandons, RetrierRaises, RetrierCrashes,
         RetrierRejoins, topics
    <2>3. CASE WebMoves \/ OutsideMoves
      BY <2>3 DEF WebMoves, WebAnswers, WebCrashes, WebRetries, OutsideMoves,
         PipelineRetries, RetryScheduled, WebhookPublishes, vars, topics
    <2>4. CASE Processes
      BY <2>4, ProcessesIsLocal DEF loops, topics
    <2>. QED  BY <2>1, <2>2, <2>3, <2>4, NextIsSomeones
  <1>4. Grows(sendFailed, sendFailed')
    BY <1>1, <1>3 DEF Grows
  <1>. QED  BY <1>2, <1>4

(* Answers and reviews are not taken back. *)
LEMMA AnswersStay ==
    ASSUME TypeInv, [Next]_vars, NEW e \in Events
    PROVE  /\ About(replyCommands, e) # {} => About(replyCommands', e) # {}
           /\ About(sendFailed, e) # {} => About(sendFailed', e) # {}
           /\ reviews[e] > 0 => reviews'[e] > 0
  <1>1. /\ CollectionTypes /\ CollectionTypes'
        /\ reviews \in [Events -> Nat] /\ reviews' \in [Events -> Nat]
        /\ sendFailed \in Seq(FailureReport) /\ sendFailed' \in Seq(FailureReport)
    BY TypeInvInductive DEF TypeInv, CollectionTypes, ServiceTypes
  <1>2. About(sendFailed, e) \subseteq About(sendFailed', e)
    BY <1>1, OutboxesGrow DEF About, Grows
  <1>. QED  BY <1>1, <1>2, OutboxesGrow, CommandsStay

(* A document changes its status only at the hands of a call about it that has
   not ended well. *)
LEMMA StatusChanges ==
    ASSUME TypeInv, OwnInv, [Next]_vars, NEW e \in Events, docs'[e].status # docs[e].status
    PROVE  \E a \in Callers : ~At(a, "idle") /\ ~Succeeded(a) /\ calls[a].event = e
  <1>1. docs \in [Events -> DocType]
    BY DEF TypeInv, CollectionTypes
  <1>2. CASE Processes
    <2>1. PICK a \in Callers : Step(a) \/ DecisionFailure(a) \/ PublishFailure(a) \/ CallRaises(a)
      BY <1>2 DEF Processes
    <2>2. MarkRetrying(a) \/ Create(a) \/ SaveFailure(a) \/ Save(a)
      BY <2>1
      DEF Step, DecisionFailure, PublishFailure, CallRaises, ProcessStep, FindNew,
          FindDuplicate, FindRetry, Reread, CreateDuplicateKey, Decide, FindSuccess,
          FindLog, LogPending, LogDuplicateKey, LogSkipped, LogEscalated, LogQueued,
          LogFailed, LogOutcome, Publish, CreateReview, DecideFails, PublishFails,
          ProcessRaises, collections
    <2>3. calls[a].event = e
      BY <1>1, <2>2 DEF MarkRetrying, Create, SaveFailure, Save
    <2>4. ~At(a, "idle") /\ ~At(a, "done")
      BY <2>2 DEF MarkRetrying, Create, SaveFailure, Save, At
    <2>. QED  BY <2>3, <2>4 DEF Succeeded
  <1>3. ASSUME NEW status, NEW n, MarkDoc(rawEvent, status, n), Failed(worker),
               stage[worker] = "process"
        PROVE  \E a \in Callers : ~At(a, "idle") /\ ~Succeeded(a) /\ calls[a].event = e
    <2>1. rawEvent = e
      BY <1>1, <1>3 DEF MarkDoc
    <2>2. ~At(worker, "idle") /\ ~Succeeded(worker)
      BY <1>3 DEF Failed, Succeeded, At
    <2>. QED  BY <1>3, <2>1, <2>2, CallersDiffer DEF OwnInv, AtOwnRecord
  <1>4. CASE WorkerMoves
    <2>1. docs' = docs \/ WorkerRetries \/ WorkerGivesUp
      BY <1>4 DEF WorkerMoves, WorkerBegins, WorkerSucceeds, WorkerPublishesFailure,
         WorkerFinishes, WorkerLoop, WorkerRaises, WorkerCrashes, WorkerRejoins, collections
    <2>. QED  BY <1>3, <2>1 DEF WorkerRetries, WorkerGivesUp
  <1>5. CASE RetrierMoves
    BY <1>5 DEF RetrierMoves, RetrierBegins, RetrierSucceeds, RetrierPublishesFailure,
       RetrierFinishes, RetrierLoop, RetrierAbandons, RetrierRaises, RetrierCrashes,
       RetrierRejoins, collections
  <1>6. CASE WebMoves \/ OutsideMoves
    BY <1>6 DEF WebMoves, WebAnswers, WebCrashes, WebRetries, OutsideMoves, PipelineRetries,
       RetryScheduled, WebhookPublishes, vars, collections
  <1>. QED  BY <1>2, <1>4, <1>5, <1>6, NextIsSomeones

(* A call that ends well has saved an outcome, or has found one, or has found
   the event in other hands. *)
LEMMA EndsWell ==
    ASSUME CollectionTypes, NEW a \in Callers,
           ProcessStep(a) \/ DecideFails(a) \/ PublishFails(a) \/ ProcessRaises(a),
           Succeeded(a)'
    PROVE  docs'[calls[a].event].status \in TERMINAL_STATUSES \cup {"received"}
  <1>1. /\ calls \in [Callers -> CallType] /\ calls[a] \in CallType
        /\ docs \in [Events -> DocType]
        /\ calls[a].event \in Events
    BY KeyTyped DEF CollectionTypes
  <1>2. calls'[a].pc = "done" /\ calls'[a].final_status # "failed"
    BY DEF Succeeded, At
  <1>3. ASSUME NEW pc, Goto(a, pc) PROVE pc = "done"
    BY <1>1, <1>2, <1>3 DEF Goto
  <1>4. FindDuplicate(a) \/ Save(a)
    <2>1. ~DecideFails(a) /\ ~PublishFails(a) /\ ~ProcessRaises(a)
      BY <1>3 DEF DecideFails, PublishFails, ProcessRaises, Throw
    <2>2. /\ ~FindNew(a) /\ ~MarkRetrying(a) /\ ~Create(a) /\ ~CreateDuplicateKey(a)
          /\ ~FindLog(a) /\ ~LogPending(a) /\ ~LogDuplicateKey(a) /\ ~Publish(a)
      BY <1>3 DEF FindNew, MarkRetrying, Create, CreateDuplicateKey, FindLog, LogPending,
         LogDuplicateKey, Publish, Throw
    <2>3. ~FindRetry(a) /\ ~Reread(a) /\ ~CreateReview(a) /\ ~SaveFailure(a)
      <3>1. ASSUME FindRetry(a) PROVE calls'[a].pc = "mark_retrying"
        BY <1>1, <3>1 DEF FindRetry, CallType
      <3>2. ASSUME Reread(a) PROVE calls'[a].pc = "decide"
        BY <1>1, <3>2 DEF Reread, CallType
      <3>3. ASSUME CreateReview(a) PROVE calls'[a].pc = "save"
        BY <1>1, <3>3 DEF CreateReview, CallType
      <3>4. ASSUME SaveFailure(a) PROVE calls'[a].final_status = "failed"
        BY <1>1, <3>4 DEF SaveFailure, CallType
      <3>. QED  BY <1>2, <3>1, <3>2, <3>3, <3>4
    <2>5. ~Decide(a)
      <3>. SUFFICES ASSUME Decide(a) PROVE FALSE
        OBVIOUS
      <3>1. PICK d \in Decisions, pc \in {"find_success", "save"},
                 fs \in {"ignored", "processed"} :
               calls' = [calls EXCEPT ![a].decision = d, ![a].pc = pc, ![a].final_status = fs]
        BY DecideChooses
      <3>2. calls'[a].pc = pc
        BY <1>1, <3>1 DEF CallType
      <3>. QED  BY <1>2, <3>2
    <2>6. \A status : ~Executed(a, status)
      BY <1>2, ExecutedEnds
    <2>7. /\ ~LogSkipped(a) /\ ~LogEscalated(a) /\ ~LogQueued(a) /\ ~LogFailed(a)
          /\ ~FindSuccess(a)
      BY <1>3, <2>6 DEF LogSkipped, LogEscalated, LogQueued, LogFailed, LogOutcome, FindSuccess
    <2>. QED  BY <2>1, <2>2, <2>3, <2>5, <2>7 DEF ProcessStep
  <1>5. CASE FindDuplicate(a)
    <2>1. /\ docs' = docs
          /\ docs[calls[a].event].status # "absent"
          /\ docs[calls[a].event].status \notin RETRYABLE_STATUSES
      BY <1>5 DEF FindDuplicate, Skips, Doc, collections
    <2>2. docs[calls[a].event].status \in Statuses \cup {"absent"}
      BY <1>1 DEF DocType
    <2>. QED  BY <2>1, <2>2 DEF Statuses
  <1>6. CASE Save(a)
    <2>1. /\ docs'[calls[a].event].status = calls[a].final_status
          /\ calls'[a].final_status = calls[a].final_status
      BY <1>1, <1>6 DEF Save, DocType, CallType
    <2>2. calls[a].final_status \in SavedStatuses
      BY <1>6 DEF Save, CollectionTypes
    <2>. QED  BY <1>2, <2>1, <2>2 DEF SavedStatuses, TERMINAL_STATUSES
  <1>. QED  BY <1>4, <1>5, <1>6

(* Of the handled records, none but the one at hand is about its event. *)
LEMMA OneOffsetEach ==
    ASSUME TypeInv, OwnInv, NEW i \in rawHandled, stage[worker] # "idle",
           rawEvents[i] = rawEvent
    PROVE  i = rawConsumer.next + 1
  <1>1. /\ i \in DOMAIN rawEvents
        /\ RawEvents!HasRecord
    BY DEF TypeInv, RawLoopInv, InBatch
  <1>2. rawConsumer.next + 1 \in DOMAIN rawEvents /\ rawEvent = rawEvents[rawConsumer.next + 1]
    BY <1>1, CurrentRecords DEF TypeInv, RawLoopInv
  <1>. QED  BY <1>1, <1>2 DEF OwnInv, PublishedOnce

(* An event that is done with stays so, unless the worker is at it again. *)
LEMMA DoneWithStays ==
    ASSUME TypeInv, OwnInv, HandledInv, [Next]_vars, manual = 0, NEW e \in Events, DoneWith(e),
           calls[worker].event = e => At(worker, "idle") \/ Succeeded(worker)
    PROVE  DoneWith(e)'
  <1>1. /\ About(replyCommands, e) # {} => About(replyCommands', e) # {}
        /\ About(sendFailed, e) # {} => About(sendFailed', e) # {}
        /\ reviews[e] > 0 => reviews'[e] > 0
    BY AnswersStay
  <1>2. CASE docs'[e].status = docs[e].status
    BY <1>1, <1>2 DEF DoneWith, Outcome
  <1>3. CASE docs'[e].status # docs[e].status
    <2>1. PICK a \in Callers : ~At(a, "idle") /\ ~Succeeded(a) /\ calls[a].event = e
      BY <1>3, StatusChanges
    <2>2. a = retrier
      BY <2>1, CallersDiffer DEF HandledInv
    <2>3. stage[retrier] # "idle" /\ e = EventOf(retryCommand.command)
      BY <2>1, <2>2 DEF OwnInv, AtOwnRecord
    <2>4. /\ retryConsumer.next + 1 \in DOMAIN sendRetry
          /\ retryCommand = sendRetry[retryConsumer.next + 1]
      BY <2>3, CurrentRecords DEF TypeInv, InBatch, RetryLoopInv
    <2>5. Answered(e)
      BY <2>3, <2>4 DEF HandledInv
    <2>. QED  BY <1>1, <2>5 DEF Answered, DoneWith, Outcome
  <1>. QED  BY <1>2, <1>3

(* A record becomes handled at the end of its own call, or of its failure. *)
LEMMA NewlyHandled ==
    ASSUME TypeInv, [Next]_vars, NEW i \in rawHandled', i \notin rawHandled
    PROVE  (WorkerSucceeds \/ WorkerFinishes) /\ i = rawConsumer.next + 1
  <1>1. CASE WorkerMoves
    <2>1. CASE WorkerSucceeds \/ WorkerFinishes
      BY <2>1 DEF WorkerSucceeds, WorkerFinishes, RawEvents!Finish
    <2>2. CASE ~WorkerSucceeds /\ ~WorkerFinishes
      BY <1>1, <2>2 DEF WorkerMoves, WorkerBegins, WorkerRetries, WorkerGivesUp,
         WorkerPublishesFailure, WorkerLoop, WorkerRaises, WorkerCrashes, WorkerRejoins,
         rawLoop, RawEvents!Start, RawEvents!Poll, RawEvents!Commit, RawEvents!Raise,
         RawEvents!Rejoin, RawEvents!Crash
    <2>. QED  BY <2>1, <2>2
  <1>2. CASE RetrierMoves
    BY <1>2 DEF RetrierMoves, RetrierBegins, RetrierSucceeds, RetrierPublishesFailure,
       RetrierFinishes, RetrierLoop, RetrierAbandons, RetrierRaises, RetrierCrashes,
       RetrierRejoins, rawLoop
  <1>3. CASE WebMoves \/ OutsideMoves
    BY <1>3 DEF WebMoves, WebAnswers, WebCrashes, WebRetries, OutsideMoves, PipelineRetries,
       RetryScheduled, WebhookPublishes, RawEvents!Produce, vars, rawLoop
  <1>4. CASE Processes
    BY <1>4, ProcessesIsLocal DEF loops, rawLoop
  <1>. QED  BY <1>1, <1>2, <1>3, <1>4, NextIsSomeones

(* What is in the batch is not handled: poll() takes redelivered records back. *)
LEMMA BatchNotHandled ==
    ASSUME TypeInv, HandledInv, [Next]_vars
    PROVE  rawConsumer'.mode = "batch" =>
              \A i \in rawHandled' : i \notin rawConsumer'.next + 1 .. rawConsumer'.position
  <1>. DEFINE Fresh == rawConsumer'.mode = "batch" =>
              \A i \in rawHandled' : i \notin rawConsumer'.next + 1 .. rawConsumer'.position
  <1>1. /\ rawConsumer \in RawEvents!ConsumerType
        /\ rawHandled \subseteq Nat
        /\ rawConsumer.mode = "batch" =>
              \A i \in rawHandled : i \notin rawConsumer.next + 1 .. rawConsumer.position
    BY DEF TypeInv, RawLoopInv, HandledInv
  <1>. USE DEF RawEvents!ConsumerType
  <1>2. CASE RawEvents!Start \/ RawEvents!Commit \/ RawEvents!Raise \/ RawEvents!Crash
                \/ RawEvents!Rejoin
    <2>1. rawConsumer'.mode # "batch"
      BY <1>1, <1>2 DEF RawEvents!Start, RawEvents!Commit, RawEvents!Raise, RawEvents!Crash,
         RawEvents!Rejoin
    <2>. QED  BY <2>1
  <1>3. CASE RawEvents!Poll
    <2>1. PICK n \in 1..MaxPoll :
             /\ rawConsumer' = [rawConsumer EXCEPT !.mode = "batch",
                                   !.next = rawConsumer.position,
                                   !.position = rawConsumer.position + n]
             /\ rawHandled' = rawHandled \ (rawConsumer.position + 1 .. rawConsumer.position + n)
      BY <1>3 DEF RawEvents!Poll
    <2>2. /\ rawConsumer'.next = rawConsumer.position
          /\ rawConsumer'.position = rawConsumer.position + n
      BY <1>1, <2>1
    <2>. QED  BY <2>1, <2>2
  <1>4. CASE RawEvents!Finish
    <2>1. /\ rawConsumer'.next = rawConsumer.next + 1
          /\ rawConsumer'.position = rawConsumer.position
          /\ rawHandled' = rawHandled \cup {rawConsumer.next + 1}
          /\ rawConsumer.mode = "batch"
          /\ rawConsumer.next \in Nat /\ rawConsumer.position \in Nat
      BY <1>1, <1>4 DEF RawEvents!Finish, RawEvents!HasRecord
    <2>. QED  BY <1>1, <2>1
  <1>5. CASE UNCHANGED <<rawConsumer, rawHandled>>
    BY <1>1, <1>5
  <1>. QED
    BY <1>2, <1>3, <1>4, <1>5, NextRawLoop DEF RawLoopStep, RawEvents!Produce

(* Every retry comes from a command, or from a failure. *)
LEMMA RetriesAnswer ==
    ASSUME TypeInv, HandledInv, [Next]_vars, NEW i \in DOMAIN sendRetry'
    PROVE  Answered(EventOf(sendRetry[i].command))'
  <1>1. /\ sendRetry \in Seq(RetryRecord) /\ sendRetry' \in Seq(RetryRecord)
        /\ Grows(sendRetry, sendRetry')
    BY NextRetryLoop, RetryLoopKeeps DEF TypeInv, RetryLoopInv
  <1>2. CASE i \in DOMAIN sendRetry
    <2>1. /\ sendRetry'[i] = sendRetry[i]
          /\ EventOf(sendRetry[i].command) \in Events
          /\ Answered(EventOf(sendRetry[i].command))
      <3>1. sendRetry'[i] = sendRetry[i] /\ sendRetry[i] \in RetryRecord
        BY <1>1, <1>2 DEF Grows
      <3>2. Answered(EventOf(sendRetry[i].command))
        BY <1>2 DEF HandledInv
      <3>. QED  BY <3>1, <3>2, RetryTyped
    <2>. QED  BY <2>1, AnswersStay DEF Answered
  <1>3. CASE i \notin DOMAIN sendRetry
    <2>1. PipelineRetries
      <3>1. sendRetry' # sendRetry
        BY <1>3
      <3>2. CASE Processes \/ WorkerMoves \/ RetrierMoves \/ WebMoves
        BY <3>1, <3>2, ProcessesIsLocal, WorkerIsLocal, RetrierIsLocal, WebIsLocal
        DEF loops, topics
      <3>. QED
        BY <3>1, <3>2, NextIsSomeones DEF OutsideMoves, WebhookPublishes, vars, topics
    <2>2. ASSUME NEW m, RetryScheduled(m)
          PROVE  sendRetry'[i].command = m.command /\ UNCHANGED <<replyCommands, sendFailed>>
      <3>. DEFINE r == [command |-> m.command, retry_count |-> m.retry_count + 1,
                        max_retries |-> m.max_retries]
      <3>1. sendRetry' = Append(sendRetry, r) /\ r.command = m.command
        BY <2>2 DEF RetryScheduled, SendRetries!Produce
      <3>. HIDE DEF r
      <3>2. sendRetry'[i] = r
        BY <1>1, <1>3, <3>1
      <3>. QED  BY <2>2, <3>1, <3>2 DEF RetryScheduled, collections
    <2>3. CASE \E j \in DOMAIN replyCommands : RetryScheduled(replyCommands[j])
      <3>1. PICK j \in DOMAIN replyCommands : RetryScheduled(replyCommands[j])
        BY <2>3
      <3>2. j \in About(replyCommands', EventOf(sendRetry'[i].command))
        BY <2>2, <3>1 DEF About
      <3>. QED  BY <3>2 DEF Answered
    <2>4. CASE \E j \in DOMAIN sendFailed : RetryScheduled(sendFailed[j])
      <3>1. PICK j \in DOMAIN sendFailed : RetryScheduled(sendFailed[j])
        BY <2>4
      <3>2. j \in About(sendFailed', EventOf(sendRetry'[i].command))
        BY <2>2, <3>1 DEF About
      <3>. QED  BY <3>2 DEF Answered
    <2>. QED  BY <2>1, <2>3, <2>4 DEF PipelineRetries
  <1>. QED  BY <1>2, <1>3

(* Behind a published failure, there is one to be found. *)
LEMMA FailureIsOut ==
    ASSUME TypeInv, OwnInv, HandledInv, [Next]_vars, stage'[worker] = "finish"
    PROVE  About(sendFailed', rawEvent') # {}
  <1>1. /\ stage \in [{worker, retrier} -> {"idle", "process", "publish_failed", "finish"}]
        /\ sendFailed \in Seq(FailureReport)
        /\ stage[worker] # "idle" => calls[worker].event = rawEvent /\ rawEvent \in Events
        /\ stage[worker] = "finish" => About(sendFailed, rawEvent) # {}
    BY CurrentRecords DEF TypeInv, ServiceTypes, InBatch, OwnInv, AtOwnRecord, HandledInv
  <1>2. ASSUME stage'[worker] = stage[worker], UNCHANGED rawConsumer
        PROVE  About(sendFailed', rawEvent') # {}
    BY <1>1, <1>2, RecordsStay, AnswersStay
  <1>3. CASE WorkerMoves
    <2>1. CASE WorkerPublishesFailure
      <3>. DEFINE r == FailureOf(worker, Attempts - 1, MaxRetries)
      <3>1. /\ sendFailed' = Append(sendFailed, r)
            /\ UNCHANGED rawConsumer /\ stage[worker] # "idle"
        BY <2>1 DEF WorkerPublishesFailure, rawLoop
      <3>2. EventOf(r.command) = rawEvent
        <4>1. \/ r.command = CommandId(calls[worker].event, "process_event", "object")
              \/ \E x : r.command = CommandId(calls[worker].event, x, "target")
          BY DEF FailureOf
        <4>. QED  BY <1>1, <3>1, <4>1 DEF CommandId, EventOf
      <3>. HIDE DEF r
      <3>3. Len(sendFailed) + 1 \in DOMAIN sendFailed' /\ sendFailed'[Len(sendFailed) + 1] = r
        BY <1>1, <3>1
      <3>4. Len(sendFailed) + 1 \in About(sendFailed', rawEvent)
        BY <3>2, <3>3 DEF About
      <3>. QED  BY <3>1, <3>4, RecordsStay
    <2>2. CASE WorkerLoop \/ WorkerRejoins
      <3>1. stage'[worker] = "idle"
        BY <2>2 DEF WorkerLoop, WorkerRejoins, RawEvents!Rejoin, TypeInv, InBatch,
           RawEvents!HasRecord
      <3>. QED  BY <3>1
    <2>3. CASE WorkerBegins \/ WorkerSucceeds \/ WorkerRetries \/ WorkerGivesUp
                  \/ WorkerFinishes \/ WorkerRaises \/ WorkerCrashes
      <3>1. stage'[worker] \in {"idle", "process", "publish_failed"}
        BY <1>1, <2>3 DEF WorkerBegins, WorkerSucceeds, WorkerRetries, WorkerGivesUp,
           WorkerFinishes, WorkerRaises, WorkerCrashes, Stage
      <3>. QED  BY <3>1
    <2>. QED  BY <1>3, <2>1, <2>2, <2>3 DEF WorkerMoves
  <1>4. CASE Processes \/ RetrierMoves \/ WebMoves \/ OutsideMoves
    <2>1. stage'[worker] = stage[worker] /\ UNCHANGED rawConsumer
      BY <1>4, ProcessesIsLocal, RetrierIsLocal, WebIsLocal, OutsideIsLocal DEF loops, rawLoop
    <2>. QED  BY <1>2, <2>1
  <1>. QED  BY <1>3, <1>4, NextIsSomeones

(* As long as no operator interferes, no call but the workers' runs, *)
LEMMA NoOperator ==
    ASSUME TypeInv, HandledInv, [Next]_vars, manual' = 0
    PROVE  manual = 0 /\ At(web, "idle")'
  <1>1. manual \in Nat /\ (manual' = manual \/ (manual' = manual + 1 /\ WebMoves))
    <2>1. manual \in Nat
      BY CoreAssumption DEF TypeInv, ServiceTypes
    <2>2. CASE WebMoves
      BY <2>1, <2>2 DEF WebMoves, WebAnswers, WebCrashes, WebRetries
    <2>3. CASE Processes
      BY <2>3, ProcessesIsLocal DEF loops
    <2>4. CASE WorkerMoves \/ RetrierMoves \/ OutsideMoves
      BY <2>4, WorkerIsLocal, RetrierIsLocal, OutsideIsLocal
    <2>. QED  BY <2>1, <2>2, <2>3, <2>4, NextIsSomeones
  <1>2. manual = 0 /\ At(web, "idle")
    BY <1>1 DEF HandledInv
  <1>3. CASE Processes
    <2>1. PICK a \in Callers : Step(a) \/ DecisionFailure(a) \/ PublishFailure(a) \/ CallRaises(a)
      BY <1>3 DEF Processes
    <2>2. ProcessStep(a) \/ DecideFails(a) \/ PublishFails(a) \/ ProcessRaises(a)
      BY <2>1 DEF Step, DecisionFailure, PublishFailure, CallRaises
    <2>3. calls'[web] = calls[web]
      BY <1>2, <2>2, ProcessIsCalled, ProcessChanges, CallersDiffer DEF TypeInv
    <2>. QED  BY <1>2, <2>3 DEF At
  <1>4. CASE WorkerMoves \/ RetrierMoves \/ OutsideMoves
    BY <1>2, <1>4, WorkerIsLocal, RetrierIsLocal, OutsideIsLocal, CallersDiffer DEF At
  <1>5. CASE WebMoves
    <2>1. WebAnswers \/ WebCrashes
      BY <1>1, <1>2, <1>5 DEF WebMoves, WebRetries
    <2>. QED
      BY <2>1, IdleTyped, CallersDiffer DEF WebAnswers, WebCrashes, Hangup, At, TypeInv,
         CollectionTypes
  <1>. QED  BY <1>2, <1>3, <1>4, <1>5, NextIsSomeones

(* and the worker's ends well only when its event is done with. *)
LEMMA WorkerEndsWell ==
    ASSUME TypeInv, OwnInv, HandledInv, [Next]_vars, manual = 0, Succeeded(worker)'
    PROVE  DoneWith(calls[worker].event)'
  <1>1. PICK e \in Events : e = calls[worker].event
    BY CallersDiffer DEF TypeInv, CollectionTypes, CallType
  <1>2. CASE calls'[worker] = calls[worker]
    <2>1. Succeeded(worker) /\ DoneWith(e)
      BY <1>1, <1>2 DEF Succeeded, At, HandledInv
    <2>2. DoneWith(e)'
      BY <2>1, DoneWithStays
    <2>. QED  BY <1>1, <1>2, <2>2 DEF DoneWith, Outcome
  <1>3. CASE Processes
    <2>1. PICK a \in Callers : Step(a) \/ DecisionFailure(a) \/ PublishFailure(a) \/ CallRaises(a)
      BY <1>3 DEF Processes
    <2>2. ProcessStep(a) \/ DecideFails(a) \/ PublishFails(a) \/ ProcessRaises(a)
      BY <2>1 DEF Step, DecisionFailure, PublishFailure, CallRaises
    <2>3. CASE a # worker
      BY <1>2, <2>2, <2>3, ProcessChanges, CallersDiffer DEF TypeInv
    <2>4. CASE a = worker
      <3>1. calls'[worker].event = e
        BY <1>1, <2>2, <2>4, ProcessChanges DEF TypeInv
      <3>2. docs'[e].status \in TERMINAL_STATUSES \cup {"received"}
        BY <1>1, <2>2, <2>4, EndsWell DEF TypeInv
      <3>. QED  BY <3>1, <3>2 DEF DoneWith, Outcome
    <2>. QED  BY <2>3, <2>4
  <1>4. CASE ~Processes
    BY <1>2, <1>4, CallerSteps, CallersDiffer DEF Succeeded, At
  <1>. QED  BY <1>3, <1>4

(* A record is handled only when its event is done with. *)
LEMMA HandledIsDone ==
    ASSUME TypeInv, OwnInv, HandledInv, [Next]_vars, manual = 0, NEW i \in rawHandled'
    PROVE  DoneWith(rawEvents[i])'
  <1>1. /\ rawEvents \in Seq(Events) /\ rawHandled \subseteq 1..Len(rawEvents)
        /\ Grows(rawEvents, rawEvents')
    BY NextRawLoop, RawLoopKeeps DEF TypeInv, RawLoopInv
  <1>2. CASE i \in rawHandled
    <2>1. PICK e \in Events : e = rawEvents[i]
      BY <1>1, <1>2
    <2>2. rawEvents'[i] = e
      BY <1>1, <1>2, <2>1 DEF Grows
    <2>3. calls[worker].event = e => At(worker, "idle")
      <3>. SUFFICES ASSUME calls[worker].event = e, ~At(worker, "idle") PROVE FALSE
        OBVIOUS
      <3>1. stage[worker] # "idle" /\ rawEvents[i] = rawEvent
        BY <2>1 DEF OwnInv, AtOwnRecord
      <3>2. i = rawConsumer.next + 1 /\ RawEvents!HasRecord
        BY <1>2, <3>1, OneOffsetEach DEF TypeInv, InBatch
      <3>. QED
        BY <1>2, <3>2 DEF HandledInv, RawEvents!HasRecord, TypeInv, RawLoopInv,
           RawEvents!ConsumerType
    <2>4. DoneWith(e)
      BY <1>2, <2>1 DEF HandledInv
    <2>5. DoneWith(e)'
      BY <2>3, <2>4, DoneWithStays
    <2>. QED  BY <2>2, <2>5 DEF DoneWith, Outcome
  <1>3. CASE i \notin rawHandled
    <2>1. (WorkerSucceeds \/ WorkerFinishes) /\ i = rawConsumer.next + 1
      BY <1>3, NewlyHandled
    <2>2. UNCHANGED <<collections, sendFailed, rawEvents>> /\ RawEvents!HasRecord
      BY <2>1 DEF WorkerSucceeds, WorkerFinishes, RawEvents!Finish
    <2>3. /\ stage[worker] # "idle"
          /\ rawEvents[i] = rawEvent
          /\ calls[worker].event = rawEvent
      BY <2>1, <2>2, CurrentRecords
      DEF TypeInv, WorkerSucceeds, WorkerFinishes, OwnInv, AtOwnRecord
    <2>4. DoneWith(rawEvents[i])
      <3>1. CASE WorkerSucceeds
        BY <2>3, <3>1 DEF WorkerSucceeds, HandledInv
      <3>2. CASE WorkerFinishes
        BY <2>3, <3>2 DEF WorkerFinishes, HandledInv, DoneWith, Outcome
      <3>. QED  BY <2>1, <3>1, <3>2
    <2>. QED  BY <2>2, <2>4 DEF DoneWith, Outcome, collections
  <1>. QED  BY <1>2, <1>3

(* All of this holds at the beginning, and every step keeps it. *)
LEMMA HandledInvInductive ==
    (Init => HandledInv) /\ (TypeInv /\ OwnInv /\ HandledInv /\ [Next]_vars => HandledInv')
  <1>1. ASSUME Init PROVE HandledInv
    BY <1>1, IdleTyped, CallersDiffer
    DEF Init, ProcessorInit, HandledInv, RawEvents!InitialConsumer, At, Succeeded
  <1>2. ASSUME TypeInv, OwnInv, HandledInv, [Next]_vars PROVE HandledInv'
    <2>1. rawConsumer'.mode = "batch" =>
             \A i \in rawHandled' : i \notin rawConsumer'.next + 1 .. rawConsumer'.position
      BY <1>2, BatchNotHandled
    <2>2. \A i \in DOMAIN sendRetry' : Answered(EventOf(sendRetry[i].command))'
      BY <1>2, RetriesAnswer
    <2>3. stage'[worker] = "finish" => About(sendFailed', rawEvent') # {}
      BY <1>2, FailureIsOut
    <2>4. ASSUME manual' = 0
          PROVE  /\ At(web, "idle")'
                 /\ Succeeded(worker)' => DoneWith(calls[worker].event)'
                 /\ \A i \in rawHandled' : DoneWith(rawEvents[i])'
      BY <1>2, <2>4, NoOperator, WorkerEndsWell, HandledIsDone
    <2>. QED  BY <2>1, <2>2, <2>3, <2>4 DEF HandledInv
  <1>. QED  BY <1>1, <1>2

(* Whatever is redelivered, retried, or cut short: an event whose last delivery
   the worker has worked off, and that no operator has touched, has an outcome,
   or is left "received". *)
THEOREM HandledEventsHaveOutcomes == Spec => []HandledHasOutcome
  <1>1. HandledInv => HandledHasOutcome
    BY DEF HandledInv, HandledHasOutcome, DoneWith
  <1>. QED  BY <1>1, TypeInvInductive, OwnInvInductive, HandledInvInductive, PTL DEF Spec
-----------------------------------------------------------------------------
(* An event that is under way is in a call *)

\* The steps that lose no call: nothing crashes, raises or rejoins.
CalmNext ==
    \/ Worker \/ Retrier \/ Web
    \/ \E a \in Callers : DecisionFailure(a) \/ PublishFailure(a)
    \/ \E e \in Events : WebhookPublishes(e) \/ WebRetries(e)

UnderWay == {"received", "retrying"}

\* The operations from which process() always comes to write the status.
Writing ==
    {"mark_retrying", "reread", "decide", "save_failure", "find_success", "find_log",
     "update_log", "log_skipped", "log_escalated", "publish", "log_queued", "log_failed",
     "review", "save"}

\* The call will write the status of e: insert_log does when it does not meet
\* a log, and the worker writes it when its attempt raised, or as a fast retry.
Owes(a, e) ==
    /\ calls[a].event = e
    /\ \/ calls[a].pc \in Writing
       \/ At(a, "insert_log") /\ logs[Key(a)] = "absent"
       \/ /\ a = worker /\ stage[worker] = "process"
          /\ \/ At(a, "insert_log") \/ At(a, "raised")
             \/ At(a, "find") /\ calls[a].force

\* A worker that publishes a failure has its call behind it.
CallEnded ==
    /\ stage[worker] \in {"publish_failed", "finish"} => calls[worker].pc \in {"done", "raised"}
    /\ stage[retrier] \notin {"idle", "process"} => At(retrier, "done")

OwedInv ==
    /\ \A e \in Events : docs[e].status \in UnderWay => \E a \in Callers : Owes(a, e)
    /\ CallEnded

(* A call that does not change still owes what it owed, when its log stays. *)
LEMMA OwesStays ==
    ASSUME NEW b \in Callers, NEW e, Owes(b, e), calls'[b] = calls[b],
           logs'[Key(b)] = logs[Key(b)] \/ ~At(b, "insert_log"),
           stage'[worker] = stage[worker] \/ b # worker
    PROVE  Owes(b, e)'
  BY DEF Owes, At, Key

(* What a step of process() owes, it owes until it has written a status. *)
LEMMA ProcessOwes ==
    ASSUME CollectionTypes, NEW a \in Callers, NEW e \in Events,
           ProcessStep(a) \/ DecideFails(a) \/ PublishFails(a),
           UNCHANGED stage, docs'[e].status \in UnderWay,
           Owes(a, e) \/ docs'[e] # docs[e]
    PROVE  Owes(a, e)'
  <1>1. /\ calls \in [Callers -> CallType]
        /\ docs \in [Events -> DocType]
        /\ calls[a].event \in Events
        /\ At(a, "save") => calls[a].final_status \in SavedStatuses
    BY DEF CollectionTypes, CallType
  <1>2. calls'[a].event = calls[a].event /\ (~At(a, "decide") => Key(a)' = Key(a))
    BY ProcessChanges
  <1>goto. calls[a] \in CallType /\ \A pc : Goto(a, pc) => calls'[a].pc = pc
    <2>1. calls[a] \in CallType
      BY <1>1
    <2>2. ASSUME NEW pc, Goto(a, pc) PROVE calls'[a].pc = pc
      BY <1>1, <2>1, <2>2 DEF Goto, CallType
    <2>. QED  BY <2>1, <2>2
  <1>3. docs'[e] # docs[e] => MarkRetrying(a) \/ Create(a) \/ SaveFailure(a) \/ Save(a)
    BY DEF ProcessStep, FindNew, FindDuplicate, FindRetry, Reread,
       CreateDuplicateKey, Decide, FindSuccess, FindLog, LogPending,
       LogDuplicateKey, LogSkipped, LogEscalated, LogQueued, LogFailed, LogOutcome,
       Publish, CreateReview, DecideFails, PublishFails, collections
  <1>4. CASE MarkRetrying(a) \/ Create(a)
    <2>1. calls'[a].pc \in {"reread", "decide"}
      BY <1>goto, <1>4 DEF MarkRetrying, Create
    <2>2. calls[a].event = e
      BY <1>1, <1>4 DEF MarkRetrying, Create, Owes
    <2>. QED  BY <1>2, <2>1, <2>2 DEF Owes, Writing
  <1>5. CASE SaveFailure(a) \/ Save(a)
    <2>1. calls[a].event = e
      BY <1>1, <1>5 DEF SaveFailure, Save, Owes
    <2>2. docs'[e].status \in SavedStatuses
      <3>1. docs[e] \in DocType
        BY <1>1
      <3>2. CASE SaveFailure(a)
        BY <1>1, <2>1, <3>1, <3>2 DEF SaveFailure, SavedStatuses, DocType
      <3>3. CASE Save(a)
        BY <1>1, <2>1, <3>1, <3>3 DEF Save, DocType
      <3>. QED  BY <1>5, <3>2, <3>3
    <2>. QED  BY <2>2 DEF SavedStatuses, UnderWay
  <1>6. ASSUME Owes(a, e), docs'[e] = docs[e],
               ~(MarkRetrying(a) \/ Create(a) \/ SaveFailure(a) \/ Save(a))
        PROVE  Owes(a, e)'
    <2>1. calls[a].event = e /\ docs[e].status \in UnderWay
      BY <1>6 DEF Owes
    <2>2. ASSUME calls'[a].pc \in Writing PROVE Owes(a, e)'
      BY <1>2, <2>1, <2>2 DEF Owes
    <2>3. CASE FindNew(a) \/ FindDuplicate(a) \/ FindRetry(a)
      <3>1. At(a, "find") /\ calls[a].force /\ docs[e].status = docs[calls[a].event].status
        BY <1>6, <2>1, <2>3 DEF FindNew, FindDuplicate, FindRetry, Owes, At, Writing
      <3>2. FindRetry(a)
        BY <2>1, <2>3, <3>1 DEF FindNew, FindDuplicate, Doc, Skips, UnderWay
      <3>3. calls'[a].pc = "mark_retrying"
        BY <1>goto, <1>1, <3>2 DEF FindRetry, CallType
      <3>. QED  BY <2>2, <3>3 DEF Writing
    <2>4. CASE Reread(a) \/ DecideFails(a) \/ CreateReview(a) \/ Publish(a) \/ PublishFails(a)
      <3>1. CASE DecideFails(a) \/ Publish(a) \/ PublishFails(a)
        BY <1>goto, <2>2, <3>1 DEF DecideFails, Publish, PublishFails, Writing
      <3>2. CASE Reread(a)
        <4>1. calls'[a].pc = "decide"
          BY <1>goto, <1>1, <3>2 DEF Reread, CallType
        <4>. QED  BY <2>2, <4>1 DEF Writing
      <3>3. CASE CreateReview(a)
        <4>1. calls'[a].pc = "save"
          BY <1>goto, <1>1, <3>3 DEF CreateReview, CallType
        <4>. QED  BY <2>2, <4>1 DEF Writing
      <3>. QED  BY <2>4, <3>1, <3>2, <3>3
    <2>5. CASE CreateDuplicateKey(a)
      BY <1>6, <2>5 DEF CreateDuplicateKey, Owes, At, Writing
    <2>6. CASE Decide(a)
      <3>1. PICK d \in Decisions, pc \in {"find_success", "save"}, fs \in {"ignored", "processed"} :
               calls' = [calls EXCEPT ![a].decision = d, ![a].pc = pc, ![a].final_status = fs]
        BY <2>6, DecideChooses
      <3>2. calls'[a].pc = pc
        BY <1>goto, <1>1, <3>1 DEF CallType
      <3>. QED  BY <2>2, <3>1, <3>2 DEF Writing
    <2>7. ASSUME NEW status, Executed(a, status) PROVE Owes(a, e)'
      BY <2>2, <2>7, ExecutedEnds DEF Writing
    <2>8. CASE FindSuccess(a)
      BY <1>goto, <2>2, <2>7, <2>8 DEF FindSuccess, Writing
    <2>9. CASE FindLog(a)
      <3>1. CASE logs[Key(a)] = "absent"
        <4>1. calls'[a].pc = "insert_log" /\ logs' = logs /\ Key(a)' = Key(a)
          BY <1>1, <1>2, <2>9, <3>1 DEF FindLog, Goto, collections, At
        <4>. QED  BY <1>2, <2>1, <3>1, <4>1 DEF Owes, At
      <3>2. CASE logs[Key(a)] # "absent"
        BY <1>1, <2>2, <2>9, <3>2 DEF FindLog, Goto, Writing
      <3>. QED  BY <3>1, <3>2
    <2>10. CASE LogPending(a)
      BY <1>goto, <2>2, <2>10 DEF LogPending, Writing
    <2>11. CASE LogDuplicateKey(a)
      <3>1. a = worker /\ stage[worker] = "process"
        BY <1>6, <2>11 DEF LogDuplicateKey, Owes, At, Writing
      <3>2. calls'[a].pc = "raised"
        BY <1>1, <2>11 DEF LogDuplicateKey, Throw, Goto
      <3>. QED  BY <1>2, <2>1, <3>1, <3>2 DEF Owes, At
    <2>12. CASE LogSkipped(a) \/ LogEscalated(a) \/ LogQueued(a) \/ LogFailed(a)
      BY <2>7, <2>12 DEF LogSkipped, LogEscalated, LogQueued, LogFailed, LogOutcome
    <2>. QED
      BY <1>6, <2>3, <2>4, <2>5, <2>6, <2>8, <2>9, <2>10, <2>11, <2>12 DEF ProcessStep
  <1>. QED  BY <1>3, <1>4, <1>5, <1>6

(* When it writes a log that another call is about to insert, it owes the
   status in that call's stead. *)
LEMMA ProcessTakesOver ==
    ASSUME CollectionTypes, NEW a \in Callers, NEW b \in Callers, b # a, NEW e \in Events,
           ProcessStep(a) \/ DecideFails(a) \/ PublishFails(a),
           UNCHANGED stage, Owes(b, e)
    PROVE  Owes(a, e)' \/ Owes(b, e)'
  <1>1. calls'[b] = calls[b] /\ calls'[a].event = calls[a].event
    BY ProcessChanges
  <1>2. CASE logs'[Key(b)] = logs[Key(b)]
    BY <1>1, <1>2, OwesStays
  <1>3. CASE logs'[Key(b)] # logs[Key(b)]
    <2>1. LogPending(a) \/ LogSkipped(a) \/ LogEscalated(a) \/ LogQueued(a) \/ LogFailed(a)
      BY <1>3 DEF ProcessStep, FindNew, FindDuplicate, FindRetry, MarkRetrying, Reread,
         Create, CreateDuplicateKey, Decide, SaveFailure, FindSuccess, FindLog,
         LogDuplicateKey, Publish, CreateReview, Save, DecideFails, PublishFails,
         collections
    <2>2. logs \in [Keys -> LogStatuses] /\ Key(a) \in Keys /\ Key(b) \in Keys
      BY KeyTyped DEF CollectionTypes
    <2>3. Key(a) = Key(b)
      BY <1>3, <2>1, <2>2 DEF LogPending, LogSkipped, LogEscalated, LogQueued, LogFailed,
         LogOutcome
    <2>4. calls[a].event = e
      BY <2>3, KeyTyped DEF Owes
    <2>5. calls'[a].pc \in Writing
      <3>1. CASE LogPending(a)
        BY <3>1 DEF LogPending, Goto, Writing, CollectionTypes, CallType
      <3>2. ASSUME NEW status, Executed(a, status) PROVE calls'[a].pc \in Writing
        BY <3>2, ExecutedEnds DEF Writing
      <3>. QED
        BY <2>1, <3>1, <3>2 DEF LogSkipped, LogEscalated, LogQueued, LogFailed, LogOutcome
    <2>. QED  BY <1>1, <2>4, <2>5 DEF Owes
  <1>. QED  BY <1>2, <1>3

(* So a step of process() leaves nobody's status under way without a call. *)
LEMMA ProcessKeepsOwed ==
    ASSUME TypeInv, OwedInv, NEW a \in Callers,
           Step(a) \/ DecisionFailure(a) \/ PublishFailure(a)
    PROVE  OwedInv'
  <1>1. ProcessStep(a) \/ DecideFails(a) \/ PublishFails(a)
    BY DEF Step, DecisionFailure, PublishFailure
  <1>2. UNCHANGED stage
    BY DEF Step, DecisionFailure, PublishFailure, loops
  <1>3. CollectionTypes
    BY DEF TypeInv
  <1>4. ASSUME NEW e \in Events, docs'[e].status \in UnderWay
        PROVE  \E b \in Callers : Owes(b, e)'
    <2>1. CASE docs'[e] # docs[e]
      BY <1>1, <1>2, <1>3, <1>4, <2>1, ProcessOwes
    <2>2. CASE docs'[e] = docs[e]
      <3>1. PICK b \in Callers : Owes(b, e)
        BY <1>4, <2>2 DEF OwedInv
      <3>2. CASE b = a
        BY <1>1, <1>2, <1>3, <1>4, <3>1, <3>2, ProcessOwes
      <3>3. CASE b # a
        BY <1>1, <1>2, <1>3, <3>1, <3>3, ProcessTakesOver
      <3>. QED  BY <3>2, <3>3
    <2>. QED  BY <2>1, <2>2
  <1>5. CallEnded'
    <2>1. \A b \in Callers : b # a => calls'[b] = calls[b]
      BY <1>1, <1>3, ProcessChanges
    <2>2. calls[a].pc \notin {"done", "raised"}
      BY <1>1 DEF ProcessStep, FindNew, FindDuplicate, FindRetry, MarkRetrying, Reread, Create,
         CreateDuplicateKey, Decide, SaveFailure, FindSuccess, FindLog, LogPending,
         LogDuplicateKey, LogSkipped, LogEscalated, LogQueued, LogFailed, LogOutcome,
         Publish, CreateReview, Save, DecideFails, PublishFails, At
    <2>. QED  BY <1>2, <2>1, <2>2, CallersDiffer DEF OwedInv, CallEnded, At
  <1>. QED  BY <1>4, <1>5 DEF OwedInv

(* A caller that owes nothing may hang up, or call again, when no document and
   no log changes. *)
LEMMA OthersOwe ==
    ASSUME TypeInv, OwedInv, NEW a \in Callers,
           UNCHANGED <<docs, logs>>, \A b \in Callers : b # a => calls'[b] = calls[b],
           stage'[worker] = stage[worker] \/ a = worker,
           \A e \in Events : docs[e].status \in UnderWay /\ Owes(a, e) => Owes(a, e)'
    PROVE  \A e \in Events : docs'[e].status \in UnderWay => \E b \in Callers : Owes(b, e)'
  <1>. SUFFICES ASSUME NEW e \in Events, docs'[e].status \in UnderWay
                PROVE  \E b \in Callers : Owes(b, e)'
    OBVIOUS
  <1>1. PICK b \in Callers : Owes(b, e)
    BY DEF OwedInv
  <1>2. CASE b = a
    BY <1>1, <1>2
  <1>3. CASE b # a
    BY <1>1, <1>3, OwesStays
  <1>. QED  BY <1>2, <1>3

(* A call that has come to its end owes nothing, once its caller has seen it. *)
LEMMA EndedOwesNothing ==
    ASSUME NEW a \in Callers, NEW e,
           \/ At(a, "idle") \/ At(a, "done")
           \/ At(a, "raised") /\ (a # worker \/ stage[worker] # "process")
    PROVE  ~Owes(a, e)
  BY DEF Owes, At, Writing

\* The moves of the callers among these steps.
CalmWorkerMoves ==
    \/ WorkerBegins \/ WorkerSucceeds \/ WorkerRetries \/ WorkerGivesUp
    \/ WorkerPublishesFailure \/ WorkerFinishes \/ WorkerLoop

CalmRetrierMoves ==
    \/ RetrierBegins \/ RetrierSucceeds \/ RetrierPublishesFailure
    \/ RetrierFinishes \/ RetrierLoop \/ RetrierAbandons

(* The worker's fast retry goes on to write the status, and giving up writes it. *)
LEMMA WorkerKeepsOwed ==
    ASSUME TypeInv, OwnInv, OwedInv, CalmWorkerMoves
    PROVE  OwedInv'
  <1>1. /\ \A b \in Callers : b # worker => calls'[b] = calls[b]
        /\ stage'[retrier] = stage[retrier]
        /\ worker \in Callers /\ worker # retrier
        /\ stage \in [{worker, retrier} -> {"idle", "process", "publish_failed", "finish"}]
        /\ calls \in [Callers -> CallType]
        /\ docs \in [Events -> DocType]
    BY WorkerIsLocal, CallersDiffer
    DEF CalmWorkerMoves, WorkerMoves, TypeInv, ServiceTypes, CollectionTypes
  <1>2. CASE WorkerBegins \/ WorkerSucceeds \/ WorkerFinishes \/ WorkerPublishesFailure
                \/ WorkerLoop
    <2>1. UNCHANGED <<docs, logs>>
      BY <1>2 DEF WorkerBegins, WorkerSucceeds, WorkerFinishes, WorkerPublishesFailure,
         WorkerLoop, collections
    <2>2. \A e \in Events : ~Owes(worker, e)
      <3>1. CASE WorkerBegins \/ WorkerLoop
        BY <1>1, <3>1, EndedOwesNothing DEF WorkerBegins, WorkerLoop, OwnInv, AtOwnRecord
      <3>2. CASE WorkerSucceeds
        BY <1>1, <3>2, EndedOwesNothing DEF WorkerSucceeds, Succeeded
      <3>3. CASE WorkerFinishes \/ WorkerPublishesFailure
        BY <1>1, <3>3, EndedOwesNothing DEF WorkerFinishes, WorkerPublishesFailure, OwedInv,
           CallEnded, At
      <3>. QED  BY <1>2, <3>1, <3>2, <3>3
    <2>3. CallEnded'
      <3>1. CASE WorkerPublishesFailure
        BY <1>1, <3>1 DEF WorkerPublishesFailure, OwedInv, CallEnded, Stage, At
      <3>2. CASE WorkerBegins \/ WorkerSucceeds \/ WorkerFinishes \/ WorkerLoop
        <4>1. stage'[worker] \in {"idle", "process"}
          BY <1>1, <3>2 DEF WorkerBegins, WorkerSucceeds, WorkerFinishes, WorkerLoop, Stage
        <4>2. calls'[retrier] = calls[retrier]
          BY <1>1, CallersDiffer
        <4>. QED  BY <1>1, <4>1, <4>2 DEF OwedInv, CallEnded, At
      <3>. QED  BY <1>2, <3>1, <3>2
    <2>. QED  BY <1>1, <2>1, <2>2, <2>3, OthersOwe DEF OwedInv
  <1>3. CASE WorkerRetries \/ WorkerGivesUp
    <2>1. /\ calls[worker].event = rawEvent /\ rawEvent \in Events
          /\ UNCHANGED logs
          /\ Failed(worker) /\ stage[worker] = "process"
      <3>1. stage[worker] = "process" /\ Failed(worker) /\ UNCHANGED logs
        BY <1>3 DEF WorkerRetries, WorkerGivesUp
      <3>2. calls[worker].event = rawEvent
        BY <3>1 DEF OwnInv, AtOwnRecord
      <3>3. calls[worker].event \in Events
        BY <1>1 DEF CallType
      <3>. QED  BY <3>1, <3>2, <3>3
    <2>. PICK r \in Events : r = rawEvent
      BY <2>1
    <2>2. \A e \in Events : e # r => docs'[e] = docs[e]
      BY <1>1, <1>3 DEF WorkerRetries, WorkerGivesUp, MarkDoc
    <2>3. docs'[r].status \in UnderWay => Owes(worker, r)'
      <3>1. CASE WorkerRetries
        <4>1. calls' = [calls EXCEPT ![worker] = NoCall(r, TRUE, NotGiven)]
          BY <3>1 DEF WorkerRetries, Call
        <4>2. calls'[worker] = NoCall(r, TRUE, NotGiven)
          BY <1>1, <4>1
        <4>3. /\ calls'[worker].event = r
              /\ calls'[worker].force
              /\ calls'[worker].pc = "find"
          <5>1. NoCall(r, TRUE, NotGiven).event = r /\ NoCall(r, TRUE, NotGiven).pc = "find"
            BY DEF NoCall
          <5>2. NoCall(r, TRUE, NotGiven).force
            BY Zenon DEF NoCall
          <5>. QED  BY <4>2, <5>1, <5>2
        <4>4. stage'[worker] = "process"
          BY <2>1, <3>1 DEF WorkerRetries
        <4>. QED  BY <4>3, <4>4 DEF Owes, At
      <3>2. CASE WorkerGivesUp
        <4>1. docs'[r].status \in {"absent", "send_failed"}
          BY <1>1, <2>1, <3>2 DEF WorkerGivesUp, MarkDoc, DocType
        <4>. QED  BY <4>1 DEF UnderWay
      <3>. QED  BY <1>3, <3>1, <3>2
    <2>4. ASSUME NEW e \in Events, docs'[e].status \in UnderWay, e # r
          PROVE  \E b \in Callers : Owes(b, e)'
      <3>1. PICK b \in Callers : Owes(b, e)
        BY <2>2, <2>4 DEF OwedInv
      <3>2. b # worker
        BY <2>1, <2>4, <3>1 DEF Owes
      <3>. QED  BY <1>1, <2>1, <3>1, <3>2, OwesStays
    <2>5. CallEnded'
      <3>1. calls'[retrier] = calls[retrier]
        BY <1>1, CallersDiffer
      <3>2. CASE WorkerRetries
        BY <1>1, <2>1, <3>1, <3>2 DEF WorkerRetries, OwedInv, CallEnded, At
      <3>3. CASE WorkerGivesUp
        BY <1>1, <2>1, <3>1, <3>3 DEF WorkerGivesUp, OwedInv, CallEnded, Failed, At
      <3>. QED  BY <1>3, <3>2, <3>3
    <2>6. ASSUME NEW e \in Events, docs'[e].status \in UnderWay
          PROVE  \E b \in Callers : Owes(b, e)'
      BY <1>1, <2>3, <2>4, <2>6
    <2>. QED  BY <2>5, <2>6 DEF OwedInv
  <1>. QED  BY <1>2, <1>3 DEF CalmWorkerMoves

(* The other callers write nothing of their own. *)
LEMMA OthersKeepOwed ==
    ASSUME TypeInv, OwnInv, OwedInv,
           CalmRetrierMoves \/ WebAnswers \/ \E e \in Events : WebRetries(e)
    PROVE  OwedInv'
  <1>1. /\ retrier \in Callers /\ web \in Callers
        /\ worker # retrier /\ worker # web /\ retrier # web
        /\ stage \in [{worker, retrier} -> {"idle", "process", "publish_failed", "finish"}]
        /\ calls \in [Callers -> CallType]
    BY CallersDiffer DEF TypeInv, ServiceTypes, CollectionTypes
  <1>2. UNCHANGED <<docs, logs>>
    BY DEF CalmRetrierMoves, RetrierBegins, RetrierSucceeds, RetrierPublishesFailure,
       RetrierFinishes, RetrierLoop, RetrierAbandons, WebAnswers, WebRetries, collections
  <1>3. CASE CalmRetrierMoves
    <2>1. /\ \A b \in Callers : b # retrier => calls'[b] = calls[b]
          /\ stage'[worker] = stage[worker]
      BY <1>3, RetrierIsLocal DEF CalmRetrierMoves, RetrierMoves
    <2>2. \A e \in Events : ~Owes(retrier, e)
      <3>1. CASE RetrierBegins \/ RetrierLoop
        BY <1>1, <3>1, EndedOwesNothing DEF RetrierBegins, RetrierLoop, OwnInv, AtOwnRecord
      <3>2. CASE RetrierSucceeds \/ RetrierPublishesFailure \/ RetrierAbandons
        BY <1>1, <3>2, EndedOwesNothing DEF RetrierSucceeds, RetrierPublishesFailure,
           RetrierAbandons, Succeeded
      <3>3. CASE RetrierFinishes
        BY <1>1, <3>3, EndedOwesNothing DEF RetrierFinishes, OwedInv, CallEnded
      <3>. QED  BY <1>3, <3>1, <3>2, <3>3 DEF CalmRetrierMoves
    <2>3. calls'[worker] = calls[worker]
      BY <1>1, <2>1, CallersDiffer
    <2>4. stage'[retrier] \notin {"idle", "process"} => At(retrier, "done")'
      <3>1. CASE RetrierPublishesFailure
        BY <3>1 DEF RetrierPublishesFailure, At
      <3>2. CASE RetrierLoop
        BY <3>2 DEF RetrierLoop, OwedInv, CallEnded, At
      <3>3. CASE RetrierBegins \/ RetrierSucceeds \/ RetrierFinishes \/ RetrierAbandons
        BY <1>1, <3>3 DEF RetrierBegins, RetrierSucceeds, RetrierFinishes, RetrierAbandons,
           Stage
      <3>. QED  BY <1>3, <3>1, <3>2, <3>3 DEF CalmRetrierMoves
    <2>. QED  BY <1>1, <1>2, <2>1, <2>2, <2>3, <2>4, OthersOwe DEF OwedInv, CallEnded
  <1>4. CASE WebAnswers \/ \E e \in Events : WebRetries(e)
    <2>1. UNCHANGED stage /\ \A b \in Callers : b # web => calls'[b] = calls[b]
      BY <1>4, WebIsLocal DEF WebMoves
    <2>2. \A e \in Events : ~Owes(web, e)
      BY <1>1, <1>4, EndedOwesNothing DEF WebAnswers, WebRetries
    <2>3. calls'[worker] = calls[worker] /\ calls'[retrier] = calls[retrier]
      BY <1>1, <2>1, CallersDiffer
    <2>. QED  BY <1>1, <1>2, <2>1, <2>2, <2>3, OthersOwe DEF OwedInv, CallEnded, At
  <1>. QED  BY <1>3, <1>4

(* As long as no call is lost, none leaves its event under way. *)
LEMMA OwedInvKept ==
    (Init => OwedInv) /\ (TypeInv /\ OwnInv /\ OwedInv /\ CalmNext => OwedInv')
  <1>1. ASSUME Init PROVE OwedInv
    <2>1. \A e \in Events : docs[e].status = "absent"
      BY <1>1 DEF Init, ProcessorInit, NoDoc
    <2>2. stage[worker] = "idle" /\ stage[retrier] = "idle"
      BY <1>1 DEF Init
    <2>. QED  BY <2>1, <2>2 DEF OwedInv, CallEnded, UnderWay
  <1>2. ASSUME TypeInv, OwnInv, OwedInv, CalmNext PROVE OwedInv'
    <2>1. ASSUME NEW a \in Callers, Step(a) \/ DecisionFailure(a) \/ PublishFailure(a)
          PROVE  OwedInv'
      BY <1>2, <2>1, ProcessKeepsOwed
    <2>2. CASE CalmWorkerMoves
      BY <1>2, <2>2, WorkerKeepsOwed
    <2>3. CASE CalmRetrierMoves \/ WebAnswers \/ \E e \in Events : WebRetries(e)
      BY <1>2, <2>3, OthersKeepOwed
    <2>4. CASE \E e \in Events : WebhookPublishes(e)
      <3>1. UNCHANGED <<docs, logs, calls, stage>>
        BY <2>4 DEF WebhookPublishes, collections
      <3>. QED  BY <1>2, <3>1 DEF OwedInv, CallEnded, Owes, At, Key
    <2>. QED
      BY <1>2, <2>1, <2>2, <2>3, <2>4, CallersDiffer
      DEF CalmNext, Worker, Retrier, Web, CalmWorkerMoves, CalmRetrierMoves
  <1>. QED  BY <1>1, <1>2

(* A call that owes a status keeps its caller at the event. *)
LEMMA WhoOwesIsBusy ==
    ASSUME TypeInv, OwnInv, NEW e \in Events, NEW a \in Callers, Owes(a, e)
    PROVE  \/ /\ a = worker /\ RawEvents!HasRecord
              /\ rawConsumer.next + 1 \in DOMAIN rawEvents
              /\ rawEvents[rawConsumer.next + 1] = e
           \/ /\ a = retrier /\ SendRetries!HasRecord
              /\ retryConsumer.next + 1 \in About(sendRetry, e)
           \/ a = web /\ ~At(web, "idle") /\ calls[web].event = e
  <1>1. ~At(a, "idle") /\ calls[a].event = e
    BY DEF Owes, At, Writing
  <1>2. CASE a = worker
    <2>1. stage[worker] # "idle" /\ rawEvent = e /\ RawEvents!HasRecord
      BY <1>1, <1>2 DEF OwnInv, AtOwnRecord, TypeInv, InBatch
    <2>2. /\ rawConsumer.next + 1 \in 1..Len(rawEvents)
          /\ rawEvent = rawEvents[rawConsumer.next + 1]
      BY <2>1, CurrentRecords DEF TypeInv
    <2>. QED  BY <1>2, <2>1, <2>2 DEF TypeInv, RawLoopInv
  <1>3. CASE a = retrier
    <2>1. stage[retrier] # "idle" /\ EventOf(retryCommand.command) = e /\ SendRetries!HasRecord
      BY <1>1, <1>3 DEF OwnInv, AtOwnRecord, TypeInv, InBatch
    <2>2. /\ retryConsumer.next + 1 \in 1..Len(sendRetry)
          /\ retryCommand = sendRetry[retryConsumer.next + 1]
      BY <2>1, CurrentRecords DEF TypeInv
    <2>. QED  BY <1>3, <2>1, <2>2 DEF TypeInv, RetryLoopInv, About
  <1>. QED  BY <1>1, <1>2, <1>3, CallersDiffer

(* What the services around it do: they publish failures and retries, and leave
   the rest alone. *)
LEMMA AsideKeeps ==
    ASSUME TypeInv, OwnInv, OwedInv,
           UNCHANGED <<docs, logs, reviews, calls, rawEvents, stage, attempt, rawConsumer,
                       rawHandled, retryConsumer, retryHandled, manual>>,
           UNCHANGED replyCommands, faults' \in Nat,
           sendFailed' \in Seq(FailureReport),
           sendRetry' \in Seq(RetryRecord), Grows(sendRetry, sendRetry')
    PROVE  TypeInv' /\ OwnInv' /\ OwedInv'
  <1>1. CollectionTypes' /\ OwedInv'
    BY DEF TypeInv, CollectionTypes, OwedInv, CallEnded, Owes, At, Key
  <1>2. RawLoopInv' /\ ServiceTypes' /\ InBatch'
    BY DEF TypeInv, RawLoopInv, RawEvents!OffsetOrder, ServiceTypes, InBatch,
       RawEvents!HasRecord, SendRetries!HasRecord
  <1>3. RetryLoopInv'
    <2>1. RetryLoopInv /\ sendRetry \in Seq(RetryRecord) /\ retryConsumer \in SendRetries!ConsumerType
      BY DEF TypeInv, RetryLoopInv
    <2>2. /\ Len(sendRetry) \in Nat /\ Len(sendRetry') \in Nat
          /\ Len(sendRetry) <= Len(sendRetry')
          /\ retryConsumer.position \in Nat
      BY <2>1 DEF Grows, SendRetries!ConsumerType
    <2>. QED  BY <2>1, <2>2 DEF RetryLoopInv, SendRetries!OffsetOrder
  <1>4. OwnInv'
    <2>1. stage[retrier] # "idle" => retryCommand' = retryCommand
      <3>1. stage[retrier] # "idle" => retryConsumer.next + 1 \in 1..Len(sendRetry)
        BY CurrentRecords DEF TypeInv, InBatch
      <3>. QED  BY <3>1 DEF Grows, retryCommand, SendRetries!Current
    <2>2. rawEvent' = rawEvent
      BY DEF rawEvent, RawEvents!Current
    <2>. QED  BY <2>1, <2>2 DEF OwnInv, AtOwnRecord, PublishedOnce, At
  <1>. QED  BY <1>1, <1>2, <1>3, <1>4 DEF TypeInv

(* These are steps of the service. *)
LEMMA CalmIsNext == CalmNext => [Next]_vars
  BY CallersDiffer DEF CalmNext, Next

-----------------------------------------------------------------------------
(* What a retry may come of *)

\* The attempt has had its say: its command is out, or it needs none, or the
\* worker has published its failure.
Spoke(a) ==
    IF a # web /\ stage[a] \in {"publish_failed", "finish"}
    THEN stage[a] = "finish" ELSE CommandDone(calls[a])

RawPast == Front(rawConsumer) + IF Spoke(worker) THEN 1 ELSE 0

RetryPast == Front(retryConsumer) + IF Spoke(retrier) THEN 1 ELSE 0

RawOpen(e) == \A i \in 1..RawPast : rawEvents[i] # e

WebOpen(e) == ~At(web, "idle") /\ calls[web].event = e /\ ~Spoke(web)

RetryOpen(e, m) ==
    {i \in RetryDue(sendRetry, e, RetryPast) : sendRetry[i].retry_count < m}

\* The attempts at e, due or under way, that may still say something of a
\* count below m.
Chances(e, m) ==
    {c \in {<<"raw", 0>>} : RawOpen(e)} \cup {c \in {<<"web", 0>>} : WebOpen(e)}
    \cup {<<"retry", i>> : i \in RetryOpen(e, m)}

\* The commands about e in a topic, with their counts below m.
Mentions(topic, e, m) ==
    {<<topic[i].command, topic[i].retry_count>> :
        i \in {j \in About(topic, e) : topic[j].retry_count < m}}

Told(e, m) == Mentions(replyCommands, e, m) \cup Mentions(sendFailed, e, m)

\* A retry's call carries the count of the retry.
CarriesCount ==
    stage[retrier] # "idle" =>
        calls[retrier].given = <<retryCommand.retry_count, retryCommand.max_retries>>

\* What a step says of an event costs a chance, a fault or a manual retry.
Exchange(e, m) ==
    \/ /\ Chances(e, m)' \subseteq Chances(e, m)
       /\ Told(e, m)' \subseteq Told(e, m)
       /\ manual + faults <= manual' + faults'
    \/ /\ \E c \in Chances(e, m) : \E k :
             /\ Chances(e, m)' \subseteq Chances(e, m) \ {c}
             /\ Told(e, m)' \subseteq Told(e, m) \cup {k}
       /\ manual + faults <= manual' + faults'
    \/ /\ \/ /\ Chances(e, m)' \subseteq Chances(e, m) \cup {<<"web", 0>>}
             /\ Told(e, m)' \subseteq Told(e, m)
          \/ /\ Chances(e, m)' \subseteq Chances(e, m)
             /\ \E k : Told(e, m)' \subseteq Told(e, m) \cup {k}
       /\ manual + faults + 1 <= manual' + faults'

(* A record more is one mention more, at most, and of its own event. *)
LEMMA MentionAdds ==
    ASSUME NEW S, NEW x \in Seq(S), NEW r \in S, NEW e, NEW m
    PROVE  /\ Mentions(Append(x, r), e, m) \subseteq
                 Mentions(x, e, m) \cup {<<r.command, r.retry_count>>}
           /\ EventOf(r.command) # e \/ ~(r.retry_count < m) =>
                 Mentions(Append(x, r), e, m) \subseteq Mentions(x, e, m)
  <1>. DEFINE y == Append(x, r)
  <1>1. \A i \in DOMAIN y : (i \in DOMAIN x /\ y[i] = x[i]) \/ y[i] = r
    OBVIOUS
  <1>. HIDE DEF y
  <1>2. ASSUME NEW k \in Mentions(y, e, m)
        PROVE  \/ k \in Mentions(x, e, m)
               \/ /\ k = <<r.command, r.retry_count>>
                  /\ EventOf(r.command) = e /\ r.retry_count < m
    <2>1. PICK i \in About(y, e) :
              y[i].retry_count < m /\ k = <<y[i].command, y[i].retry_count>>
      BY DEF Mentions
    <2>. QED  BY <1>1, <2>1 DEF Mentions, About
  <1>. QED  BY <1>2 DEF y

(* Chances only go while the fronts advance and the operator asks for nothing. *)
LEMMA ChancesFall ==
    ASSUME TypeInv, NEW e \in Events, NEW m \in Nat,
           RawPast \in Nat, RawPast' \in Nat, RawPast <= RawPast', RawPast <= Len(rawEvents),
           RetryPast \in Nat, RetryPast' \in Nat, RetryPast <= RetryPast',
           Grows(rawEvents, rawEvents'), sendRetry' = sendRetry,
           WebOpen(e)' => WebOpen(e)
    PROVE  Chances(e, m)' \subseteq Chances(e, m)
  <1>1. RawOpen(e)' => RawOpen(e)
    <2>1. \A i \in 1..RawPast : i \in 1..Len(rawEvents) /\ i \in 1..RawPast' /\ rawEvents'[i] = rawEvents[i]
      BY DEF Grows, TypeInv, RawLoopInv
    <2>. QED  BY <2>1 DEF RawOpen
  <1>2. RetryOpen(e, m)' \subseteq RetryOpen(e, m)
    <2>1. DOMAIN sendRetry \subseteq Nat
      BY DEF TypeInv, RetryLoopInv
    <2>. QED  BY <2>1 DEF RetryOpen, RetryDue, About
  <1>. QED  BY <1>1, <1>2 DEF Chances

(* These steps take no worker back. *)
LEMMA FrontsAdvance ==
    ASSUME TypeInv, OwnInv, CalmNext
    PROVE  /\ Front(rawConsumer) \in Nat /\ Front(rawConsumer') \in Nat
           /\ Front(rawConsumer) <= Front(rawConsumer') /\ Front(rawConsumer) <= Len(rawEvents)
           /\ Front(retryConsumer) \in Nat /\ Front(retryConsumer') \in Nat
           /\ Front(retryConsumer) <= Front(retryConsumer')
  <1>1. [Next]_vars
    BY CalmIsNext
  <1>2. /\ Front(rawConsumer) \in Nat /\ Front(rawConsumer') \in Nat
        /\ Front(retryConsumer) \in Nat /\ Front(retryConsumer') \in Nat
    BY <1>1, TypeInvInductive, FrontTyped
    DEF TypeInv, RawLoopInv, RetryLoopInv, RawEvents!ConsumerType, SendRetries!ConsumerType
  <1>3. (WorkerFault \/ RetrierFault) => Processes
    <2>1. CASE \E a \in Callers : Step(a) \/ DecisionFailure(a) \/ PublishFailure(a)
      BY <2>1 DEF Processes
    <2>2. CASE UNCHANGED faults
      <3>1. faults \in Nat
        BY DEF TypeInv, ServiceTypes
      <3>. QED
        BY <2>2, <3>1 DEF WorkerFault, RetrierFault, WorkerRaises, WorkerCrashes,
           WorkerRejoins, RetrierRaises, RetrierCrashes, RetrierRejoins, Fault
    <2>3. CASE CalmWorkerMoves
      BY <2>2, <2>3 DEF CalmWorkerMoves, WorkerBegins, WorkerSucceeds, WorkerRetries,
         WorkerGivesUp, WorkerPublishesFailure, WorkerFinishes, WorkerLoop
    <2>4. CASE CalmRetrierMoves
      BY <2>2, <2>4 DEF CalmRetrierMoves, RetrierBegins, RetrierSucceeds,
         RetrierPublishesFailure, RetrierFinishes, RetrierLoop, RetrierAbandons
    <2>5. CASE WebAnswers \/ \E e \in Events : WebhookPublishes(e) \/ WebRetries(e)
      BY <2>2, <2>5 DEF WebAnswers, WebhookPublishes, WebRetries
    <2>. QED
      BY <2>1, <2>3, <2>4, <2>5, CallersDiffer
      DEF CalmNext, Worker, Retrier, Web, CalmWorkerMoves, CalmRetrierMoves
  <1>4. /\ Front(rawConsumer) + 0 <= Front(rawConsumer') + 0
        /\ Front(rawConsumer) + 0 <= Len(rawEvents)
    BY <1>1, <1>3, RawFrontAdvances, 0 \in {0, 1}
  <1>5. Front(retryConsumer) + 0 <= Front(retryConsumer') + 0
    BY <1>1, <1>3, RetryFrontAdvances, 0 \in {0, 1}
  <1>. QED  BY <1>2, <1>4, <1>5

(* A worker that has had its say is at a record of its topic. *)
LEMMA SpeakerIsAtRecord ==
    ASSUME TypeInv, OwnInv
    PROVE  /\ Spoke(worker) => Front(rawConsumer) = rawConsumer.next /\ rawConsumer.next + 1 <= Len(rawEvents)
           /\ Spoke(retrier) => Front(retryConsumer) = retryConsumer.next
  <1>1. \A a \in {worker, retrier} : Spoke(a) => stage[a] # "idle"
    BY CallersDiffer DEF Spoke, CommandDone, OwnInv, AtOwnRecord, At
  <1>. QED  BY <1>1, FrontsInTopic DEF TypeInv, InBatch

(* process() leaves each caller where it is, and takes no say back. *)
LEMMA ProcessSpeaks ==
    ASSUME TypeInv, NEW a \in Callers, Step(a) \/ DecisionFailure(a) \/ PublishFailure(a)
    PROVE  /\ UNCHANGED <<rawEvents, sendRetry, sendFailed, rawConsumer, retryConsumer, stage, manual>>
           /\ \A b \in Callers : b # a => Spoke(b)' = Spoke(b)
           /\ Spoke(a) => Spoke(a)'
           /\ WebOpen(calls[web].event)' => WebOpen(calls[web].event)
           /\ calls'[web].event = calls[web].event
           /\ faults <= faults'
  <1>1. UNCHANGED <<rawEvents, sendRetry, sendFailed, rawConsumer, retryConsumer, stage, manual>>
    BY DEF Step, DecisionFailure, PublishFailure, loops, topics, rawLoop, retryLoop
  <1>2. ProcessStep(a) \/ DecideFails(a) \/ PublishFails(a)
    BY DEF Step, DecisionFailure, PublishFailure
  <1>3. CollectionTypes
    BY DEF TypeInv
  <1>4. /\ \A b \in Callers : b # a => calls'[b] = calls[b]
        /\ calls'[a].event = calls[a].event
        /\ ~At(a, "idle")
    BY <1>2, <1>3, ProcessChanges, ProcessIsCalled
  <1>5. CommandDone(calls[a]) => CommandDone(calls'[a])
    <2>1. CASE ProcessStep(a)
      BY <1>3, <2>1, SpentStays
    <2>2. CASE DecideFails(a) \/ PublishFails(a)
      BY <2>2 DEF DecideFails, PublishFails, At, CommandDone
    <2>. QED  BY <1>2, <2>1, <2>2
  <1>6. (\A b \in Callers : b # a => Spoke(b)' = Spoke(b)) /\ (Spoke(a) => Spoke(a)')
    BY <1>1, <1>4, <1>5 DEF Spoke
  <1>7. calls'[web].event = calls[web].event
    BY <1>4, CallersDiffer
  <1>8. WebOpen(calls[web].event)' => WebOpen(calls[web].event)
    BY <1>4, <1>6, <1>7, CallersDiffer DEF WebOpen, At
  <1>9. faults <= faults'
    BY DEF Step, DecisionFailure, PublishFailure, Fault, TypeInv, ServiceTypes
  <1>. QED  BY <1>1, <1>6, <1>7, <1>8, <1>9

(* Who has its say spends the chance that it was. *)
LEMMA SayingSpends ==
    ASSUME TypeInv, OwnInv, CarriesCount, NEW a \in Callers, NEW e, e = calls[a].event,
           NEW m \in Nat, ~At(a, "idle"), ~Spoke(a), Spoke(a)',
           UNCHANGED <<rawEvents, sendRetry, rawConsumer, retryConsumer>>,
           a = web => calls'[web].event = e,
           a = retrier => calls[retrier].given[1] < m
    PROVE  \E c \in Chances(e, m) : c \notin Chances(e, m)'
  <1>1. CASE a = worker
    <2>1. RawEvents!HasRecord /\ e = rawEvent
      BY <1>1 DEF OwnInv, AtOwnRecord, TypeInv, InBatch
    <2>. DEFINE n == rawConsumer.next
    <2>2. /\ Front(rawConsumer) = n
          /\ n + 1 \in 1..Len(rawEvents) /\ e = rawEvents[n + 1]
      BY <2>1, FrontsInTopic, CurrentRecords DEF TypeInv
    <2>3. n \in Nat /\ DOMAIN rawEvents = 1..Len(rawEvents) /\ Len(rawEvents) \in Nat
      BY DEF TypeInv, RawLoopInv, RawEvents!ConsumerType
    <2>4. RawPast = n + 0 /\ RawPast' = n + 1
      BY <1>1, <2>2, <2>3 DEF RawPast
    <2>. HIDE DEF n
    <2>5. \A i \in 1..n + 0 : rawEvents[i] # e
      BY <2>2, <2>3 DEF OwnInv, PublishedOnce
    <2>6. RawOpen(e)
      BY <2>4, <2>5 DEF RawOpen
    <2>7. ~RawOpen(e)'
      <3>1. n + 1 \in 1..RawPast'
        BY <2>3, <2>4
      <3>2. rawEvents'[n + 1] = e
        BY <2>2
      <3>. QED  BY <3>1, <3>2 DEF RawOpen
    <2>8. /\ <<"raw", 0>> # <<"web", 0>>
          /\ \A i : <<"raw", 0>> # <<"retry", i>>
      OBVIOUS
    <2>. QED  BY <2>6, <2>7, <2>8 DEF Chances
  <1>2. CASE a = retrier
    <2>1. SendRetries!HasRecord /\ e = EventOf(retryCommand.command) /\ stage[retrier] # "idle"
      BY <1>2 DEF OwnInv, AtOwnRecord, TypeInv, InBatch
    <2>. DEFINE n == retryConsumer.next
    <2>2. /\ Front(retryConsumer) = n
          /\ n + 1 \in 1..Len(sendRetry) /\ retryCommand = sendRetry[n + 1]
      BY <2>1, FrontsInTopic, CurrentRecords DEF TypeInv
    <2>3. n \in Nat /\ DOMAIN sendRetry = 1..Len(sendRetry) /\ Len(sendRetry) \in Nat
      BY DEF TypeInv, RetryLoopInv, SendRetries!ConsumerType
    <2>4. RetryPast = n + 0 /\ RetryPast' = n + 1
      BY <1>2, <2>2, <2>3 DEF RetryPast
    <2>. HIDE DEF n
    <2>5. retryCommand.retry_count < m
      BY <1>2, <2>1 DEF CarriesCount
    <2>6. n + 1 \in RetryOpen(e, m)
      BY <2>1, <2>2, <2>3, <2>4, <2>5 DEF RetryOpen, RetryDue, About
    <2>7. n + 1 \notin RetryOpen(e, m)'
      BY <2>3, <2>4 DEF RetryOpen, RetryDue
    <2>8. \A i : /\ <<"retry", i>> # <<"web", 0>> /\ <<"retry", i>> # <<"raw", 0>>
                 /\ \A j : <<"retry", i>> = <<"retry", j>> => i = j
      OBVIOUS
    <2>9. <<"retry", n + 1>> \in Chances(e, m)
      BY <2>6 DEF Chances
    <2>10. <<"retry", n + 1>> \notin Chances(e, m)'
      BY <2>7, <2>8 DEF Chances
    <2>. QED  BY <2>9, <2>10
  <1>3. CASE a = web
    <2>1. WebOpen(e) /\ ~WebOpen(e)'
      BY <1>3 DEF WebOpen
    <2>2. /\ <<"web", 0>> # <<"raw", 0>>
          /\ \A i : <<"web", 0>> # <<"retry", i>>
      OBVIOUS
    <2>3. <<"web", 0>> \in Chances(e, m)
      BY <2>1 DEF Chances
    <2>4. <<"web", 0>> \notin Chances(e, m)'
      BY <2>1, <2>2 DEF Chances
    <2>. QED  BY <2>3, <2>4
  <1>. QED  BY <1>1, <1>2, <1>3, CallersDiffer

(* So process() says of an event what it spends a chance on, or a fault. *)
LEMMA ProcessExchanges ==
    ASSUME TypeInv, OwnInv, CallEnded, CarriesCount, NEW a \in Callers,
           Step(a) \/ DecisionFailure(a) \/ PublishFailure(a),
           NEW e \in Events, NEW m \in Nat
    PROVE  Exchange(e, m)
  <1>1. /\ UNCHANGED <<rawEvents, sendRetry, sendFailed, rawConsumer, retryConsumer, stage, manual>>
        /\ \A b \in Callers : b # a => Spoke(b)' = Spoke(b)
        /\ Spoke(a) => Spoke(a)'
        /\ WebOpen(calls[web].event)' => WebOpen(calls[web].event)
        /\ calls'[web].event = calls[web].event
        /\ faults <= faults'
    BY ProcessSpeaks
  <1>2. /\ faults \in Nat /\ faults' \in Nat /\ manual \in Nat /\ manual' = manual
        /\ manual + faults <= manual' + faults'
    <2>1. faults' \in Nat
      BY DEF Step, DecisionFailure, PublishFailure, Fault, TypeInv, ServiceTypes
    <2>2. faults \in Nat /\ manual \in Nat /\ manual' = manual /\ faults <= faults'
      BY <1>1, CoreAssumption DEF TypeInv, ServiceTypes
    <2>3. \A x, y, z \in Nat : y <= z => x + y <= x + z
      OBVIOUS
    <2>. QED  BY <2>1, <2>2, <2>3
  <1>3. Chances(e, m)' \subseteq Chances(e, m)
    <2>1. Front(rawConsumer) \in Nat /\ Front(retryConsumer) \in Nat /\ Front(rawConsumer) <= Len(rawEvents)
      BY FrontsInTopic DEF TypeInv
    <2>2. /\ RawPast \in Nat /\ RawPast' \in Nat /\ RawPast <= RawPast' /\ RawPast <= Len(rawEvents)
          /\ RetryPast \in Nat /\ RetryPast' \in Nat /\ RetryPast <= RetryPast'
      BY <1>1, <2>1, SpeakerIsAtRecord, CallersDiffer DEF RawPast, RetryPast
    <2>3. Grows(rawEvents, rawEvents')
      BY <1>1 DEF Grows, TypeInv, RawLoopInv
    <2>4. WebOpen(e)' => WebOpen(e)
      BY <1>1 DEF WebOpen
    <2>. QED  BY <1>1, <2>2, <2>3, <2>4, ChancesFall
  <1>4. ASSUME replyCommands' = replyCommands PROVE Exchange(e, m)
    <2>1. Told(e, m)' = Told(e, m)
      BY <1>1, <1>4 DEF Told
    <2>2. manual + faults <= manual' + faults'
      BY <1>2
    <2>. QED  BY <1>3, <2>1, <2>2 DEF Exchange
  <1>5. ASSUME replyCommands' = Append(replyCommands, Command(a)), At(a, "publish")
        PROVE  /\ \E k : Told(e, m)' \subseteq Told(e, m) \cup {k}
               /\ e # calls[a].event \/ ~(Command(a).retry_count < m) =>
                     Told(e, m)' \subseteq Told(e, m)
    <2>1. replyCommands \in Seq(ReplyCommand) /\ Command(a) \in ReplyCommand
      BY <1>5, CommandTyped DEF TypeInv, CollectionTypes
    <2>2. EventOf(Command(a).command) = calls[a].event
      BY DEF Command, Key, CommandId, EventOf
    <2>3. /\ Mentions(replyCommands', e, m) \subseteq
                 Mentions(replyCommands, e, m) \cup {<<Command(a).command, Command(a).retry_count>>}
          /\ EventOf(Command(a).command) # e \/ ~(Command(a).retry_count < m) =>
                 Mentions(replyCommands', e, m) \subseteq Mentions(replyCommands, e, m)
      BY <1>5, <2>1, MentionAdds
    <2>. QED  BY <1>1, <2>2, <2>3 DEF Told
  <1>6. CASE PublishFailure(a)
    <2>1. At(a, "publish") /\ replyCommands' \in {replyCommands, Append(replyCommands, Command(a))}
      BY <1>6 DEF PublishFailure, PublishFails
    <2>2. faults' = faults + 1
      BY <1>6 DEF PublishFailure, Fault
    <2>3. \E k : Told(e, m)' \subseteq Told(e, m) \cup {k}
      BY <1>1, <1>5, <2>1 DEF Told
    <2>4. manual + faults + 1 <= manual' + faults'
      BY <1>2, <2>2
    <2>. QED  BY <1>3, <2>3, <2>4 DEF Exchange
  <1>7. CASE Step(a) /\ Publish(a)
    <2>1. At(a, "publish") /\ replyCommands' = Append(replyCommands, Command(a))
      BY <1>7 DEF Publish
    <2>2. CASE e # calls[a].event \/ ~(Command(a).retry_count < m)
      <3>1. Told(e, m)' \subseteq Told(e, m)
        BY <1>5, <2>1, <2>2
      <3>2. manual + faults <= manual' + faults'
        BY <1>2
      <3>. QED  BY <1>3, <3>1, <3>2 DEF Exchange
    <2>3. CASE e = calls[a].event /\ Command(a).retry_count < m
      <3>1. ~Spoke(a) /\ Spoke(a)' /\ ~At(a, "idle")
        <4>1. ~CommandDone(calls[a]) /\ CommandDone(calls'[a])
          BY <1>7, SpentStays DEF Step, TypeInv
        <4>2. a # web => stage[a] \notin {"publish_failed", "finish"}
          BY <2>1, CallersDiffer DEF CallEnded, At
        <4>. QED  BY <1>1, <2>1, <4>1, <4>2 DEF Spoke, At
      <3>2. a = retrier => calls[retrier].given[1] < m
        <4>1. ASSUME a = retrier PROVE calls[retrier].given # NotGiven
          <5>1. stage[retrier] # "idle"
            BY <2>1, <4>1 DEF OwnInv, AtOwnRecord, At
          <5>2. \A x, y : <<x, y>> # <<>>
            OBVIOUS
          <5>. QED  BY <5>1, <5>2 DEF CarriesCount, NotGiven
        <4>. QED  BY <2>3, <4>1 DEF Command
      <3>3. PICK c \in Chances(e, m) : c \notin Chances(e, m)'
        BY <1>1, <2>3, <3>1, <3>2, SayingSpends
      <3>4. Chances(e, m)' \subseteq Chances(e, m) \ {c}
        BY <1>3, <3>3
      <3>5. \E k : Told(e, m)' \subseteq Told(e, m) \cup {k}
        BY <1>5, <2>1
      <3>6. manual + faults <= manual' + faults'
        BY <1>2
      <3>. QED  BY <3>4, <3>5, <3>6 DEF Exchange
    <2>. QED  BY <2>2, <2>3
  <1>8. CASE DecisionFailure(a)
    BY <1>4, <1>8 DEF DecisionFailure, DecideFails, collections
  <1>9. CASE Step(a) /\ ~Publish(a)
    <2>1. replyCommands' = replyCommands
      BY <1>9 DEF Step, ProcessStep, FindNew, FindDuplicate, FindRetry, MarkRetrying, Reread,
         Create, CreateDuplicateKey, Decide, SaveFailure, FindSuccess, FindLog, LogPending,
         LogDuplicateKey, LogSkipped, LogEscalated, LogQueued, LogFailed, LogOutcome,
         CreateReview, Save, collections
    <2>. QED  BY <1>4, <2>1
  <1>. QED  BY <1>6, <1>7, <1>8, <1>9


(* A caller whose call and stage do not change has said what it had said. *)
LEMMA SpokeStays ==
    ASSUME NEW a, calls'[a] = calls[a], a = web \/ stage'[a] = stage[a]
    PROVE  Spoke(a)' = Spoke(a)
  BY DEF Spoke

(* When raw_events' worker moves, it leaves the record it has spoken of. *)
LEMMA WorkerMovesOn ==
    ASSUME TypeInv, OwnInv, CallEnded, CalmWorkerMoves
    PROVE  /\ Spoke(worker) => RawEvents!Finish
           /\ Spoke(worker)' => WorkerPublishesFailure /\ ~Spoke(worker)
  <1>1. /\ worker \in Callers /\ worker # web /\ worker # retrier
        /\ stage \in [{worker, retrier} -> {"idle", "process", "publish_failed", "finish"}]
        /\ calls \in [Callers -> CallType]
    BY CallersDiffer DEF TypeInv, ServiceTypes, CollectionTypes
  <1>2. CASE WorkerBegins \/ WorkerRetries
    <2>1. PICK e, f, g : calls' = [calls EXCEPT ![worker] = NoCall(e, f, g)]
      BY <1>2 DEF WorkerBegins, WorkerRetries, Call
    <2>2. calls'[worker].pc = "find"
      BY <1>1, <2>1 DEF NoCall
    <2>3. stage'[worker] = "process"
      BY <1>1, <1>2 DEF WorkerBegins, WorkerRetries, Stage
    <2>4. ~Spoke(worker)
      BY <1>2 DEF WorkerBegins, WorkerRetries, OwnInv, AtOwnRecord, Spoke, CommandDone, Failed, At
    <2>. QED  BY <2>2, <2>3, <2>4 DEF Spoke, CommandDone
  <1>3. CASE WorkerSucceeds \/ WorkerFinishes
    <2>1. RawEvents!Finish /\ stage'[worker] = "idle" /\ Hangup(worker)
      BY <1>1, <1>3 DEF WorkerSucceeds, WorkerFinishes, Stage
    <2>2. calls'[worker].pc = "idle"
      BY <1>1, <2>1 DEF Hangup, Idle, NoCall
    <2>. QED  BY <2>1, <2>2 DEF Spoke, CommandDone
  <1>4. CASE WorkerGivesUp
    <2>1. stage'[worker] = "publish_failed"
      BY <1>1, <1>4 DEF WorkerGivesUp, Stage
    <2>2. ~Spoke(worker)
      BY <1>4 DEF WorkerGivesUp, Spoke, CommandDone, Failed, At
    <2>. QED  BY <1>1, <2>1, <2>2 DEF Spoke
  <1>5. CASE WorkerPublishesFailure
    BY <1>1, <1>5 DEF WorkerPublishesFailure, Spoke
  <1>6. CASE WorkerLoop
    <2>1. stage[worker] = "idle" /\ UNCHANGED <<calls, stage>>
      BY <1>6 DEF WorkerLoop
    <2>2. ~Spoke(worker)
      BY <2>1 DEF OwnInv, AtOwnRecord, Spoke, CommandDone, At
    <2>. QED  BY <2>1, <2>2 DEF Spoke
  <1>. QED  BY <1>2, <1>3, <1>4, <1>5, <1>6 DEF CalmWorkerMoves

(* And so does core-retry-worker. *)
LEMMA RetrierMovesOn ==
    ASSUME TypeInv, OwnInv, CallEnded, CalmRetrierMoves
    PROVE  /\ Spoke(retrier) => SendRetries!Finish
           /\ Spoke(retrier)' => RetrierPublishesFailure /\ ~Spoke(retrier)
  <1>1. /\ retrier \in Callers /\ worker # retrier /\ retrier # web
        /\ stage \in [{worker, retrier} -> {"idle", "process", "publish_failed", "finish"}]
        /\ calls \in [Callers -> CallType]
    BY CallersDiffer DEF TypeInv, ServiceTypes, CollectionTypes
  <1>2. CASE RetrierBegins
    <2>1. PICK e, f, g : calls' = [calls EXCEPT ![retrier] = NoCall(e, f, g)]
      BY <1>2 DEF RetrierBegins, Call
    <2>2. calls'[retrier].pc = "find"
      BY <1>1, <2>1 DEF NoCall
    <2>3. stage'[retrier] = "process"
      BY <1>1, <1>2 DEF RetrierBegins, Stage
    <2>4. ~Spoke(retrier)
      BY <1>2 DEF RetrierBegins, OwnInv, AtOwnRecord, Spoke, CommandDone, At
    <2>. QED  BY <2>2, <2>3, <2>4 DEF Spoke, CommandDone
  <1>3. CASE RetrierSucceeds \/ RetrierFinishes \/ RetrierAbandons
    <2>1. stage'[retrier] = "idle" /\ Hangup(retrier)
      BY <1>1, <1>3 DEF RetrierSucceeds, RetrierFinishes, RetrierAbandons, Stage
    <2>2. calls'[retrier].pc = "idle"
      BY <1>1, <2>1 DEF Hangup, Idle, NoCall
    <2>3. RetrierAbandons => ~Spoke(retrier)
      BY DEF RetrierAbandons, CallEnded, Spoke, CommandDone, At
    <2>4. RetrierSucceeds \/ RetrierFinishes => SendRetries!Finish
      BY DEF RetrierSucceeds, RetrierFinishes
    <2>. QED  BY <1>3, <2>1, <2>2, <2>3, <2>4 DEF Spoke, CommandDone
  <1>4. CASE RetrierPublishesFailure
    BY <1>1, <1>4 DEF RetrierPublishesFailure, Spoke, CommandDone, Failed, At
  <1>5. CASE RetrierLoop
    <2>1. stage[retrier] = "idle" /\ UNCHANGED <<calls, stage>>
      BY <1>5 DEF RetrierLoop
    <2>2. ~Spoke(retrier)
      BY <2>1 DEF OwnInv, AtOwnRecord, Spoke, CommandDone, At
    <2>. QED  BY <2>1, <2>2 DEF Spoke
  <1>. QED  BY <1>2, <1>3, <1>4, <1>5 DEF CalmRetrierMoves

(* So no move of theirs brings a chance back. *)
LEMMA MovesBringNothing ==
    ASSUME TypeInv, OwnInv, CallEnded, NEW e \in Events, NEW m \in Nat,
           CalmWorkerMoves \/ CalmRetrierMoves \/ WebAnswers
    PROVE  Chances(e, m)' \subseteq Chances(e, m)
  <1>1. CalmNext
    BY CallersDiffer DEF CalmWorkerMoves, CalmRetrierMoves, CalmNext, Worker, Retrier, Web
  <1>2. /\ Front(rawConsumer) \in Nat /\ Front(rawConsumer') \in Nat
        /\ Front(rawConsumer) <= Front(rawConsumer') /\ Front(rawConsumer) <= Len(rawEvents)
        /\ Front(retryConsumer) \in Nat /\ Front(retryConsumer') \in Nat
        /\ Front(retryConsumer) <= Front(retryConsumer')
    BY <1>1, FrontsAdvance
  <1>3. /\ Spoke(worker) => Front(rawConsumer) = rawConsumer.next /\ rawConsumer.next + 1 <= Len(rawEvents)
        /\ Spoke(retrier) => Front(retryConsumer) = retryConsumer.next
    BY SpeakerIsAtRecord
  <1>4. /\ rawConsumer \in RawEvents!ConsumerType /\ retryConsumer \in SendRetries!ConsumerType
        /\ worker # retrier /\ worker # web /\ retrier # web
        /\ worker \in Callers /\ retrier \in Callers /\ web \in Callers
    BY CallersDiffer DEF TypeInv, RawLoopInv, RetryLoopInv
  <1>5. CASE CalmWorkerMoves
    <2>1. /\ UNCHANGED <<rawEvents, sendRetry, retryConsumer>>
          /\ calls'[retrier] = calls[retrier] /\ calls'[web] = calls[web]
          /\ stage'[retrier] = stage[retrier]
      BY <1>4, <1>5, WorkerIsLocal DEF CalmWorkerMoves, WorkerMoves
    <2>2. Spoke(retrier)' = Spoke(retrier) /\ Spoke(web)' = Spoke(web)
      BY <2>1, SpokeStays
    <2>3. Spoke(worker) => Front(rawConsumer') = Front(rawConsumer) + 1
      <3>1. Spoke(worker) => RawEvents!Finish
        BY <1>5, WorkerMovesOn
      <3>. QED
        BY <1>3, <1>4, <3>1 DEF RawEvents!Finish, RawEvents!HasRecord, RawEvents!ConsumerType, Front
    <2>4. /\ RawPast \in Nat /\ RawPast' \in Nat /\ RawPast <= RawPast' /\ RawPast <= Len(rawEvents)
      BY <1>2, <1>3, <2>3 DEF RawPast
    <2>5. RetryPast \in Nat /\ RetryPast' \in Nat /\ RetryPast <= RetryPast'
      BY <1>2, <2>1, <2>2 DEF RetryPast
    <2>6. Grows(rawEvents, rawEvents') /\ (WebOpen(e)' => WebOpen(e))
      BY <2>1, <2>2 DEF Grows, TypeInv, RawLoopInv, WebOpen, At
    <2>. QED  BY <2>1, <2>4, <2>5, <2>6, ChancesFall
  <1>6. CASE CalmRetrierMoves
    <2>1. /\ UNCHANGED <<rawEvents, sendRetry, rawConsumer>>
          /\ calls'[worker] = calls[worker] /\ calls'[web] = calls[web]
          /\ stage'[worker] = stage[worker]
      BY <1>4, <1>6, RetrierIsLocal DEF CalmRetrierMoves, RetrierMoves
    <2>2. Spoke(worker)' = Spoke(worker) /\ Spoke(web)' = Spoke(web)
      BY <2>1, SpokeStays
    <2>3. Spoke(retrier) => Front(retryConsumer') = Front(retryConsumer) + 1
      <3>1. Spoke(retrier) => SendRetries!Finish
        BY <1>6, RetrierMovesOn
      <3>. QED
        BY <1>3, <1>4, <3>1
        DEF SendRetries!Finish, SendRetries!HasRecord, SendRetries!ConsumerType, Front
    <2>4. RetryPast \in Nat /\ RetryPast' \in Nat /\ RetryPast <= RetryPast'
      BY <1>2, <1>3, <2>3 DEF RetryPast
    <2>5. /\ RawPast \in Nat /\ RawPast' \in Nat /\ RawPast <= RawPast' /\ RawPast <= Len(rawEvents)
      BY <1>2, <1>3, <2>1, <2>2 DEF RawPast
    <2>6. Grows(rawEvents, rawEvents') /\ (WebOpen(e)' => WebOpen(e))
      BY <2>1, <2>2 DEF Grows, TypeInv, RawLoopInv, WebOpen, At
    <2>. QED  BY <2>1, <2>4, <2>5, <2>6, ChancesFall
  <1>7. CASE WebAnswers
    <2>1. /\ UNCHANGED <<rawEvents, sendRetry, rawConsumer, retryConsumer, stage>>
          /\ calls'[worker] = calls[worker] /\ calls'[retrier] = calls[retrier]
      BY <1>4, <1>7, WebIsLocal DEF WebMoves
    <2>2. Spoke(worker)' = Spoke(worker) /\ Spoke(retrier)' = Spoke(retrier)
      BY <2>1, SpokeStays
    <2>3. /\ RawPast \in Nat /\ RawPast' \in Nat /\ RawPast <= RawPast' /\ RawPast <= Len(rawEvents)
      BY <1>2, <1>3, <2>1, <2>2 DEF RawPast
    <2>4. RetryPast \in Nat /\ RetryPast' \in Nat /\ RetryPast <= RetryPast'
      BY <1>2, <2>1, <2>2 DEF RetryPast
    <2>5. ~WebOpen(e)'
      <3>1. calls' = [calls EXCEPT ![web] = Idle] /\ calls \in [Callers -> CallType]
        BY <1>7 DEF WebAnswers, Hangup, TypeInv, CollectionTypes
      <3>2. calls'[web].pc = "idle"
        BY <1>4, <3>1 DEF Idle, NoCall
      <3>. QED  BY <3>2 DEF WebOpen, At
    <2>6. Grows(rawEvents, rawEvents')
      BY <2>1 DEF Grows, TypeInv, RawLoopInv
    <2>. QED  BY <2>1, <2>3, <2>4, <2>5, <2>6, ChancesFall
  <1>. QED  BY <1>5, <1>6, <1>7

(* A report of a failure spends the chance of the attempt that failed. *)
LEMMA ReportSpends ==
    ASSUME TypeInv, OwnInv, CarriesCount, NEW e \in Events, NEW m \in Nat,
           NEW a \in {worker, retrier}, NEW n, NEW max,
           sendFailed' = Append(sendFailed, FailureOf(a, n, max)),
           FailureOf(a, n, max) \in FailureReport,
           ~At(a, "idle"), ~Spoke(a), Spoke(a)',
           a = retrier => n = calls[retrier].given[1],
           UNCHANGED <<replyCommands, rawEvents, sendRetry, rawConsumer, retryConsumer,
                       manual, faults>>,
           Chances(e, m)' \subseteq Chances(e, m)
    PROVE  Exchange(e, m)
  <1>. DEFINE f == FailureOf(a, n, max)
  <1>1. /\ sendFailed \in Seq(FailureReport) /\ f \in FailureReport
        /\ EventOf(f.command) = calls[a].event /\ f.retry_count = n
    BY DEF FailureOf, CommandId, EventOf, TypeInv, ServiceTypes
  <1>2. sendFailed' = Append(sendFailed, f)
    OBVIOUS
  <1>. HIDE DEF f
  <1>3. /\ \E k : Told(e, m)' \subseteq Told(e, m) \cup {k}
        /\ e # calls[a].event \/ ~(n < m) => Told(e, m)' \subseteq Told(e, m)
    <2>1. /\ Mentions(sendFailed', e, m) \subseteq
                 Mentions(sendFailed, e, m) \cup {<<f.command, f.retry_count>>}
          /\ EventOf(f.command) # e \/ ~(f.retry_count < m) =>
                 Mentions(sendFailed', e, m) \subseteq Mentions(sendFailed, e, m)
      BY <1>1, <1>2, MentionAdds
    <2>. QED  BY <1>1, <2>1 DEF Told
  <1>4. manual + faults <= manual' + faults'
    <2>1. manual \in Nat /\ faults \in Nat
      BY CoreAssumption DEF TypeInv, ServiceTypes
    <2>2. \A x, y \in Nat : x + y <= x + y
      OBVIOUS
    <2>. QED  BY <2>1, <2>2
  <1>5. CASE e # calls[a].event \/ ~(n < m)
    BY <1>3, <1>4, <1>5 DEF Exchange
  <1>6. CASE e = calls[a].event /\ n < m
    <2>1. a \in Callers /\ a # web
      BY CallersDiffer
    <2>2. a = retrier => calls[retrier].given[1] < m
      BY <1>6
    <2>3. PICK c \in Chances(e, m) : c \notin Chances(e, m)'
      BY <1>6, <2>1, <2>2, SayingSpends
    <2>4. Chances(e, m)' \subseteq Chances(e, m) \ {c}
      BY <2>3
    <2>. QED  BY <1>3, <1>4, <2>4 DEF Exchange
  <1>. QED  BY <1>5, <1>6

(* Both workers report what they give up. *)
LEMMA ReportExchanges ==
    ASSUME TypeInv, OwnInv, CallEnded, CarriesCount, NEW e \in Events, NEW m \in Nat,
           WorkerPublishesFailure \/ RetrierPublishesFailure
    PROVE  Exchange(e, m)
  <1>1. Chances(e, m)' \subseteq Chances(e, m)
    BY MovesBringNothing DEF CalmWorkerMoves, CalmRetrierMoves
  <1>2. UNCHANGED <<replyCommands, rawEvents, sendRetry, rawConsumer, retryConsumer, manual, faults>>
    BY DEF WorkerPublishesFailure, RetrierPublishesFailure, collections, rawLoop, retryLoop
  <1>3. sendFailed' \in Seq(FailureReport) /\ sendFailed \in Seq(FailureReport)
    <2>1. [Next]_vars
      BY CallersDiffer DEF Next, Worker, Retrier
    <2>. QED  BY <2>1, TypeInvInductive DEF TypeInv, ServiceTypes
  <1>4. ASSUME NEW f, sendFailed' = Append(sendFailed, f) PROVE f \in FailureReport
    <2>1. f = sendFailed'[Len(sendFailed) + 1] /\ Len(sendFailed) + 1 \in 1..Len(sendFailed')
      BY <1>3, <1>4
    <2>. QED  BY <1>3, <2>1
  <1>5. stage \in [{worker, retrier} -> {"idle", "process", "publish_failed", "finish"}]
    BY DEF TypeInv, ServiceTypes
  <1>6. CASE WorkerPublishesFailure
    <2>1. sendFailed' = Append(sendFailed, FailureOf(worker, Attempts - 1, MaxRetries))
      BY <1>6 DEF WorkerPublishesFailure
    <2>2. stage[worker] = "publish_failed" /\ stage'[worker] = "finish"
      BY <1>5, <1>6 DEF WorkerPublishesFailure, Stage
    <2>3. ~Spoke(worker) /\ Spoke(worker)' /\ ~At(worker, "idle")
      BY <2>2, CallersDiffer DEF Spoke, CallEnded, At
    <2>4. worker \in {worker, retrier} /\ worker # retrier
      BY CallersDiffer
    <2>. QED  BY <1>1, <1>2, <1>4, <2>1, <2>3, <2>4, ReportSpends
  <1>7. CASE RetrierPublishesFailure
    <2>1. sendFailed' = Append(sendFailed, FailureOf(retrier, retryCommand.retry_count,
                                                     retryCommand.max_retries))
      BY <1>7 DEF RetrierPublishesFailure
    <2>2. stage[retrier] = "process" /\ stage'[retrier] = "finish"
      BY <1>5, <1>7 DEF RetrierPublishesFailure, Stage
    <2>3. ~Spoke(retrier) /\ Spoke(retrier)' /\ ~At(retrier, "idle")
      BY <1>7, <2>2, CallersDiffer DEF RetrierPublishesFailure, Spoke, CommandDone, Failed, At
    <2>4. retryCommand.retry_count = calls[retrier].given[1]
      BY <2>2 DEF CarriesCount
    <2>5. retrier \in {worker, retrier}
      OBVIOUS
    <2>. QED  BY <1>1, <1>2, <1>4, <2>1, <2>3, <2>4, <2>5, ReportSpends
  <1>. QED  BY <1>6, <1>7

(* A manual retry is one chance more, and the only one that comes in. *)
LEMMA ManualExchanges ==
    ASSUME TypeInv, OwnInv, NEW e \in Events, NEW m \in Nat, NEW f \in Events, WebRetries(f)
    PROVE  Exchange(e, m)
  <1>1. /\ UNCHANGED <<rawEvents, sendRetry, rawConsumer, retryConsumer, stage>>
        /\ UNCHANGED <<replyCommands, sendFailed>>
        /\ calls'[worker] = calls[worker] /\ calls'[retrier] = calls[retrier]
    <2>1. UNCHANGED <<replyCommands, sendFailed>>
      BY DEF WebRetries, collections, topics
    <2>. QED  BY <2>1, WebIsLocal, CallersDiffer DEF WebMoves
  <1>2. Spoke(worker)' = Spoke(worker) /\ Spoke(retrier)' = Spoke(retrier)
    BY <1>1, SpokeStays
  <1>3. RawPast' = RawPast /\ RetryPast' = RetryPast
    BY <1>1, <1>2 DEF RawPast, RetryPast
  <1>4. RawOpen(e)' = RawOpen(e) /\ RetryOpen(e, m)' = RetryOpen(e, m)
    BY <1>1, <1>3 DEF RawOpen, RetryOpen
  <1>5. Chances(e, m)' \subseteq Chances(e, m) \cup {<<"web", 0>>}
    BY <1>4 DEF Chances
  <1>6. Told(e, m)' \subseteq Told(e, m)
    BY <1>1 DEF Told
  <1>7. manual + faults + 1 <= manual' + faults'
    <2>1. /\ manual \in Nat /\ faults \in Nat
          /\ manual' = manual + 1 /\ faults' = faults
      BY CoreAssumption DEF WebRetries, TypeInv, ServiceTypes
    <2>2. \A x, y \in Nat : x + y + 1 <= (x + 1) + y
      OBVIOUS
    <2>. QED  BY <2>1, <2>2
  <1>. QED  BY <1>5, <1>6, <1>7 DEF Exchange

(* Every step that loses no call exchanges. *)
LEMMA CalmExchanges ==
    ASSUME TypeInv, OwnInv, OwedInv, CarriesCount, CalmNext, NEW e \in Events, NEW m \in Nat
    PROVE  Exchange(e, m)
  <1>1. CallEnded
    BY DEF OwedInv
  <1>2. manual \in Nat /\ faults \in Nat /\ \A x, y \in Nat : x + y <= x + y
    BY CoreAssumption DEF TypeInv, ServiceTypes
  <1>3. CASE \E a \in Callers : Step(a) \/ DecisionFailure(a) \/ PublishFailure(a)
    BY <1>1, <1>3, ProcessExchanges
  <1>4. CASE WorkerPublishesFailure \/ RetrierPublishesFailure
    BY <1>1, <1>4, ReportExchanges
  <1>5. CASE (CalmWorkerMoves \/ CalmRetrierMoves \/ WebAnswers)
                 /\ ~(WorkerPublishesFailure \/ RetrierPublishesFailure)
    <2>1. UNCHANGED <<replyCommands, sendFailed, manual, faults>>
      BY <1>5
      DEF CalmWorkerMoves, WorkerBegins, WorkerSucceeds, WorkerRetries, WorkerGivesUp,
          WorkerFinishes, WorkerLoop, CalmRetrierMoves, RetrierBegins, RetrierSucceeds,
          RetrierFinishes, RetrierLoop, RetrierAbandons, WebAnswers, collections, topics
    <2>2. Told(e, m)' = Told(e, m)
      BY <2>1 DEF Told
    <2>3. Chances(e, m)' \subseteq Chances(e, m)
      BY <1>1, <1>5, MovesBringNothing
    <2>4. manual + faults <= manual' + faults'
      BY <1>2, <2>1
    <2>. QED  BY <2>2, <2>3, <2>4 DEF Exchange
  <1>6. CASE \E f \in Events : WebRetries(f)
    BY <1>6, ManualExchanges
  <1>7. CASE \E f \in Events : WebhookPublishes(f)
    <2>1. /\ UNCHANGED <<replyCommands, sendFailed, sendRetry, rawConsumer, retryConsumer>>
          /\ UNCHANGED <<calls, stage, manual, faults>>
      BY <1>7 DEF WebhookPublishes, collections, RawEvents!Produce, retryLoop
    <2>2. Told(e, m)' = Told(e, m)
      BY <2>1 DEF Told
    <2>3. Grows(rawEvents, rawEvents')
      <3>1. [Next]_vars
        BY CalmIsNext
      <3>. QED  BY <3>1, NextRawLoop, RawLoopKeeps DEF TypeInv
    <2>4. RawPast' = RawPast /\ RetryPast' = RetryPast /\ WebOpen(e)' = WebOpen(e)
      BY <2>1 DEF RawPast, RetryPast, Spoke, WebOpen, At
    <2>5. /\ RawPast \in Nat /\ RawPast <= RawPast /\ RawPast <= Len(rawEvents)
          /\ RetryPast \in Nat /\ RetryPast <= RetryPast
      <3>1. Front(rawConsumer) \in Nat /\ Front(retryConsumer) \in Nat /\ Front(rawConsumer) <= Len(rawEvents)
        BY FrontsInTopic DEF TypeInv
      <3>. QED  BY <3>1, SpeakerIsAtRecord DEF RawPast, RetryPast
    <2>6. Chances(e, m)' \subseteq Chances(e, m)
      BY <2>1, <2>3, <2>4, <2>5, ChancesFall
    <2>7. manual + faults <= manual' + faults'
      BY <1>2, <2>1
    <2>. QED  BY <2>2, <2>6, <2>7 DEF Exchange
  <1>. QED
    BY <1>3, <1>4, <1>5, <1>6, <1>7, CallersDiffer
    DEF CalmNext, Worker, Retrier, Web, CalmWorkerMoves, CalmRetrierMoves

(* The count a call carries stays that of its retry. *)
LEMMA CountCarried ==
    /\ Init => CarriesCount
    /\ TypeInv /\ OwnInv /\ OwedInv /\ CarriesCount /\ CalmNext => CarriesCount'
  <1>1. Init => CarriesCount
    BY DEF Init, CarriesCount
  <1>2. ASSUME TypeInv, OwnInv, OwedInv, CarriesCount, CalmNext PROVE CarriesCount'
    <2>1. UNCHANGED retryConsumer /\ stage[retrier] # "idle" => retryCommand' = retryCommand
      BY <1>2, CalmIsNext, RecordsStay
    <2>2. CASE calls'[retrier].given = calls[retrier].given /\ stage'[retrier] = stage[retrier]
                  /\ UNCHANGED retryConsumer
      BY <1>2, <2>1, <2>2 DEF CarriesCount
    <2>3. CASE \E a \in Callers : Step(a) \/ DecisionFailure(a) \/ PublishFailure(a)
      <3>1. PICK a \in Callers : ProcessStep(a) \/ DecideFails(a) \/ PublishFails(a)
        BY <2>3 DEF Step, DecisionFailure, PublishFailure
      <3>2. UNCHANGED <<stage, retryConsumer>>
        BY <2>3 DEF Step, DecisionFailure, PublishFailure, loops, retryLoop
      <3>3. calls'[retrier].given = calls[retrier].given
        <4>1. retrier # a \/ retrier = a
          OBVIOUS
        <4>. QED  BY <1>2, <3>1, <4>1, ProcessChanges, CallersDiffer DEF TypeInv
      <3>. QED  BY <2>2, <3>2, <3>3
    <2>4. CASE CalmWorkerMoves \/ WebAnswers \/ \E e \in Events : WebhookPublishes(e) \/ WebRetries(e)
      <3>1. /\ calls'[retrier] = calls[retrier] /\ stage'[retrier] = stage[retrier]
            /\ UNCHANGED retryConsumer
        BY <1>2, <2>4, WorkerIsLocal, WebIsLocal, OutsideIsLocal, CallersDiffer
        DEF CalmWorkerMoves, WorkerMoves, WebMoves, OutsideMoves
      <3>. QED  BY <2>2, <3>1
    <2>5. CASE CalmRetrierMoves
      <3>1. stage \in [{worker, retrier} -> {"idle", "process", "publish_failed", "finish"}]
        BY <1>2 DEF TypeInv, ServiceTypes
      <3>2. CASE RetrierBegins
        <4>1. calls' = [calls EXCEPT ![retrier] =
                  NoCall(EventOf(retryCommand.command), TRUE,
                         <<retryCommand.retry_count, retryCommand.max_retries>>)]
          BY <3>2 DEF RetrierBegins, Call
        <4>2. calls'[retrier].given = <<retryCommand.retry_count, retryCommand.max_retries>>
          BY <1>2, <4>1, CallersDiffer DEF NoCall, TypeInv, CollectionTypes
        <4>3. retryCommand' = retryCommand
          BY <3>2 DEF RetrierBegins, retryLoop, topics, retryCommand, SendRetries!Current
        <4>. QED  BY <4>2, <4>3 DEF CarriesCount
      <3>3. CASE RetrierSucceeds \/ RetrierFinishes \/ RetrierAbandons
        BY <3>1, <3>3 DEF RetrierSucceeds, RetrierFinishes, RetrierAbandons, Stage, CarriesCount
      <3>4. CASE RetrierPublishesFailure
        <4>1. UNCHANGED <<calls, retryConsumer>> /\ stage[retrier] # "idle"
          BY <3>4 DEF RetrierPublishesFailure, retryLoop
        <4>2. retryCommand' = retryCommand
          BY <2>1, <4>1
        <4>. QED  BY <1>2, <4>1, <4>2 DEF CarriesCount
      <3>5. CASE RetrierLoop
        BY <3>5 DEF RetrierLoop, CarriesCount
      <3>. QED  BY <2>5, <3>2, <3>3, <3>4, <3>5 DEF CalmRetrierMoves
    <2>. QED
      BY <1>2, <2>3, <2>4, <2>5, CallersDiffer
      DEF CalmNext, Worker, Retrier, Web, CalmWorkerMoves, CalmRetrierMoves
  <1>. QED  BY <1>1, <1>2

(* The retries come from elsewhere. *)
LEMMA CalmKeepsRetries ==
    ASSUME TypeInv, CalmNext
    PROVE  sendRetry' = sendRetry
  <1>1. CASE \E a \in Callers : Step(a) \/ DecisionFailure(a) \/ PublishFailure(a)
    BY <1>1 DEF Step, DecisionFailure, PublishFailure, loops, topics
  <1>2. CASE CalmWorkerMoves \/ CalmRetrierMoves \/ WebAnswers \/ \E e \in Events : WebRetries(e)
    BY <1>2, WorkerIsLocal, RetrierIsLocal, WebIsLocal
    DEF CalmWorkerMoves, CalmRetrierMoves, WorkerMoves, RetrierMoves, WebMoves
  <1>3. CASE \E e \in Events : WebhookPublishes(e)
    BY <1>3 DEF WebhookPublishes
  <1>. QED
    BY <1>1, <1>2, <1>3, CallersDiffer
    DEF CalmNext, Worker, Retrier, Web, CalmWorkerMoves, CalmRetrierMoves

(* The services around this one leave the chances as they are, but for the retry
   that they publish; and a retry's call carries what it did. *)
LEMMA AsideBrings ==
    ASSUME TypeInv, CarriesCount,
           UNCHANGED <<calls, rawEvents, stage, rawConsumer, retryConsumer>>
    PROVE  /\ sendRetry' = sendRetry =>
                 CarriesCount' /\ \A e, m : Chances(e, m)' = Chances(e, m)
           /\ \A r \in RetryRecord : sendRetry' = Append(sendRetry, r) =>
                 /\ CarriesCount'
                 /\ \A e, m :
                       /\ Chances(e, m)' \subseteq
                             Chances(e, m) \cup {<<"retry", Len(sendRetry) + 1>>}
                       /\ EventOf(r.command) # e \/ ~(r.retry_count < m) =>
                             Chances(e, m)' \subseteq Chances(e, m)
  <1>1. RawPast' = RawPast /\ RetryPast' = RetryPast
    BY DEF RawPast, RetryPast, Spoke
  <1>2. \A e : WebOpen(e)' = WebOpen(e) /\ RawOpen(e)' = RawOpen(e)
    BY <1>1 DEF WebOpen, RawOpen, Spoke, At
  <1>3. sendRetry \in Seq(RetryRecord) /\ RetryLoopInv
    BY DEF TypeInv, RetryLoopInv
  <1>4. stage[retrier] # "idle" => retryConsumer.next + 1 \in 1..Len(sendRetry)
    BY CurrentRecords DEF TypeInv, InBatch
  <1>5. CASE sendRetry' = sendRetry
    <2>1. CarriesCount'
      BY <1>5 DEF CarriesCount, retryCommand, SendRetries!Current
    <2>2. \A e, m : RetryOpen(e, m)' = RetryOpen(e, m)
      BY <1>1, <1>5 DEF RetryOpen, RetryDue, About
    <2>3. \A e, m : Chances(e, m)' = Chances(e, m)
      BY <1>2, <2>2 DEF Chances
    <2>4. ASSUME NEW r \in RetryRecord, sendRetry' = Append(sendRetry, r) PROVE FALSE
      BY <1>3, <1>5, <2>4
    <2>. QED  BY <2>1, <2>3, <2>4
  <1>6. ASSUME NEW r \in RetryRecord, sendRetry' = Append(sendRetry, r)
        PROVE  /\ CarriesCount'
               /\ \A e, m :
                     /\ Chances(e, m)' \subseteq
                           Chances(e, m) \cup {<<"retry", Len(sendRetry) + 1>>}
                     /\ EventOf(r.command) # e \/ ~(r.retry_count < m) =>
                           Chances(e, m)' \subseteq Chances(e, m)
    <2>1. /\ Len(sendRetry) \in Nat /\ DOMAIN sendRetry = 1..Len(sendRetry)
          /\ DOMAIN sendRetry' = 1..(Len(sendRetry) + 1)
          /\ \A i \in 1..Len(sendRetry) : sendRetry'[i] = sendRetry[i]
          /\ sendRetry'[Len(sendRetry) + 1] = r
      BY <1>3, <1>6
    <2>2. CarriesCount'
      BY <1>4, <2>1 DEF CarriesCount, retryCommand, SendRetries!Current
    <2>3. ASSUME NEW e, NEW m
          PROVE  /\ RetryOpen(e, m)' \subseteq RetryOpen(e, m) \cup {Len(sendRetry) + 1}
                 /\ EventOf(r.command) # e \/ ~(r.retry_count < m) =>
                       RetryOpen(e, m)' \subseteq RetryOpen(e, m)
      <3>1. ASSUME NEW i \in RetryOpen(e, m)'
            PROVE  \/ i \in RetryOpen(e, m)
                   \/ i = Len(sendRetry) + 1 /\ EventOf(r.command) = e /\ r.retry_count < m
        <4>1. /\ i \in DOMAIN sendRetry' /\ EventOf(sendRetry'[i].command) = e
              /\ i > RetryPast /\ sendRetry'[i].retry_count < m
          BY <1>1, <3>1 DEF RetryOpen, RetryDue, About
        <4>2. i \in 1..Len(sendRetry) \/ i = Len(sendRetry) + 1
          BY <2>1, <4>1
        <4>. QED  BY <2>1, <4>1, <4>2 DEF RetryOpen, RetryDue, About
      <3>. QED  BY <3>1
    <2>4. ASSUME NEW e, NEW m
          PROVE  /\ Chances(e, m)' \subseteq
                       Chances(e, m) \cup {<<"retry", Len(sendRetry) + 1>>}
                 /\ EventOf(r.command) # e \/ ~(r.retry_count < m) =>
                       Chances(e, m)' \subseteq Chances(e, m)
      BY <1>2, <2>3 DEF Chances
    <2>. QED  BY <2>2, <2>4
  <1>. QED  BY <1>5, <1>6

(* At first nothing was said, and an event has one chance. *)
LEMMA ChancesAtFirst ==
    ASSUME Init, NEW e, NEW m
    PROVE  Told(e, m) = {} /\ Chances(e, m) \subseteq {<<"raw", 0>>}
  <1>1. Told(e, m) = {}
    BY DEF Init, ProcessorInit, Told, Mentions, About
  <1>2. RetryOpen(e, m) = {}
    BY DEF Init, RetryOpen, RetryDue, About
  <1>3. ~WebOpen(e)
    <2>1. calls[web].pc = "idle"
      BY CallersDiffer DEF Init, ProcessorInit, Idle, NoCall
    <2>. QED  BY <2>1 DEF WebOpen, At
  <1>. QED  BY <1>1, <1>2, <1>3 DEF Chances

(* What was told names its event's commands. *)
LEMMA ToldTyped ==
    ASSUME TypeInv, NEW e, NEW m, NEW k \in Told(e, m)
    PROVE  k \in CommandIds \X Nat /\ EventOf(k[1]) = e /\ k[2] < m
  <1>1. CASE k \in Mentions(replyCommands, e, m)
    <2>1. PICK i \in DOMAIN replyCommands :
              /\ EventOf(replyCommands[i].command) = e /\ replyCommands[i].retry_count < m
              /\ k = <<replyCommands[i].command, replyCommands[i].retry_count>>
      BY <1>1 DEF Mentions, About
    <2>2. replyCommands[i] \in ReplyCommand
      BY <2>1 DEF TypeInv, CollectionTypes
    <2>. QED  BY <2>1, <2>2 DEF ReplyCommand, Keys, CommandIds
  <1>2. CASE k \in Mentions(sendFailed, e, m)
    <2>1. PICK i \in DOMAIN sendFailed :
              /\ EventOf(sendFailed[i].command) = e /\ sendFailed[i].retry_count < m
              /\ k = <<sendFailed[i].command, sendFailed[i].retry_count>>
      BY <1>2 DEF Mentions, About
    <2>2. sendFailed[i] \in FailureReport
      BY <2>1 DEF TypeInv, ServiceTypes
    <2>. QED  BY <2>1, <2>2 DEF FailureReport
  <1>. QED  BY <1>1, <1>2 DEF Told
=============================================================================
