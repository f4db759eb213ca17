--------------------------- MODULE WebhookProofs ---------------------------
(***************************************************************************)
(* What webhook-service keeps for every set of payloads, every number of   *)
(* deliveries, and every number of faults: a 202 means that all events are *)
(* on raw_events, what arrives is a beginning of the payload, in order,    *)
(* and a change is published again only because something failed.          *)
(***************************************************************************)
EXTENDS Webhook, FiniteSetTheorems, TLAPS

-----------------------------------------------------------------------------
(* The strengthened types *)

Request == [stage : Stages, published : Nat, response : Responses, heard : BOOLEAN]

RawEvent == {Event(r, i) : r \in Requests, i \in Nat}

Types ==
    /\ request \in [Requests -> Request]
    /\ buffered \subseteq Requests
    /\ rawEvents \in Seq(RawEvent)
    /\ faults \in Nat /\ faults <= MaxFaults

\* The changes of the payload that r delivers.
Size(r) == Len(Changes[r[1]])

\* Of r's events, just the first n have arrived.
HasSent(r, n) ==
    \A i \in Nat :
        (\E k \in DOMAIN rawEvents : rawEvents[k].event_id = <<r, i>>) <=> i \in 1..n

\* How far a request is, and what of it is on the topic or may still arrive.
Progressed(r) ==
    /\ request[r].published <= Size(r)
    /\ r \in buffered =>
          /\ At(r, "waiting") \/ At(r, "answered")
          /\ request[r].published < Size(r)
          /\ HasSent(r, request[r].published)
    /\ At(r, "none") \/ At(r, "received") =>
          request[r].published = 0 /\ HasSent(r, 0)
    /\ At(r, "sending") => HasSent(r, request[r].published)
    /\ At(r, "waiting") /\ r \notin buffered =>
          request[r].published < Size(r) /\ HasSent(r, request[r].published + 1)
    /\ request[r].response = 0 <=> ~At(r, "answered")
    /\ request[r].response \in {401, 500} => r \notin buffered /\ HasSent(r, 0)
    /\ request[r].response = 202 => r \notin buffered /\ HasSent(r, Size(r))

ProgressInv == Types /\ PublishedInOrder /\ \A r \in Requests : Progressed(r)

\* PublishedInOrder, of one event of a topic.
InOrder(topic, k) ==
    \E r \in Requests : \E i \in DOMAIN Changes[r[1]] :
        /\ topic[k] = Event(r, i)
        /\ \A j \in 1 .. k - 1 : topic[j].event_id # <<r, i>>
        /\ \A n \in 1 .. i - 1 : \E j \in 1 .. k - 1 : topic[j].event_id = <<r, n>>

(* A request delivers a payload, for the n-th time. *)
LEMMA RequestTyped ==
    ASSUME NEW r \in Requests
    PROVE  /\ r[1] \in Payloads
           /\ r[2] \in Nat \ {0}
           /\ r = <<r[1], r[2]>>
           /\ \A n \in 1 .. r[2] : <<r[1], n>> \in Requests
           /\ Size(r) \in Nat /\ DOMAIN Changes[r[1]] = 1 .. Size(r)
  <1>1. PICK p \in Payloads : r \in {p} \X (1 .. Deliveries[p])
    BY DEF Requests
  <1>. DEFINE n == r[2]
  <1>2. Deliveries[p] \in Nat
    BY BoundAssumption
  <1>3. Changes[p] \in Seq(Range(Changes[p]))
    BY ChangesAssumption
  <1>4. Len(Changes[p]) \in Nat /\ DOMAIN Changes[p] = 1 .. Len(Changes[p])
    BY <1>3
  <1>5. n \in 1 .. Deliveries[p] /\ \A m \in 1 .. n : m \in 1 .. Deliveries[p]
    BY <1>1, <1>2
  <1>6. \A m \in 1 .. n : <<p, m>> \in Requests
    BY <1>5 DEF Requests
  <1>. QED  BY <1>1, <1>2, <1>4, <1>5, <1>6 DEF Size

(* An event carries its request and its number. *)
LEMMA EventIds ==
    ASSUME NEW r, NEW i
    PROVE  Event(r, i).event_id = <<r, i>>
  BY DEF Event

(* What a step of the handler changes. *)
LEMMA Moves ==
    ASSUME request \in [Requests -> Request], NEW r \in Requests, NEW s \in Stages, Move(r, s)
    PROVE  /\ request' \in [Requests -> Request]
           /\ \A q \in Requests : q # r => request'[q] = request[q]
           /\ request'[r].stage = s
           /\ request'[r].published = request[r].published
           /\ request'[r].response = request[r].response
           /\ request'[r].heard = request[r].heard
  BY DEF Move, Request

(* What an answer changes. *)
LEMMA Responds ==
    ASSUME request \in [Requests -> Request], NEW r \in Requests, NEW code \in Responses,
           Respond(r, code)
    PROVE  /\ request' \in [Requests -> Request]
           /\ \A q \in Requests : q # r => request'[q] = request[q]
           /\ request'[r].stage = "answered"
           /\ request'[r].published = request[r].published
           /\ request'[r].response = code
           /\ request'[r].heard = request[r].heard
  BY DEF Respond, Request, Stages

\* The steps of one request.
StepOf(r) ==
    \/ Deliver(r) \/ Handle(r) \/ Arrive(r)
    \/ HangUp(r) \/ ConnectRaises(r) \/ TimeOut(r) \/ Drop(r) \/ Crash(r)

(* Every step is one of one request. *)
LEMMA NextIsOneRequests ==
    [Next]_vars => UNCHANGED vars \/ \E r \in Requests : StepOf(r)
  BY DEF Next, Progress, StepOf

(* It leaves the other requests alone, and the topic, unless an event arrives. *)
LEMMA StepIsLocal ==
    ASSUME ProgressInv, NEW r \in Requests, StepOf(r)
    PROVE  /\ request' \in [Requests -> Request]
           /\ \A q \in Requests : q # r => request'[q] = request[q]
           /\ \A q \in Requests : q # r => (q \in buffered' <=> q \in buffered)
           /\ buffered' \subseteq Requests
           /\ UNCHANGED rawEvents \/ Arrive(r)
           /\ faults' \in Nat /\ faults' <= MaxFaults
           /\ faults' = faults \/ faults' = faults + 1
  <1>1. request \in [Requests -> Request]
    BY DEF ProgressInv, Types
  <1>2. /\ request' \in [Requests -> Request]
        /\ \A q \in Requests : q # r => request'[q] = request[q]
    <2>1. CASE Deliver(r) \/ Normalize(r) \/ Send(r) \/ Crash(r)
      <3>1. PICK s \in Stages : Move(r, s)
        BY <2>1 DEF Deliver, Normalize, Send, Crash, Stages
      <3>. QED  BY <1>1, <3>1, Moves
    <2>2. CASE Reject(r) \/ NormalizeRaises(r) \/ Accept(r) \/ ConnectRaises(r) \/ TimeOut(r)
                  \/ (Drop(r) /\ At(r, "waiting"))
      <3>1. PICK code \in Responses : Respond(r, code)
        BY <2>2 DEF Reject, NormalizeRaises, Accept, ConnectRaises, TimeOut, Drop, Responses
      <3>. QED  BY <1>1, <3>1, Responds
    <2>3. CASE Confirm(r) \/ HangUp(r)
      <3>1. PICK d \in Request : request' = [request EXCEPT ![r] = d]
        <4>1. CASE Confirm(r)
          <5>. DEFINE d == [request[r] EXCEPT !.stage = "sending",
                                              !.published = request[r].published + 1]
          <5>1. request' = [request EXCEPT ![r] = d]
            BY <4>1 DEF Confirm
          <5>2. request[r] \in Request /\ request[r].published + 1 \in Nat
            BY <1>1 DEF Request
          <5>3. d \in Request
            BY <5>2 DEF Request, Stages
          <5>. QED  BY <5>1, <5>3
        <4>2. CASE HangUp(r)
          <5>. DEFINE d == [request[r] EXCEPT !.heard = FALSE]
          <5>1. request' = [request EXCEPT ![r] = d]
            BY <4>2 DEF HangUp
          <5>2. d \in Request
            BY <1>1 DEF Request
          <5>. QED  BY <5>1, <5>2
        <4>. QED  BY <2>3, <4>1, <4>2
      <3>. QED  BY <1>1, <3>1
    <2>4. CASE Arrive(r) \/ (Drop(r) /\ ~At(r, "waiting"))
      BY <1>1, <2>4 DEF Arrive, Drop
    <2>. QED  BY <2>1, <2>2, <2>3, <2>4 DEF StepOf, Handle
  <1>3. /\ buffered \subseteq Requests
        /\ faults \in Nat /\ faults <= MaxFaults /\ MaxFaults \in Nat
    BY BoundAssumption DEF ProgressInv, Types
  <1>4. /\ buffered' \subseteq buffered \cup {r}
        /\ buffered \subseteq buffered' \cup {r}
    BY DEF StepOf, Handle, Deliver, Normalize, Send, Crash, Reject, NormalizeRaises, Accept,
       ConnectRaises, TimeOut, Drop, Confirm, HangUp, Arrive
  <1>5. UNCHANGED rawEvents \/ Arrive(r)
    BY DEF StepOf, Handle, Deliver, Normalize, Send, Crash, Reject, NormalizeRaises, Accept,
       ConnectRaises, TimeOut, Drop, Confirm, HangUp
  <1>6. faults' = faults \/ (faults < MaxFaults /\ faults' = faults + 1)
    BY DEF StepOf, Handle, Deliver, Normalize, Send, Crash, Reject, NormalizeRaises, Accept,
       ConnectRaises, TimeOut, Drop, Confirm, HangUp, Arrive, Fault
  <1>. QED  BY <1>2, <1>3, <1>4, <1>5, <1>6

(* The order on a topic that does not change. *)
LEMMA OrderStays ==
    ASSUME PublishedInOrder, UNCHANGED rawEvents
    PROVE  PublishedInOrder'
  <1>1. \A k \in DOMAIN rawEvents : InOrder(rawEvents, k)
    BY DEF PublishedInOrder, InOrder
  <1>2. \A k \in DOMAIN rawEvents' : InOrder(rawEvents', k)
    BY <1>1
  <1>. QED  BY <1>2 DEF PublishedInOrder, InOrder

(* An event arrives behind those before it. *)
LEMMA ArrivesInOrder ==
    ASSUME ProgressInv, NEW r \in Requests, Arrive(r)
    PROVE  /\ rawEvents' \in Seq(RawEvent)
           /\ PublishedInOrder'
           /\ \A n : n = request[r].published => HasSent(r, n + 1)'
           /\ \A q \in Requests : \A n : q # r /\ HasSent(q, n) => HasSent(q, n)'
  <1>0. PICK p, L : p = request[r].published /\ L = Len(rawEvents)
    OBVIOUS
  <1>1. /\ rawEvents \in Seq(RawEvent)
        /\ p \in Nat /\ p < Size(r) /\ HasSent(r, p)
        /\ Size(r) \in Nat /\ DOMAIN Changes[r[1]] = 1 .. Size(r)
        /\ rawEvents' = Append(rawEvents, Event(r, p + 1))
    BY <1>0, RequestTyped DEF ProgressInv, Types, Progressed, Request, Arrive
  <1>2. /\ L \in Nat /\ DOMAIN rawEvents = 1 .. L /\ DOMAIN rawEvents' = 1 .. L + 1
        /\ \A k \in 1 .. L : rawEvents'[k] = rawEvents[k]
        /\ rawEvents'[L + 1] = Event(r, p + 1)
        /\ rawEvents'[L + 1].event_id = <<r, p + 1>>
    BY <1>0, <1>1, EventIds
  <1>3. Event(r, p + 1) \in RawEvent
    BY <1>1 DEF RawEvent
  <1>4. PublishedInOrder'
    <2>1. ASSUME NEW k \in 1 .. L PROVE InOrder(rawEvents', k)
      <3>1. PICK q \in Requests : \E i \in DOMAIN Changes[q[1]] :
               /\ rawEvents[k] = Event(q, i)
               /\ \A j \in 1 .. k - 1 : rawEvents[j].event_id # <<q, i>>
               /\ \A n \in 1 .. i - 1 : \E j \in 1 .. k - 1 : rawEvents[j].event_id = <<q, n>>
        BY <1>2, <2>1 DEF ProgressInv, PublishedInOrder
      <3>2. \A j \in 1 .. k - 1 : rawEvents'[j] = rawEvents[j]
        BY <1>2, <2>1
      <3>. QED  BY <1>2, <2>1, <3>1, <3>2 DEF InOrder
    <2>2. InOrder(rawEvents', L + 1)
      <3>1. p + 1 \in DOMAIN Changes[r[1]] /\ p + 1 \in Nat /\ p + 1 \notin 1 .. p
        BY <1>1
      <3>2. \A j \in 1 .. L : rawEvents[j].event_id # <<r, p + 1>>
        BY <1>1, <1>2, <3>1 DEF HasSent
      <3>3. \A n \in 1 .. p : \E j \in 1 .. L : rawEvents[j].event_id = <<r, n>>
        <4>1. \A n \in 1 .. p : n \in Nat
          BY <1>1
        <4>. QED  BY <1>1, <1>2, <4>1 DEF HasSent
      <3>4. (L + 1) - 1 = L /\ (p + 1) - 1 = p
        BY <1>1, <1>2
      <3>5. /\ \A j \in 1 .. L : rawEvents'[j].event_id # <<r, p + 1>>
            /\ \A n \in 1 .. p : \E j \in 1 .. L : rawEvents'[j].event_id = <<r, n>>
        BY <1>2, <3>2, <3>3
      <3>. QED  BY <1>2, <3>1, <3>4, <3>5 DEF InOrder
    <2>3. \A k \in DOMAIN rawEvents' : k \in 1 .. L \/ k = L + 1
      BY <1>2
    <2>4. \A k \in DOMAIN rawEvents' : InOrder(rawEvents', k)
      BY <2>1, <2>2, <2>3
    <2>. QED  BY <2>4 DEF InOrder, PublishedInOrder
  <1>5. HasSent(r, p + 1)'
    <2>. SUFFICES ASSUME NEW i \in Nat
                  PROVE  (\E k \in 1 .. L + 1 : rawEvents'[k].event_id = <<r, i>>)
                            <=> i \in 1 .. p + 1
      BY <1>2 DEF HasSent
    <2>1. (\E k \in 1 .. L : rawEvents[k].event_id = <<r, i>>) <=> i \in 1 .. p
      BY <1>1, <1>2 DEF HasSent
    <2>2. (\E k \in 1 .. L + 1 : rawEvents'[k].event_id = <<r, i>>)
             <=> (\E k \in 1 .. L : rawEvents[k].event_id = <<r, i>>) \/ i = p + 1
      BY <1>2
    <2>3. i \in 1 .. p + 1 <=> i \in 1 .. p \/ i = p + 1
      BY <1>1
    <2>. QED  BY <2>1, <2>2, <2>3
  <1>6. ASSUME NEW q \in Requests, NEW n, q # r, HasSent(q, n)
        PROVE  HasSent(q, n)'
    <2>. SUFFICES ASSUME NEW i \in Nat
                  PROVE  (\E k \in 1 .. L + 1 : rawEvents'[k].event_id = <<q, i>>)
                            <=> i \in 1 .. n
      BY <1>2 DEF HasSent
    <2>1. (\E k \in 1 .. L : rawEvents[k].event_id = <<q, i>>) <=> i \in 1 .. n
      BY <1>2, <1>6 DEF HasSent
    <2>2. (\E k \in 1 .. L + 1 : rawEvents'[k].event_id = <<q, i>>)
             <=> (\E k \in 1 .. L : rawEvents[k].event_id = <<q, i>>)
      BY <1>2, <1>6
    <2>. QED  BY <2>1, <2>2
  <1>. QED  BY <1>0, <1>1, <1>2, <1>3, <1>4, <1>5, <1>6

(* What a step does with the request it belongs to. *)
LEMMA OwnProgress ==
    ASSUME ProgressInv, NEW r \in Requests, StepOf(r)
    PROVE  Progressed(r)'
  <1>0. PICK p : p = request[r].published
    OBVIOUS
  <1>1. /\ request \in [Requests -> Request]
        /\ buffered \subseteq Requests
        /\ p \in Nat /\ Size(r) \in Nat
        /\ Progressed(r)
    BY <1>0, RequestTyped DEF ProgressInv, Types, Request
  <1>2. request[r] \in Request
    BY <1>1
  <1>3. ASSUME NEW s \in Stages, Move(r, s)
        PROVE  /\ request'[r].stage = s
               /\ request'[r].published = p
               /\ request'[r].response = request[r].response
    BY <1>0, <1>1, <1>3, Moves
  <1>4. ASSUME NEW code \in Responses, Respond(r, code)
        PROVE  /\ request'[r].stage = "answered"
               /\ request'[r].published = p
               /\ request'[r].response = code
    BY <1>0, <1>1, <1>4, Responds
  <1>5. UNCHANGED rawEvents => \A n : HasSent(r, n)' <=> HasSent(r, n)
    BY DEF HasSent
  <1>. USE DEF At
  <1>6. CASE Deliver(r)
    <2>1. request'[r].stage = "received" /\ request'[r].published = p
          /\ request'[r].response = request[r].response
      BY <1>3, <1>6 DEF Deliver, Stages
    <2>. QED  BY <1>0, <1>1, <1>5, <1>6, <2>1 DEF Deliver, Progressed
  <1>7. CASE Normalize(r)
    <2>1. request'[r].stage = "sending" /\ request'[r].published = p
          /\ request'[r].response = request[r].response
      BY <1>3, <1>7 DEF Normalize, Stages
    <2>. QED  BY <1>0, <1>1, <1>5, <1>7, <2>1 DEF Normalize, Progressed
  <1>8. CASE Send(r)
    <2>1. request'[r].stage = "waiting" /\ request'[r].published = p
          /\ request'[r].response = request[r].response
      BY <1>3, <1>8 DEF Send, Stages
    <2>. QED  BY <1>0, <1>1, <1>5, <1>8, <2>1 DEF Send, Progressed, Size
  <1>9. CASE Crash(r)
    <2>1. request'[r].stage = "dead" /\ request'[r].published = p
          /\ request'[r].response = request[r].response
      BY <1>3, <1>9 DEF Crash, Stages
    <2>. QED  BY <1>0, <1>1, <1>5, <1>9, <2>1 DEF Crash, InProgress, Progressed
  <1>10. CASE Reject(r) \/ NormalizeRaises(r)
    <2>1. /\ request'[r].stage = "answered" /\ request'[r].published = p
          /\ request'[r].response \in {401, 500}
      BY <1>4, <1>10 DEF Reject, NormalizeRaises, Responses
    <2>. QED
      BY <1>0, <1>1, <1>5, <1>10, <2>1 DEF Reject, NormalizeRaises, Progressed
  <1>11. CASE ConnectRaises(r)
    <2>1. /\ request'[r].stage = "answered" /\ request'[r].published = p
          /\ request'[r].response = 500
      BY <1>4, <1>11 DEF ConnectRaises, Responses
    <2>. QED  BY <1>0, <1>1, <1>5, <1>11, <2>1 DEF ConnectRaises, Progressed
  <1>12. CASE Accept(r)
    <2>1. /\ request'[r].stage = "answered" /\ request'[r].published = p
          /\ request'[r].response = 202
      BY <1>4, <1>12 DEF Accept, Responses
    <2>. QED  BY <1>0, <1>1, <1>5, <1>12, <2>1 DEF Accept, Progressed, Size
  <1>13. CASE TimeOut(r)
    <2>1. /\ request'[r].stage = "answered" /\ request'[r].published = p
          /\ request'[r].response = 503
      BY <1>4, <1>13 DEF TimeOut, Responses
    <2>. QED  BY <1>0, <1>1, <1>5, <1>13, <2>1 DEF TimeOut, Progressed
  <1>14. CASE Drop(r)
    <2>1. CASE At(r, "waiting")
      <3>1. /\ request'[r].stage = "answered" /\ request'[r].published = p
            /\ request'[r].response = 503
        BY <1>4, <1>14, <2>1 DEF Drop, Responses
      <3>. QED  BY <1>0, <1>1, <1>5, <1>14, <2>1, <3>1 DEF Drop, Progressed
    <2>2. CASE ~At(r, "waiting")
      BY <1>0, <1>1, <1>5, <1>14, <2>2 DEF Drop, Progressed
    <2>. QED  BY <2>1, <2>2
  <1>15. CASE Confirm(r)
    <2>1. /\ request'[r].stage = "sending" /\ request'[r].published = p + 1
          /\ request'[r].response = request[r].response
      BY <1>0, <1>1, <1>2, <1>15 DEF Confirm, Request
    <2>2. p + 1 \in Nat /\ p < Size(r) /\ HasSent(r, p + 1) /\ UNCHANGED rawEvents
      BY <1>0, <1>1, <1>15 DEF Confirm, Progressed
    <2>3. HasSent(r, p + 1)' /\ p + 1 <= Size(r) /\ p + 1 # 0
      BY <1>1, <1>5, <2>2
    <2>. QED  BY <1>1, <1>15, <2>1, <2>3 DEF Confirm, Progressed
  <1>16. CASE HangUp(r)
    <2>1. /\ request'[r].stage = request[r].stage /\ request'[r].published = p
          /\ request'[r].response = request[r].response
      BY <1>0, <1>1, <1>2, <1>16 DEF HangUp, Request
    <2>. QED  BY <1>0, <1>1, <1>5, <1>16, <2>1 DEF HangUp, Progressed
  <1>17. CASE Arrive(r)
    <2>1. HasSent(r, p + 1)'
      BY <1>0, <1>17, ArrivesInOrder
    <2>. QED  BY <1>0, <1>1, <1>17, <2>1 DEF Arrive, Progressed
  <1>. QED
    BY <1>6, <1>7, <1>8, <1>9, <1>10, <1>11, <1>12, <1>13, <1>14, <1>15, <1>16, <1>17
    DEF StepOf, Handle

(* Every request's progress, and the order of what it published, are kept. *)
LEMMA ProgressInductive ==
    (Init => ProgressInv) /\ (ProgressInv /\ [Next]_vars => ProgressInv')
  <1>1. ASSUME Init PROVE ProgressInv
    <2>1. request \in [Requests -> Request] /\ \A r \in Requests : request[r] = Unsent
      BY <1>1 DEF Init, Unsent, Request, Stages, Responses
    <2>2. Types
      BY <1>1, <2>1, BoundAssumption DEF Init, Types
    <2>3. rawEvents = <<>> /\ DOMAIN rawEvents = {} /\ buffered = {}
      BY <1>1 DEF Init
    <2>4. \A r \in Requests : HasSent(r, 0)
      BY <2>3 DEF HasSent
    <2>5. \A r \in Requests : Progressed(r)
      BY <2>1, <2>3, <2>4, RequestTyped DEF Progressed, Unsent, At
    <2>. QED  BY <2>2, <2>3, <2>5 DEF ProgressInv, PublishedInOrder
  <1>2. ASSUME ProgressInv, UNCHANGED vars PROVE ProgressInv'
    <2>1. PublishedInOrder'
      BY <1>2, OrderStays DEF vars, ProgressInv
    <2>2. \A r \in Requests : \A n : HasSent(r, n)' <=> HasSent(r, n)
      BY <1>2 DEF vars, HasSent
    <2>3. \A r \in Requests : Progressed(r)'
      BY <1>2, <2>2 DEF vars, ProgressInv, Progressed, At
    <2>. QED  BY <1>2, <2>1, <2>3 DEF vars, ProgressInv, Types
  <1>3. ASSUME ProgressInv, NEW r \in Requests, StepOf(r) PROVE ProgressInv'
    <2>1. /\ request' \in [Requests -> Request]
          /\ \A q \in Requests : q # r => request'[q] = request[q]
          /\ \A q \in Requests : q # r => (q \in buffered' <=> q \in buffered)
          /\ buffered' \subseteq Requests
          /\ UNCHANGED rawEvents \/ Arrive(r)
          /\ faults' \in Nat /\ faults' <= MaxFaults
      BY <1>3, StepIsLocal
    <2>2. rawEvents' \in Seq(RawEvent) /\ PublishedInOrder'
      <3>1. CASE UNCHANGED rawEvents
        <4>1. PublishedInOrder'
          BY <1>3, <3>1, OrderStays DEF ProgressInv
        <4>. QED  BY <1>3, <3>1, <4>1 DEF ProgressInv, Types
      <3>2. CASE Arrive(r)
        BY <1>3, <3>2, ArrivesInOrder
      <3>. QED  BY <2>1, <3>1, <3>2
    <2>3. Progressed(r)'
      BY <1>3, OwnProgress
    <2>4. ASSUME NEW q \in Requests, q # r PROVE Progressed(q)'
      <3>1. \A n : HasSent(q, n) => HasSent(q, n)'
        <4>1. CASE UNCHANGED rawEvents
          BY <4>1 DEF HasSent
        <4>2. CASE Arrive(r)
          BY <1>3, <2>4, <4>2, ArrivesInOrder
        <4>. QED  BY <2>1, <4>1, <4>2
      <3>2. Progressed(q) /\ request'[q] = request[q] /\ (q \in buffered' <=> q \in buffered)
        BY <1>3, <2>1, <2>4 DEF ProgressInv
      <3>. QED  BY <3>1, <3>2 DEF Progressed, At
    <2>. QED  BY <2>1, <2>2, <2>3, <2>4 DEF ProgressInv, Types
  <1>. QED  BY <1>1, <1>2, <1>3, NextIsOneRequests

(* The variables of webhook-service keep their types, and published_count never
   exceeds the number of a payload's events. *)
THEOREM WebhookTypeCorrect == Spec => []TypeOK
  <1>1. ProgressInv => TypeOK
    <2>. SUFFICES ASSUME ProgressInv PROVE TypeOK
      OBVIOUS
    <2>1. ASSUME NEW r \in Requests
          PROVE  request[r] \in [stage : Stages, published : 0 .. Len(Changes[r[1]]),
                                 response : Responses, heard : BOOLEAN]
      <3>1. request[r] \in Request /\ request[r].published <= Size(r) /\ Size(r) \in Nat
        BY RequestTyped DEF ProgressInv, Types, Progressed
      <3>2. request[r].published \in 0 .. Size(r)
        BY <3>1 DEF Request
      <3>. QED  BY <3>1, <3>2 DEF Request, Size
    <2>2. faults \in 0 .. MaxFaults
      BY BoundAssumption DEF ProgressInv, Types
    <2>. QED  BY <2>1, <2>2 DEF ProgressInv, Types, Progressed, TypeOK
  <1>. QED  BY <1>1, ProgressInductive, PTL DEF Spec

(* Wherever publish() fails, and however late an event arrives: what one
   delivery puts on the topic is a beginning of its payload, in order. *)
THEOREM DeliveriesStayInOrder == Spec => []PublishedInOrder
  <1>1. ProgressInv => PublishedInOrder
    BY DEF ProgressInv
  <1>. QED  BY <1>1, ProgressInductive, PTL DEF Spec

(* A delivery that is answered with 202 has its payload on the topic in full. *)
THEOREM AcceptedPayloadsAreOut == Spec => []AcceptedIsPublished
  <1>1. ProgressInv => AcceptedIsPublished
    <2>. SUFFICES ASSUME ProgressInv, NEW r \in Requests, request[r].response = 202,
                         NEW i \in DOMAIN Changes[r[1]]
                  PROVE  \E k \in DOMAIN rawEvents : rawEvents[k] = Event(r, i)
      BY DEF AcceptedIsPublished
    <2>1. HasSent(r, Size(r)) /\ i \in 1 .. Size(r) /\ i \in Nat
      BY RequestTyped DEF ProgressInv, Progressed
    <2>2. PICK k \in DOMAIN rawEvents : rawEvents[k].event_id = <<r, i>>
      BY <2>1 DEF HasSent
    <2>3. PICK q \in Requests : \E j : rawEvents[k] = Event(q, j)
      BY DEF ProgressInv, PublishedInOrder
    <2>. QED  BY <2>2, <2>3, EventIds
  <1>. QED  BY <1>1, ProgressInductive, PTL DEF Spec

-----------------------------------------------------------------------------
(* What copies cost *)

\* A fault was paid for the delivery: Facebook has stopped listening, or the
\* handler died, or did not hear of an event.
Paid(r) == ~request[r].heard \/ At(r, "dead") \/ request[r].response = 503

\* It is over, and left nothing behind.
Silent(r) == At(r, "answered") /\ r \notin buffered /\ HasSent(r, 0)

CopiesInv ==
    /\ IsFiniteSet({r \in Requests : Paid(r)})
    /\ Cardinality({r \in Requests : Paid(r)}) <= faults
    /\ \A r \in Requests : ~At(r, "none") =>
          \A n \in 1 .. r[2] - 1 : Paid(<<r[1], n>>) \/ Silent(<<r[1], n>>)

(* What was paid stays paid, and each step pays for one delivery at most. *)
LEMMA StepsPay ==
    ASSUME ProgressInv, NEW r \in Requests, StepOf(r)
    PROVE  /\ \A q \in Requests : Paid(q) => Paid(q)'
           /\ \A q \in Requests : q # r => (Paid(q)' <=> Paid(q))
           /\ Paid(r)' /\ ~Paid(r) => faults' = faults + 1
  <1>1. /\ request \in [Requests -> Request]
        /\ request[r].response = 0 <=> ~At(r, "answered")
        /\ r \in buffered => At(r, "waiting") \/ At(r, "answered")
    BY DEF ProgressInv, Types, Progressed
  <1>2. \A q \in Requests : q # r => request'[q] = request[q]
    BY StepIsLocal
  <1>3. \A q \in Requests : q # r => (Paid(q)' <=> Paid(q))
    BY <1>2 DEF Paid, At
  <1>4. (Paid(r) => Paid(r)') /\ (Paid(r)' /\ ~Paid(r) => faults' = faults + 1)
    <2>1. CASE Deliver(r) \/ Normalize(r) \/ Send(r)
      <3>1. PICK s \in Stages : Move(r, s)
        BY <2>1 DEF Deliver, Normalize, Send, Stages
      <3>2. s # "dead" /\ ~At(r, "dead")
        <4>1. request'[r].stage = s
          BY <1>1, <3>1, Moves
        <4>. QED
          BY <1>1, <2>1, <4>1 DEF Deliver, Normalize, Send, Move, At, Request
      <3>. QED  BY <1>1, <3>1, <3>2, Moves DEF Paid, At
    <2>2. CASE Crash(r) \/ TimeOut(r) \/ HangUp(r)
      <3>1. Paid(r)'
        <4>1. CASE Crash(r)
          BY <1>1, <4>1, Moves DEF Crash, Paid, At, Stages
        <4>2. CASE TimeOut(r)
          BY <1>1, <4>2, Responds DEF TimeOut, Paid, Responses
        <4>3. CASE HangUp(r)
          BY <1>1, <4>3 DEF HangUp, Paid, Request
        <4>. QED  BY <2>2, <4>1, <4>2, <4>3
      <3>2. faults' = faults + 1
        BY <2>2 DEF Crash, TimeOut, HangUp, Fault
      <3>. QED  BY <3>1, <3>2
    <2>3. CASE Reject(r) \/ NormalizeRaises(r) \/ Accept(r) \/ ConnectRaises(r)
      <3>1. PICK code \in {202, 401, 500} : Respond(r, code)
        BY <2>3 DEF Reject, NormalizeRaises, Accept, ConnectRaises
      <3>2. ~At(r, "dead") /\ request[r].response = 0
        BY <1>1, <2>3 DEF Reject, NormalizeRaises, Accept, ConnectRaises, At
      <3>. QED  BY <1>1, <3>1, <3>2, Responds DEF Paid, At, Responses
    <2>4. CASE Drop(r)
      <3>1. CASE At(r, "waiting")
        <4>1. Paid(r)' /\ faults' = faults + 1
          BY <1>1, <2>4, <3>1, Responds DEF Drop, Paid, Fault, Responses
        <4>. QED  BY <4>1
      <3>2. CASE ~At(r, "waiting")
        BY <2>4, <3>2 DEF Drop, Paid, At
      <3>. QED  BY <3>1, <3>2
    <2>5. CASE Confirm(r)
      <3>1. /\ request'[r].heard = request[r].heard
            /\ request'[r].response = request[r].response
            /\ request'[r].stage = "sending" /\ request[r].stage = "waiting"
        BY <1>1, <2>5 DEF Confirm, Request, At
      <3>. QED  BY <3>1 DEF Paid, At
    <2>6. CASE Arrive(r)
      BY <2>6 DEF Arrive, Paid, At
    <2>. QED  BY <2>1, <2>2, <2>3, <2>4, <2>5, <2>6 DEF StepOf, Handle
  <1>. QED  BY <1>3, <1>4

(* A delivery that is over, and left nothing behind, stays so. *)
LEMMA SilentStays ==
    ASSUME ProgressInv, NEW r \in Requests, StepOf(r), NEW q \in Requests, Silent(q)
    PROVE  Silent(q)'
  <1>1. q # r
    <2>1. At(q, "answered") /\ q \notin buffered
      BY DEF Silent
    <2>. QED
      BY <2>1 DEF StepOf, Handle, Deliver, Normalize, Send, Crash, Reject, NormalizeRaises,
         Accept, ConnectRaises, TimeOut, Drop, Confirm, HangUp, Arrive, InProgress, At
  <1>2. request'[q] = request[q] /\ (q \in buffered' <=> q \in buffered)
        /\ (UNCHANGED rawEvents \/ Arrive(r))
    BY <1>1, StepIsLocal
  <1>3. HasSent(q, 0)'
    <2>1. CASE UNCHANGED rawEvents
      BY <2>1 DEF Silent, HasSent
    <2>2. CASE Arrive(r)
      BY <1>1, <2>2, ArrivesInOrder DEF Silent
    <2>. QED  BY <1>2, <2>1, <2>2
  <1>. QED  BY <1>2, <1>3 DEF Silent, At

(* When Facebook delivers again, the deliveries before were paid for, or left
   nothing behind. *)
LEMMA DeliveredAgain ==
    ASSUME ProgressInv, NEW r \in Requests, Deliver(r), NEW n \in 1 .. r[2] - 1
    PROVE  Paid(<<r[1], n>>) \/ Silent(<<r[1], n>>)
  <1>1. PICK q \in Requests : q = <<r[1], n>>
    <2>1. n \in 1 .. r[2]
      BY RequestTyped
    <2>. QED  BY <2>1, RequestTyped
  <1>2. /\ ~At(q, "none") /\ ~Accepted(q)
        /\ InProgress(q) => ~request[q].heard
    BY <1>1 DEF Deliver
  <1>3. /\ request[q] \in Request
        /\ request[q].response = 0 <=> ~At(q, "answered")
        /\ request[q].response \in {401, 500} => q \notin buffered /\ HasSent(q, 0)
    BY DEF ProgressInv, Types, Progressed
  <1>. QED
    BY <1>1, <1>2, <1>3 DEF Accepted, InProgress, Paid, Silent, At, Request, Stages, Responses

(* Every step keeps the account. *)
LEMMA CopiesInvInductive ==
    (Init => CopiesInv) /\ (ProgressInv /\ CopiesInv /\ [Next]_vars => CopiesInv')
  <1>1. ASSUME Init PROVE CopiesInv
    <2>1. \A r \in Requests : request[r] = Unsent
      BY <1>1 DEF Init
    <2>2. {r \in Requests : Paid(r)} = {} /\ \A r \in Requests : At(r, "none")
      BY <2>1 DEF Paid, Unsent, At
    <2>3. IsFiniteSet({r \in Requests : Paid(r)}) /\ Cardinality({r \in Requests : Paid(r)}) = 0
      BY <2>2, FS_EmptySet
    <2>4. faults = 0
      BY <1>1 DEF Init
    <2>. QED  BY <2>2, <2>3, <2>4 DEF CopiesInv
  <1>2. ASSUME CopiesInv, UNCHANGED vars PROVE CopiesInv'
    <2>1. \A r : (Paid(r)' <=> Paid(r)) /\ (Silent(r)' <=> Silent(r)) /\ (At(r, "none")' <=> At(r, "none"))
      BY <1>2 DEF vars, Paid, Silent, HasSent, At
    <2>2. {r \in Requests : Paid(r)}' = {r \in Requests : Paid(r)} /\ faults' = faults
      BY <1>2, <2>1 DEF vars
    <2>. QED  BY <1>2, <2>1, <2>2 DEF CopiesInv
  <1>3. ASSUME ProgressInv, CopiesInv, NEW r \in Requests, StepOf(r) PROVE CopiesInv'
    <2>. DEFINE P == {q \in Requests : Paid(q)}
    <2>1. /\ \A q \in Requests : Paid(q) => Paid(q)'
          /\ \A q \in Requests : q # r => (Paid(q)' <=> Paid(q))
          /\ Paid(r)' /\ ~Paid(r) => faults' = faults + 1
      BY <1>3, StepsPay
    <2>2. /\ IsFiniteSet(P) /\ Cardinality(P) <= faults /\ Cardinality(P) \in Nat
          /\ faults \in Nat /\ (faults' = faults \/ faults' = faults + 1)
      BY <1>3, StepIsLocal, FS_CardinalityType DEF CopiesInv, ProgressInv, Types
    <2>3. IsFiniteSet(P') /\ Cardinality(P') <= faults'
      <3>1. CASE Paid(r)' /\ ~Paid(r)
        <4>1. P' = P \cup {r} /\ r \notin P
          BY <2>1, <3>1
        <4>2. IsFiniteSet(P \cup {r}) /\ Cardinality(P \cup {r}) = Cardinality(P) + 1
          BY <2>2, <4>1, FS_AddElement
        <4>. QED  BY <2>1, <2>2, <3>1, <4>1, <4>2
      <3>2. CASE ~(Paid(r)' /\ ~Paid(r))
        <4>1. P' = P
          BY <2>1, <3>2
        <4>. QED  BY <2>2, <4>1
      <3>. QED  BY <3>1, <3>2
    <2>4. ASSUME NEW s \in Requests, ~At(s, "none")', NEW n \in 1 .. s[2] - 1
          PROVE  Paid(<<s[1], n>>)' \/ Silent(<<s[1], n>>)'
      <3>1. PICK q \in Requests : q = <<s[1], n>>
        <4>1. n \in 1 .. s[2]
          BY RequestTyped
        <4>. QED  BY <4>1, RequestTyped
      <3>2. Paid(q) \/ Silent(q)
        <4>1. CASE At(s, "none")
          <5>1. Deliver(s)
            <6>1. s = r
              BY <1>3, <2>4, <4>1, StepIsLocal DEF At
            <6>2. r \notin buffered
              BY <1>3, <4>1, <6>1 DEF ProgressInv, Progressed, At
            <6>. QED
              BY <1>3, <4>1, <6>1, <6>2
              DEF StepOf, Handle, Normalize, Send, Crash, Reject, NormalizeRaises, Accept,
                  ConnectRaises, TimeOut, Drop, Confirm, HangUp, Arrive, InProgress, At
          <5>. QED  BY <1>3, <2>4, <3>1, <5>1, DeliveredAgain
        <4>2. CASE ~At(s, "none")
          BY <1>3, <2>4, <3>1, <4>2 DEF CopiesInv
        <4>. QED  BY <4>1, <4>2
      <3>3. Paid(q)' \/ Silent(q)'
        BY <1>3, <2>1, <3>2, SilentStays
      <3>. QED  BY <3>1, <3>3
    <2>. QED  BY <2>3, <2>4 DEF CopiesInv
  <1>. QED  BY <1>1, <1>2, <1>3, NextIsOneRequests

(* Two copies of a change come from different deliveries, and only the last
   of them may not have been paid for. *)
LEMMA CopiesArePaid ==
    ASSUME ProgressInv, CopiesInv, NEW p \in Payloads, NEW i \in DOMAIN Changes[p],
           NEW k \in Copies(p, i), NEW l \in Copies(p, i), k # l
    PROVE  /\ rawEvents[k].event_id[1] \in Requests
           /\ rawEvents[k].event_id[1] # rawEvents[l].event_id[1]
           /\ rawEvents[k].event_id[1][2] < rawEvents[l].event_id[1][2] =>
                 Paid(rawEvents[k].event_id[1])
  <1>1. /\ k \in DOMAIN rawEvents /\ l \in DOMAIN rawEvents
        /\ k \in Nat /\ l \in Nat /\ k > 0 /\ l > 0
        /\ rawEvents[k].event_id[1][1] = p /\ rawEvents[k].event_id[2] = i
        /\ rawEvents[l].event_id[1][1] = p /\ rawEvents[l].event_id[2] = i
    BY DEF Copies, ProgressInv, Types
  <1>2. ASSUME NEW m \in DOMAIN rawEvents, rawEvents[m].event_id[2] = i
        PROVE  \E q \in Requests :
                  /\ rawEvents[m].event_id = <<q, i>>
                  /\ \A j \in 1 .. m - 1 : rawEvents[j].event_id # <<q, i>>
    <2>1. PICK q \in Requests : \E h :
             /\ rawEvents[m] = Event(q, h)
             /\ \A j \in 1 .. m - 1 : rawEvents[j].event_id # <<q, h>>
      BY DEF ProgressInv, PublishedInOrder
    <2>2. PICK h : /\ rawEvents[m] = Event(q, h)
                   /\ \A j \in 1 .. m - 1 : rawEvents[j].event_id # <<q, h>>
      BY <2>1
    <2>3. h = i
      BY <1>2, <2>2, EventIds
    <2>. QED  BY <2>2, <2>3, EventIds
  <1>3. PICK q \in Requests : /\ rawEvents[k].event_id = <<q, i>>
                              /\ \A j \in 1 .. k - 1 : rawEvents[j].event_id # <<q, i>>
    BY <1>1, <1>2
  <1>4. PICK r \in Requests : /\ rawEvents[l].event_id = <<r, i>>
                              /\ \A j \in 1 .. l - 1 : rawEvents[j].event_id # <<r, i>>
    BY <1>1, <1>2
  <1>5. q # r
    <2>1. k \in 1 .. l - 1 \/ l \in 1 .. k - 1
      BY <1>1
    <2>. QED  BY <1>3, <1>4, <2>1
  <1>6. ASSUME q[2] < r[2] PROVE Paid(q)
    <2>1. q = <<r[1], q[2]>> /\ q[2] \in 1 .. r[2] - 1
      BY <1>1, <1>3, <1>4, <1>6, RequestTyped
    <2>2. i \in Nat /\ i \notin 1 .. 0
      <3>1. DOMAIN Changes[q[1]] = 1 .. Size(q) /\ q[1] = p /\ Size(q) \in Nat
        BY <1>1, <1>3, RequestTyped
      <3>. QED  BY <3>1
    <2>3. ~HasSent(q, 0) /\ ~HasSent(r, 0)
      BY <1>1, <1>3, <1>4, <2>2 DEF HasSent
    <2>4. ~At(r, "none")
      BY <2>3 DEF ProgressInv, Progressed
    <2>. QED  BY <2>1, <2>3, <2>4 DEF CopiesInv, Silent
  <1>. QED  BY <1>3, <1>4, <1>5, <1>6

(* However often Facebook delivers, and is refused: a change gets on the topic
   more than once only by faults, one for each further copy. *)
THEOREM FaultsCostACopyEach == Spec => []CopiesBounded
  <1>1. ProgressInv /\ CopiesInv => CopiesBounded
    <2>. SUFFICES ASSUME ProgressInv, CopiesInv, NEW p \in Payloads, NEW i \in DOMAIN Changes[p]
                  PROVE  Cardinality(Copies(p, i)) <= 1 + faults
      BY DEF CopiesBounded
    <2>. DEFINE P == {r \in Requests : Paid(r)}
                C == Copies(p, i)
                Of(k) == rawEvents[k].event_id[1]
    <2>1. /\ IsFiniteSet(P) /\ Cardinality(P) <= faults /\ faults \in Nat
          /\ Cardinality(P) \in Nat
      BY FS_CardinalityType DEF CopiesInv, ProgressInv, Types
    <2>2. \A k, l \in C : k # l => /\ Of(k) \in Requests /\ Of(k) # Of(l)
                                   /\ Of(k)[2] < Of(l)[2] => Of(k) \in P
      BY CopiesArePaid
    <2>3. \A k \in C : Of(k) \in Requests /\ Of(k)[1] = p
      <3>1. \A k \in C : k \in DOMAIN rawEvents /\ Of(k)[1] = p
        BY DEF Copies
      <3>2. \A k \in DOMAIN rawEvents : Of(k) \in Requests
        BY EventIds DEF ProgressInv, PublishedInOrder
      <3>. QED  BY <3>1, <3>2
    <2>4. \A k, l \in C : k # l => Of(k)[2] # Of(l)[2]
      BY <2>2, <2>3, RequestTyped
    <2>. DEFINE U == {k \in C : Of(k) \notin P}
    <2>5. \A k, l \in U : k = l
      <3>1. \A k \in C : Of(k)[2] \in Nat
        BY <2>3, RequestTyped
      <3>. QED  BY <2>2, <2>4, <3>1
    <2>6. IsFiniteSet(C \ U) /\ Cardinality(C \ U) <= Cardinality(P)
      <3>. DEFINE f == [k \in C \ U |-> Of(k)]
      <3>1. f \in Injection(C \ U, P)
        <4>1. \A k \in C \ U : Of(k) \in P
          OBVIOUS
        <4>2. \A k, l \in C \ U : Of(k) = Of(l) => k = l
          BY <2>2
        <4>. QED  BY <4>1, <4>2 DEF Injection, IsInjective
      <3>. QED  BY <2>1, <3>1, FS_Injection
    <2>7. Cardinality(C \ U) \in Nat
      BY <2>6, FS_CardinalityType
    <2>8. C = C \ U \/ \E k : C = (C \ U) \cup {k}
      BY <2>5
    <2>9. Cardinality(C) <= Cardinality(C \ U) + 1
      <3>1. PICK n \in Nat : n = Cardinality(C \ U)
        BY <2>7
      <3>2. CASE C = C \ U
        <4>1. Cardinality(C) = n
          BY <3>1, <3>2
        <4>. QED  BY <3>1, <4>1
      <3>3. ASSUME NEW k, C = (C \ U) \cup {k} PROVE Cardinality(C) \in {n, n + 1}
        <4>1. Cardinality((C \ U) \cup {k}) = IF k \in C \ U THEN n ELSE n + 1
          BY <2>6, <3>1, FS_AddElement
        <4>2. Cardinality((C \ U) \cup {k}) \in {n, n + 1}
          BY <4>1
        <4>. HIDE DEF C, U
        <4>. QED  BY <3>3, <4>2
      <3>4. Cardinality(C) \in {n, n + 1}
        BY <2>8, <3>1, <3>2, <3>3
      <3>5. \A c \in {n, n + 1} : c <= n + 1
        OBVIOUS
      <3>. QED  BY <3>1, <3>4, <3>5
    <2>10. Cardinality(C) \in Nat
      <3>1. IsFiniteSet(C)
        <4>1. ASSUME NEW k, C = (C \ U) \cup {k} PROVE IsFiniteSet(C)
          <5>1. IsFiniteSet((C \ U) \cup {k})
            BY <2>6, FS_AddElement
          <5>. QED  BY <4>1, <5>1
        <4>. QED  BY <2>6, <2>8, <4>1
      <3>. QED  BY <3>1, FS_CardinalityType
    <2>11. ASSUME NEW c \in Nat, NEW u \in Nat, NEW q \in Nat, NEW n \in Nat,
                  c <= u + 1, u <= q, q <= n
           PROVE  c <= 1 + n
      BY <2>11
    <2>. QED  BY <2>1, <2>6, <2>7, <2>9, <2>10, <2>11
  <1>. QED  BY <1>1, ProgressInductive, CopiesInvInductive, PTL DEF Spec
=============================================================================
