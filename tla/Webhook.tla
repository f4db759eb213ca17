------------------------------ MODULE Webhook ------------------------------
(***************************************************************************)
(* webhook-service between Facebook and raw_events: a POST is verified,    *)
(* its payload normalized as a whole, and its events are published one by  *)
(* one, each waited for.  Facebook delivers a payload again until it hears *)
(* a 2xx.  Every request has a producer of its own; an event whose send    *)
(* timed out stays in that producer's buffer and may still arrive.         *)
(*                                                                         *)
(* Facebook, the network and the broker are modelled from what the service *)
(* expects of them.                                                        *)
(***************************************************************************)
EXTENDS Naturals, Sequences, SequencesExt, FiniteSets

CONSTANTS
    Payloads,        \* what Facebook posts
    Signed,          \* the payloads with a valid signature
    Entries,         \* of each payload, its entries
    Malformed,       \* changes the normalizer cannot read, as value: null
    Deliveries,      \* bound: how often Facebook posts each payload
    MaxFaults        \* bound: faults of a behaviour

\* An entry carries changes of the feed and messages.
ASSUME PayloadAssumption ==
    /\ Signed \subseteq Payloads
    /\ DOMAIN Entries = Payloads
    /\ \A p \in Payloads : \A k \in DOMAIN Entries[p] :
           DOMAIN Entries[p][k] = {"changes", "messaging"}

ASSUME BoundAssumption == Deliveries \in [Payloads -> Nat] /\ MaxFaults \in Nat

\* The deliveries of each payload.
Requests == UNION {{p} \X (1 .. Deliveries[p]) : p \in Payloads}

VARIABLES
    request,     \* stage, confirmed events, response and listener of each
    buffered,    \* requests with an event in their producer's buffer
    rawEvents,   \* the topic
    faults       \* faults so far

vars == <<request, buffered, rawEvents, faults>>

Stages == {"none", "received", "sending", "waiting", "answered", "dead"}

Responses == {0, 202, 401, 500, 503}   \* 0: none yet

Unsent == [stage |-> "none", published |-> 0, response |-> 0, heard |-> TRUE]

Init ==
    /\ request = [r \in Requests |-> Unsent]
    /\ buffered = {}
    /\ rawEvents = <<>>
    /\ faults = 0

At(r, stage) == request[r].stage = stage

InProgress(r) == request[r].stage \in {"received", "sending", "waiting"}

\* The changes of a payload in the order of their events.
Changes ==
    [p \in Payloads |->
        FlattenSeq([k \in DOMAIN Entries[p] |->
                        Entries[p][k].changes \o Entries[p][k].messaging])]

\* FlattenSeq is defined by recursion: of its result, that it is a sequence.
ASSUME ChangesAssumption == \A p \in Payloads : Changes[p] \in Seq(Range(Changes[p]))

Readable == {p \in Payloads : Range(Changes[p]) \cap Malformed = {}}

\* Every delivery gives its events ids of their own: uuid4.
Event(r, i) == [event_id |-> <<r, i>>, change |-> Changes[r[1]][i]]

Move(r, stage) == request' = [request EXCEPT ![r].stage = stage]

\* The answer reaches Facebook if it is still listening.
Respond(r, code) ==
    request' = [request EXCEPT ![r].stage = "answered", ![r].response = code]

Fault == faults < MaxFaults /\ faults' = faults + 1

-----------------------------------------------------------------------------
(* Facebook *)

Accepted(r) == At(r, "answered") /\ request[r].response = 202 /\ request[r].heard

\* Not delivered yet, or it came to nothing: no answer is awaited any more,
\* and none was a 2xx.
Deliver(r) ==
    /\ At(r, "none")
    /\ \A n \in 1 .. r[2] - 1 :
           LET earlier == <<r[1], n>>
           IN  ~At(earlier, "none") /\ ~Accepted(earlier)
               /\ (InProgress(earlier) => ~request[earlier].heard)
    /\ Move(r, "received")
    /\ UNCHANGED <<buffered, rawEvents, faults>>

\* Facebook stops waiting, while the handler goes on.
HangUp(r) ==
    /\ InProgress(r) /\ request[r].heard
    /\ Fault
    /\ request' = [request EXCEPT ![r].heard = FALSE]
    /\ UNCHANGED <<buffered, rawEvents>>

-----------------------------------------------------------------------------
(* FacebookWebhookAPIView.post *)

Reject(r) ==
    /\ At(r, "received") /\ r[1] \notin Signed
    /\ Respond(r, 401)
    /\ UNCHANGED <<buffered, rawEvents, faults>>

\* Mutant of NormalizeRaises: each change is published as it is read.
NormalizeWhilePublishing(r) ==
    /\ At(r, "received") /\ r[1] \in Signed /\ r[1] \notin Readable
    /\ rawEvents' = rawEvents \o
           [i \in 1 .. SelectInSeq(Changes[r[1]], LAMBDA c : c \in Malformed) - 1
                |-> Event(r, i)]
    /\ Respond(r, 500)
    /\ UNCHANGED <<buffered, faults>>

\* normalize() raises: nothing was published yet.
NormalizeRaises(r) ==
    /\ At(r, "received") /\ r[1] \in Signed /\ r[1] \notin Readable
    /\ Respond(r, 500)
    /\ UNCHANGED <<buffered, rawEvents, faults>>

Normalize(r) ==
    /\ At(r, "received") /\ r[1] \in Signed /\ r[1] \in Readable
    /\ Move(r, "sending")
    /\ UNCHANGED <<buffered, rawEvents, faults>>

\* Mutant of ConnectRaises: the error is taken for nothing to publish.
ConnectSwallowed(r) ==
    /\ At(r, "sending") /\ request[r].published = 0 /\ Changes[r[1]] # <<>>
    /\ Fault
    /\ Respond(r, 202)
    /\ UNCHANGED <<buffered, rawEvents>>

\* Making the producer is no part of publish()'s try. Without events, none is
\* made.
ConnectRaises(r) ==
    /\ At(r, "sending") /\ request[r].published = 0 /\ Changes[r[1]] # <<>>
    /\ Fault
    /\ Respond(r, 500)
    /\ UNCHANGED <<buffered, rawEvents>>

Send(r) ==
    /\ At(r, "sending") /\ request[r].published < Len(Changes[r[1]])
    /\ Move(r, "waiting")
    /\ buffered' = buffered \cup {r}
    /\ UNCHANGED <<rawEvents, faults>>

\* future.get() returns.
Confirm(r) ==
    /\ At(r, "waiting") /\ r \notin buffered
    /\ request' = [request EXCEPT ![r].stage = "sending", ![r].published = @ + 1]
    /\ UNCHANGED <<buffered, rawEvents, faults>>

\* Mutant of TimeOut: the error is logged, and what was sent is reported.
TimeOutAccepted(r) ==
    /\ At(r, "waiting")
    /\ Fault
    /\ Respond(r, 202)
    /\ UNCHANGED <<buffered, rawEvents>>

\* Mutant of TimeOut: the event is sent once more.
TimeOutResent(r) ==
    /\ At(r, "waiting")
    /\ Fault
    /\ Move(r, "sending")
    /\ UNCHANGED <<buffered, rawEvents>>

\* future.get() raises, whether or not the event has arrived.
TimeOut(r) ==
    /\ At(r, "waiting")
    /\ Fault
    /\ Respond(r, 503)
    /\ UNCHANGED <<buffered, rawEvents>>

\* Mutant of Accept: flush() is counted as one more event.
AcceptCountingFlush(r) ==
    /\ At(r, "sending") /\ request[r].published = Len(Changes[r[1]])
    /\ request' = [request EXCEPT ![r].stage = "answered", ![r].response = 202,
                                  ![r].published = @ + 1]
    /\ UNCHANGED <<buffered, rawEvents, faults>>

\* flush() finds nothing left to send.
Accept(r) ==
    /\ At(r, "sending") /\ request[r].published = Len(Changes[r[1]])
    /\ Respond(r, 202)
    /\ UNCHANGED <<buffered, rawEvents, faults>>

Handle(r) ==
    \/ Reject(r) \/ NormalizeRaises(r) \/ Normalize(r)
    \/ Send(r) \/ Confirm(r) \/ Accept(r)

-----------------------------------------------------------------------------
(* The producer's thread, the broker, and the process. *)

Arrive(r) ==
    /\ r \in buffered
    /\ rawEvents' = Append(rawEvents, Event(r, request[r].published + 1))
    /\ buffered' = buffered \ {r}
    /\ UNCHANGED <<request, faults>>

\* The broker refuses the event, or the producer gives it up.
Drop(r) ==
    /\ r \in buffered
    /\ Fault
    /\ buffered' = buffered \ {r}
    /\ IF At(r, "waiting") THEN Respond(r, 503) ELSE UNCHANGED request
    /\ UNCHANGED rawEvents

\* A gunicorn worker dies with the request it handles and its buffer.
Crash(r) ==
    /\ InProgress(r)
    /\ Fault
    /\ Move(r, "dead")
    /\ buffered' = buffered \ {r}
    /\ UNCHANGED rawEvents

Progress == \E r \in Requests : Deliver(r) \/ Handle(r) \/ Arrive(r)

Next ==
    \/ Progress
    \/ \E r \in Requests :
           HangUp(r) \/ ConnectRaises(r) \/ TimeOut(r) \/ Drop(r) \/ Crash(r)

\* Handlers run to their end, buffers are sent, and Facebook delivers again.
Spec == Init /\ [][Next]_vars /\ WF_vars(Progress)

-----------------------------------------------------------------------------
(* Properties *)

\* Every variable has its type; no request counts events it does not have
\* (publish(): published_count).
TypeOK ==
    /\ \A r \in Requests :
           request[r] \in [stage : Stages, published : 0 .. Len(Changes[r[1]]),
                           response : Responses, heard : BOOLEAN]
    /\ buffered \subseteq {r \in Requests : At(r, "waiting") \/ At(r, "answered")}
    /\ faults \in 0 .. MaxFaults

\* A 202 means that every change of the payload is on raw_events, also for the
\* delivery nobody listened to any more (post() answers after publish()).
AcceptedIsPublished ==
    \A r \in Requests : request[r].response = 202 =>
        \A i \in DOMAIN Changes[r[1]] :
            \E k \in DOMAIN rawEvents : rawEvents[k] = Event(r, i)

\* What one delivery puts on raw_events is a beginning of its payload, in the
\* payload's order and nothing twice, wherever publish() failed and however
\* late a timed-out event arrives.
PublishedInOrder ==
    \A k \in DOMAIN rawEvents :
        \E r \in Requests : \E i \in DOMAIN Changes[r[1]] :
            /\ rawEvents[k] = Event(r, i)
            /\ \A j \in 1 .. k - 1 : rawEvents[j].event_id # <<r, i>>
            /\ \A n \in 1 .. i - 1 :
                   \E j \in 1 .. k - 1 : rawEvents[j].event_id = <<r, n>>

Copies(p, i) ==
    {k \in DOMAIN rawEvents :
        rawEvents[k].event_id[1][1] = p /\ rawEvents[k].event_id[2] = i}

\* A change is published again only because something failed: a payload that
\* is refused each time, and delivered again each time, leaves nothing behind
\* (normalize() reads it all before publish() begins).
CopiesBounded ==
    \A p \in Payloads :
        \A i \in DOMAIN Changes[p] : Cardinality(Copies(p, i)) <= 1 + faults

\* A signed payload that can be read is published in full, as long as Facebook
\* delivers it more often than it fails.
EventuallyPublished ==
    \A p \in Signed \cap Readable :
        \A i \in DOMAIN Changes[p] :
            (\E n \in 1 .. Deliveries[p] : At(<<p, n>>, "received"))
                ~> Copies(p, i) # {}
=============================================================================
