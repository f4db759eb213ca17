----------------------------- MODULE Moderation -----------------------------
(***************************************************************************)
(* DecisionEngine.decide() of core-service: rules, blacklist, rate limit,  *)
(* spam detector and the AI behind its circuit breaker, one step per       *)
(* outside call.  The workers and manual retries decide at the same time   *)
(* on the same collections, and one event may be decided several times.    *)
(*                                                                         *)
(* Of process() there is what decide() reads back: that the document is    *)
(* created before and its message_hash is saved after a decision.          *)
(***************************************************************************)
EXTENDS ActionDecision, CircuitBreaker, Sequences, FiniteSets

CONSTANTS
    Events,          \* the events on raw_events: records of the set Event
    NoSender,        \* an event without a sender_id
    Workers,         \* callers that keep their EventProcessor
    Requests,        \* web requests: each has an EventProcessor of its own
    AIResults,       \* what Dify may answer: a subset of AIResult
    AutoReplyPositive, AutoReplyNegative,   \* CORE_AUTO_REPLY_...
    StrikeLimit,     \* BLACKLIST_STRIKE_LIMIT
    SpamWindow,      \* BLACKLIST_WINDOW_HOURS, in ticks
    RateLimit,       \* CORE_RATE_LIMIT_MAX_EVENTS
    RateWindow,      \* CORE_RATE_LIMIT_WINDOW_SECONDS, in ticks
    MaxTime,         \* bound: ticks
    MaxCalls         \* bound: calls of decide()

Callers == Workers \cup Requests

\* What the spam detector looks for in a text.
Text ==
    [links : BOOLEAN, suspicious_domain : BOOLEAN, keywords : Nat,
     repeated_characters : BOOLEAN, repeated_words : BOOLEAN]

\* `hash` stands for the normalized text; equal texts have equal hashes.
Event ==
    [event_id : STRING, event_type : {"comment", "message", "unknown"},
     sender : STRING \cup {NoSender}, by_page : BOOLEAN, is_echo : BOOLEAN,
     verb_is_add : BOOLEAN, has_target : BOOLEAN, hash : STRING, text : Text]

AIResult ==
    [is_spam : BOOLEAN, is_malicious_link : BOOLEAN, confident : BOOLEAN,
     sentiment : {"positive", "neutral", "negative"}, reply : BOOLEAN]

\* DifyAnalysisResult(): what analyze() returns when it has no answer.
EmptyResult ==
    [is_spam |-> FALSE, is_malicious_link |-> FALSE, confident |-> FALSE,
     sentiment |-> "neutral", reply |-> FALSE]

ASSUME ModerationAssumption ==
    /\ Events \subseteq Event
    /\ Workers \cap Requests = {}
    /\ AIResults \subseteq AIResult
    /\ AutoReplyPositive \in BOOLEAN /\ AutoReplyNegative \in BOOLEAN
    /\ StrikeLimit \in Nat \ {0}
    /\ SpamWindow \in Nat /\ SpamWindow > 1    \* longer than two calls, see Tick
    /\ RateLimit \in Nat /\ RateWindow \in Nat \ {0}
    /\ MaxTime \in Nat /\ MaxCalls \in Nat

VARIABLES
    now,          \* the time, in ticks
    created,      \* processed_events: created_at by event, NotYet without document
    hashed,       \* events whose document has a message_hash
    revisits,     \* when an event may be decided again, see Begin
    blacklist,    \* user_blacklist, by sender
    breakers,     \* the circuit breaker of each caller's DifyAIClient
    calls,        \* the calls of decide() in progress
    begun,        \* calls so far
    strikes,      \* history: the times of each sender's strikes, as written
    collided,     \* history: senders with two strikes in progress at once
    outages       \* history: failures of each caller's requests since a success

collections == <<created, hashed, revisits, blacklist>>
histories == <<strikes, collided, outages>>
vars == <<now, collections, breakers, calls, begun, histories>>

NotYet == MaxTime + 1

Senders == {e.sender : e \in Events} \ {NoSender}

\* No entry: spam_count_24h = 0 tells it apart, for an entry starts with 1.
NoEntry == [spam_count |-> 0, last_spam_at |-> 0, is_blacklisted |-> FALSE]

NoVerdict ==
    [action_type |-> "ignore", should_execute |-> FALSE,
     escalate |-> FALSE, valid |-> FALSE]

Idle == [pc |-> "idle"]

Init ==
    /\ now = 0
    /\ created = [e \in Events |-> NotYet]
    /\ hashed = {}
    /\ revisits = [e \in Events |-> "never"]
    /\ blacklist = [s \in Senders |-> NoEntry]
    /\ breakers = [a \in Callers |-> ClosedBreaker]
    /\ calls = [a \in Callers |-> Idle]
    /\ begun = 0
    /\ strikes = [s \in Senders |-> <<>>]
    /\ collided = {}
    /\ outages = [a \in Callers |-> <<>>]

-----------------------------------------------------------------------------
(* Decisions *)

\* _validate_action_payload, of the payload decide() builds for the action.
Valid(e, action) ==
    /\ action \in {"hide_comment", "reply_comment"} => e.has_target
    /\ action = "reply_message" => e.sender # NoSender

Act(e, action, escalate) ==
    [action_type |-> action, should_execute |-> TRUE,
     escalate |-> escalate, valid |-> Valid(e, action)]

\* Mutant of Ignored: should_execute is left at its default.
IgnoredByDefault == [NoVerdict EXCEPT !.should_execute = TRUE]

Ignored == NoVerdict

Hidden(e, escalate) == Act(e, "hide_comment", escalate)

Escalated(e) == Act(e, "escalate", FALSE)

RuledOut(e) ==
    \/ e.by_page
    \/ e.event_type = "unknown"
    \/ e.event_type = "message" /\ e.is_echo
    \/ e.event_type = "comment" /\ ~e.verb_is_add

\* LocalSpamDetector.detect
Score(t) ==
    (IF t.links THEN 1 ELSE 0)
        + (IF t.suspicious_domain THEN 3 ELSE 0)
        + (IF t.keywords < 3 THEN t.keywords ELSE 3)
        + (IF t.repeated_characters THEN 1 ELSE 0)
        + (IF t.repeated_words THEN 2 ELSE 0)

LooksMalicious(t) == t.suspicious_domain

LooksSpam(t) == Score(t) >= 3 \/ LooksMalicious(t)

\* _reply_decision
Replied(e, escalate) ==
    Act(e, IF e.event_type = "comment" THEN "reply_comment" ELSE "reply_message", escalate)

\* The last part of decide(), for what is neither malicious nor spam.
Sentiment(e, ai) ==
    IF ai.sentiment = "positive" /\ ai.confident /\ AutoReplyPositive
    THEN Replied(e, FALSE)
    ELSE IF ai.sentiment = "negative"
    THEN IF ai.confident /\ AutoReplyNegative THEN Replied(e, TRUE) ELSE Escalated(e)
    ELSE IF ai.reply /\ ai.confident THEN Replied(e, FALSE)
    ELSE Ignored

-----------------------------------------------------------------------------
(* decide() *)

At(a, pc) == calls[a].pc = pc

\* A breaker that counts from nothing.
NewBreaker(a) ==
    /\ breakers' = [breakers EXCEPT ![a] = ClosedBreaker]
    /\ outages' = [outages EXCEPT ![a] = <<>>]

event(a) == calls[a].event

\* The call ends, and a request's EventProcessor, with its breaker, after it.
Hangup(a) ==
    /\ calls' = [calls EXCEPT ![a] = Idle]
    /\ IF a \in Requests THEN NewBreaker(a) ELSE UNCHANGED <<breakers, outages>>

Goto(a, pc) == calls' = [calls EXCEPT ![a].pc = pc]

Conclude(a, decision) ==
    calls' = [calls EXCEPT ![a] =
        [pc |-> "decided", event |-> event(a), started |-> calls[a].started,
         decision |-> decision, detected |-> calls[a].pc \in {"judge", "write_strike"}]]

\* process() takes up a new event, or one that failed and is not settled since,
\* or one whose command may come back at any time.  The rules that need no one
\* else apply.  A web request never creates an event.
Begin(a, e) ==
    /\ At(a, "idle")
    /\ begun < MaxCalls
    /\ begun' = begun + 1
    /\ \/ /\ created[e] = NotYet /\ a \in Workers
          /\ created' = [created EXCEPT ![e] = now]
       \/ revisits[e] # "never" /\ UNCHANGED created
    /\ calls' = [calls EXCEPT ![a] =
          IF RuledOut(e)
          THEN [pc |-> "decided", event |-> e, started |-> now, decision |-> Ignored,
                detected |-> FALSE]
          ELSE [pc |-> IF e.sender = NoSender THEN "ask" ELSE "blacklist",
                event |-> e, started |-> now]]
    /\ UNCHANGED <<now, hashed, revisits, blacklist, breakers, histories>>

ReadBlacklist(a) ==
    /\ At(a, "blacklist")
    /\ IF ~blacklist[event(a).sender].is_blacklisted THEN Goto(a, "rate")
       ELSE Conclude(a, IF event(a).event_type = "comment"
                        THEN Hidden(event(a), FALSE) ELSE Ignored)
    /\ UNCHANGED <<now, collections, breakers, begun, histories>>

\* count_recent_by_sender; the page is that of the installation.
Recent(s) ==
    Cardinality({e \in Events : e.sender = s /\ created[e] <= now
                                    /\ created[e] + RateWindow >= now})

CountRecent(a) ==
    /\ At(a, "rate")
    /\ IF Recent(event(a).sender) >= RateLimit THEN Conclude(a, Escalated(event(a)))
       ELSE Goto(a, "ask")
    /\ UNCHANGED <<now, collections, breakers, begun, histories>>

\* An exception of the count is caught: the sender is not limited.
CountRecentFails(a) ==
    /\ At(a, "rate")
    /\ Goto(a, "ask")
    /\ UNCHANGED <<now, collections, breakers, begun, histories>>

\* analyze() has an answer, or does without.
Analyzed(a, ai) ==
    calls' = [calls EXCEPT ![a] =
        [pc |-> "judge", event |-> event(a), started |-> calls[a].started, ai |-> ai]]

DoNotAsk(a) ==
    /\ At(a, "ask")
    /\ event(a).hash = "" \/ Blocks(breakers[a], now)
    /\ Analyzed(a, EmptyResult)
    /\ UNCHANGED <<now, collections, breakers, begun, histories>>

Ask(a) ==
    /\ At(a, "ask")
    /\ event(a).hash # "" /\ ~Blocks(breakers[a], now)
    /\ breakers' = [breakers EXCEPT ![a] = BeforeCall(@)]
    /\ Goto(a, "answer")
    /\ UNCHANGED <<now, collections, begun, histories>>

Answer(a) ==
    /\ At(a, "answer")
    /\ breakers' = [breakers EXCEPT ![a] = RecordSuccess(@)]
    /\ outages' = [outages EXCEPT ![a] = <<>>]
    /\ \E ai \in AIResults : Analyzed(a, ai)
    /\ UNCHANGED <<now, collections, begun, strikes, collided>>

NoAnswer(a) ==
    /\ At(a, "answer")
    /\ breakers' = [breakers EXCEPT ![a] = RecordFailure(@, now)]
    /\ outages' = [outages EXCEPT ![a] = Append(@, now)]
    /\ Analyzed(a, EmptyResult)
    /\ UNCHANGED <<now, collections, begun, strikes, collided>>

\* An exception leaves decide(), or process() behind it: the event has failed.
Fail(a) ==
    revisits' = [revisits EXCEPT ![event(a)] =
                    IF @ = "never" THEN "until settled" ELSE @]

\* An answer from_dify_response() cannot take apart ({"data": null}) raises.
Garbled(a) ==
    /\ At(a, "answer")
    /\ breakers' = [breakers EXCEPT ![a] = RecordSuccess(@)]
    /\ outages' = [outages EXCEPT ![a] = <<>>]
    /\ calls' = [calls EXCEPT ![a] = Idle]
    /\ Fail(a)
    /\ UNCHANGED <<now, created, hashed, blacklist, begun, strikes, collided>>

\* _count_repeated_content: documents that have the hash, this event's too.
Repeated(e) ==
    IF e.sender = NoSender \/ e.hash = "" THEN 0
    ELSE Cardinality({f \in hashed : f.sender = e.sender /\ f.hash = e.hash
                                         /\ created[f] + SpamWindow >= now})

Spam(e, ai, repeated) ==
    LooksSpam(e.text) \/ ai.is_spam \/ repeated >= StrikeLimit

Malicious(e, ai) == LooksMalicious(e.text) \/ ai.is_malicious_link

JudgeMalicious(a) ==
    /\ At(a, "judge")
    /\ Malicious(event(a), calls[a].ai)
    /\ Conclude(a, IF event(a).event_type = "comment"
                   THEN Hidden(event(a), TRUE) ELSE Escalated(event(a)))
    /\ UNCHANGED <<now, collections, breakers, begun, histories>>

SpamDecision(e) == IF e.event_type = "comment" THEN Hidden(e, FALSE) ELSE Ignored

JudgeSpam(a) ==
    /\ At(a, "judge")
    /\ ~Malicious(event(a), calls[a].ai)
    /\ Spam(event(a), calls[a].ai, Repeated(event(a)))
    /\ IF event(a).sender = NoSender THEN Conclude(a, SpamDecision(event(a)))
       ELSE calls' = [calls EXCEPT ![a] =
                [pc |-> "find_strikes", event |-> event(a), started |-> calls[a].started]]
    /\ UNCHANGED <<now, collections, breakers, begun, histories>>

\* An exception of the count of repeated content is caught: it counts as 0.
JudgeOther(a) ==
    /\ At(a, "judge")
    /\ ~Malicious(event(a), calls[a].ai)
    /\ \E repeated \in {0, Repeated(event(a))} : ~Spam(event(a), calls[a].ai, repeated)
    /\ Conclude(a, Sentiment(event(a), calls[a].ai))
    /\ UNCHANGED <<now, collections, breakers, begun, histories>>

-----------------------------------------------------------------------------
(* _record_spam_strike: read, count, write back *)

\* Mutant of StrikeOn: old strikes count for ever.
StrikeWithoutWindow(entry) ==
    [spam_count |-> entry.spam_count + 1, last_spam_at |-> now,
     is_blacklisted |-> entry.spam_count + 1 >= StrikeLimit]

\* Mutant of StrikeOn: the limit itself is still tolerated.
StrikeTooLate(entry) ==
    LET count == (IF entry.last_spam_at + SpamWindow < now THEN 0 ELSE entry.spam_count) + 1
    IN  [spam_count |-> count, last_spam_at |-> now, is_blacklisted |-> count > StrikeLimit]

\* Mutant of StrikeOn: the verdict is left out of the update.
StrikeWithoutVerdict(entry) ==
    [spam_count |-> entry.spam_count + 1, last_spam_at |-> now]

\* A first entry is written as one strike, which blacklists nobody.
StrikeOn(entry) ==
    LET expired == entry.last_spam_at + SpamWindow < now
        count == (IF expired THEN 0 ELSE entry.spam_count) + 1
    IN  [spam_count |-> count, last_spam_at |-> now,
         is_blacklisted |-> entry # NoEntry /\ count >= StrikeLimit]

FindStrikes(a) ==
    LET s == event(a).sender IN
    /\ At(a, "find_strikes")
    /\ calls' = [calls EXCEPT ![a] =
            [pc |-> "write_strike", event |-> event(a), started |-> calls[a].started,
             entry |-> StrikeOn(blacklist[s])]]
    /\ collided' = IF \E b \in Callers : At(b, "write_strike") /\ event(b).sender = s
                   THEN collided \cup {s} ELSE collided
    /\ UNCHANGED <<now, collections, breakers, begun, strikes, outages>>

WriteStrike(a) ==
    LET s == event(a).sender IN
    /\ At(a, "write_strike")
    /\ blacklist' = [blacklist EXCEPT ![s] = calls[a].entry]
    /\ strikes' = [strikes EXCEPT ![s] = Append(@, calls[a].entry.last_spam_at)]
    /\ Conclude(a, SpamDecision(event(a)))
    /\ UNCHANGED <<now, created, hashed, revisits, breakers, begun, collided, outages>>

-----------------------------------------------------------------------------
(* The end of process(), faults and time. *)

\* A decision that came past the detector saves the hash.  A Facebook action
\* may fail here or in api-service, and bring the event back.
Save(a) ==
    /\ At(a, "decided")
    /\ hashed' = IF calls[a].detected THEN hashed \cup {event(a)} ELSE hashed
    /\ revisits' = [revisits EXCEPT ![event(a)] =
            IF calls[a].decision.action_type \in FacebookActions THEN "always"
            ELSE IF @ = "until settled" THEN "never" ELSE @]
    /\ Hangup(a)
    /\ UNCHANGED <<now, created, blacklist, begun, strikes, collided>>

\* A database call raises.
Raise(a) ==
    /\ calls[a].pc \notin {"idle", "ask", "answer"}
    /\ Fail(a)
    /\ Hangup(a)
    /\ UNCHANGED <<now, created, hashed, blacklist, begun, strikes, collided>>

Crash(a) ==
    /\ calls' = [calls EXCEPT ![a] = Idle]
    /\ NewBreaker(a)
    /\ UNCHANGED <<now, collections, begun, strikes, collided>>

\* A call takes seconds, the windows are longer: it ends within a tick.
Tick ==
    /\ now < MaxTime
    /\ \A a \in Callers : calls[a] # Idle => calls[a].started = now
    /\ now' = now + 1
    /\ UNCHANGED <<collections, breakers, calls, begun, histories>>

Decide(a) ==
    \/ ReadBlacklist(a) \/ CountRecent(a) \/ CountRecentFails(a)
    \/ DoNotAsk(a) \/ Ask(a) \/ Answer(a) \/ NoAnswer(a) \/ Garbled(a)
    \/ JudgeMalicious(a) \/ JudgeSpam(a) \/ JudgeOther(a)
    \/ FindStrikes(a) \/ WriteStrike(a)

Next ==
    \/ \E a \in Callers :
          \/ \E e \in Events : Begin(a, e)
          \/ Decide(a) \/ Save(a) \/ Raise(a) \/ Crash(a)
    \/ Tick

Spec == Init /\ [][Next]_vars

-----------------------------------------------------------------------------
(* Properties *)

Pcs == {"idle", "blacklist", "rate", "ask", "answer", "judge", "find_strikes",
        "write_strike", "decided"}

\* Types of the variables.
TypeOK ==
    /\ now \in 0..MaxTime
    /\ created \in [Events -> 0..NotYet]
    /\ hashed \subseteq Events
    /\ revisits \in [Events -> {"never", "until settled", "always"}]
    /\ blacklist \in [Senders -> [spam_count : Nat, last_spam_at : Nat,
                                  is_blacklisted : BOOLEAN]]
    /\ breakers \in [Callers -> Breaker]
    /\ \A a \in Callers : calls[a].pc \in Pcs
    /\ begun \in 0..MaxCalls
    /\ strikes \in [Senders -> Seq(Nat)]
    /\ collided \subseteq Senders
    /\ outages \in [Callers -> Seq(Nat)]

\* decide() keeps what EventProcessor assumes of it, on every way through.
DecisionIsAdmissible ==
    \A a \in Callers : At(a, "decided") => Admissible(calls[a].decision)

\* Strikes of which each but the first follows an earlier one in time.
IsChain(times, chain) ==
    \A i \in chain :
        \/ \A j \in chain : i <= j
        \/ \E j \in chain : j < i /\ times[i] <= times[j] + SpamWindow

\* However calls interleave, nobody is blacklisted without as many strikes as
\* the limit, each within the window of one before.  This is what the code
\* keeps, and less than it says: docs/tai_lieu.md asks for three strikes in 24
\* hours, and the entry's own reason speaks of strikes in 24h.  The count only
\* starts again when the last strike is older than the window, so from a limit
\* of three on the chain may be longer than one window: strikes at 0, 20 and
\* 40 hours blacklist their sender.
BlacklistIsEarned ==
    \A s \in Senders : blacklist[s].is_blacklisted =>
        \E chain \in SUBSET (1..Len(strikes[s])) :
            Cardinality(chain) >= StrikeLimit /\ IsChain(strikes[s], chain)

\* As many strikes as the limit within one window.
IsDue(s) ==
    \E i \in 1..Len(strikes[s]) :
        /\ i + StrikeLimit - 1 <= Len(strikes[s])
        /\ strikes[s][i + StrikeLimit - 1] <= strikes[s][i] + SpamWindow

\* docs/tai_lieu.md: three times spam in 24 hours blacklists a sender.  It
\* does, and for good, as long as no two strikes of the sender collide.
DueIsBlacklisted ==
    \A s \in Senders : IsDue(s) /\ s \notin collided => blacklist[s].is_blacklisted

\* The circuit is open for a caller just when as many of its requests as the
\* threshold failed in a row, and the last one within the reset timeout.
BreakerFollowsOutages ==
    \A a \in Callers :
        Blocks(breakers[a], now) <=>
            /\ Len(outages[a]) >= Threshold
            /\ now < outages[a][Len(outages[a])] + ResetTimeout
=============================================================================
