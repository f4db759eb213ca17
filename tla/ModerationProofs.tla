-------------------------- MODULE ModerationProofs --------------------------
(***************************************************************************)
(* What decide() keeps for every set of events and callers, every limit    *)
(* and window: its decisions are what process() relies on, a breaker is    *)
(* open just after enough failures, and the blacklist says of a sender     *)
(* what the strikes say.                                                   *)
(***************************************************************************)
EXTENDS Moderation, FiniteSetTheorems, TLAPS

-----------------------------------------------------------------------------
(* The strengthened types *)

Entry == [spam_count : Nat, last_spam_at : Nat, is_blacklisted : BOOLEAN]

\* The calls of decide(), by what they carry along.
Waiting ==
    [pc : {"blacklist", "rate", "ask", "answer", "find_strikes"},
     event : Events, started : Nat]

Judging == [pc : {"judge"}, event : Events, started : Nat, ai : AIResult]

Writing == [pc : {"write_strike"}, event : Events, started : Nat, entry : Entry]

Decided ==
    [pc : {"decided"}, event : Events, started : Nat,
     decision : {d \in Decision : Admissible(d)}, detected : BOOLEAN]

Call == {Idle} \cup Waiting \cup Judging \cup Writing \cup Decided

\* The steps that look up the sender are taken only for events that have one.
KnowsSender(c) ==
    c.pc \in {"blacklist", "rate", "find_strikes", "write_strike"} => c.event.sender # NoSender

TypeInv ==
    /\ now \in Nat /\ now <= MaxTime
    /\ created \in [Events -> 0..NotYet]
    /\ hashed \subseteq Events
    /\ revisits \in [Events -> {"never", "until settled", "always"}]
    /\ blacklist \in [Senders -> Entry]
    /\ breakers \in [Callers -> Breaker]
    /\ calls \in [Callers -> Call]
    /\ \A a \in Callers : KnowsSender(calls[a])
    /\ begun \in Nat /\ begun <= MaxCalls
    /\ strikes \in [Senders -> Seq(Nat)]
    /\ collided \subseteq Senders
    /\ outages \in [Callers -> Seq(Nat)]

(* The limits are natural numbers. *)
LEMMA BoundsTyped ==
    /\ MaxTime \in Nat /\ MaxCalls \in Nat
    /\ StrikeLimit \in Nat /\ StrikeLimit > 0
    /\ SpamWindow \in Nat /\ SpamWindow > 1
    /\ Threshold \in Nat /\ Threshold > 0
    /\ ResetTimeout \in Nat /\ ResetTimeout > 0
  BY ModerationAssumption, BreakerAssumption

(* What a call carries is told by where it is. *)
LEMMA CallTyped ==
    ASSUME NEW c \in Call
    PROVE  /\ c.pc \in Pcs
           /\ c.pc = "idle" <=> c = Idle
           /\ c.pc # "idle" => c.event \in Events /\ c.started \in Nat
           /\ c.pc \in {"blacklist", "rate", "ask", "answer", "find_strikes"} => c \in Waiting
           /\ c.pc = "judge" => c \in Judging
           /\ c.pc = "write_strike" => c \in Writing
           /\ c.pc = "decided" => c \in Decided
  BY DEF Call, Idle, Waiting, Judging, Writing, Decided, Pcs

(* The events, with their senders. *)
LEMMA EventTyped ==
    ASSUME NEW e \in Events
    PROVE  /\ e.event_type \in {"comment", "message", "unknown"}
           /\ e.has_target \in BOOLEAN
           /\ e.sender # NoSender => e.sender \in Senders
  BY ModerationAssumption DEF Event, Senders

(* What decide() makes of an event is admissible. *)
LEMMA DecisionsAdmissible ==
    ASSUME NEW e \in Events
    PROVE  /\ Admissible(Ignored) /\ Admissible(Escalated(e)) /\ Admissible(SpamDecision(e))
           /\ \A escalate \in BOOLEAN :
                Admissible(Hidden(e, escalate)) /\ Admissible(Replied(e, escalate))
           /\ \A ai \in AIResult : Admissible(Sentiment(e, ai))
  <1>1. ASSUME NEW action \in Actions \ {"ignore"}, NEW escalate \in BOOLEAN,
               escalate => action \in FacebookActions
        PROVE  Admissible(Act(e, action, escalate))
    <2>1. Valid(e, action) \in BOOLEAN
      BY DEF Valid
    <2>2. Act(e, action, escalate) \in Decision
      BY <2>1, <1>1 DEF Act, Decision
    <2>. QED  BY <2>2, <1>1 DEF Admissible, Act
  <1>2. Admissible(Ignored)
    BY DEF Admissible, Ignored, NoVerdict, Decision, Actions, FacebookActions
  <1>3. /\ Admissible(Escalated(e))
        /\ \A escalate \in BOOLEAN :
                Admissible(Hidden(e, escalate)) /\ Admissible(Replied(e, escalate))
    BY <1>1 DEF Escalated, Hidden, Replied, Actions, FacebookActions
  <1>4. Admissible(SpamDecision(e))
    BY <1>2, <1>3 DEF SpamDecision
  <1>5. \A ai \in AIResult : Admissible(Sentiment(e, ai))
    BY <1>2, <1>3 DEF Sentiment
  <1>. QED  BY <1>2, <1>3, <1>4, <1>5

\* The steps of one caller.
StepOf(a) ==
    (\E e \in Events : Begin(a, e)) \/ Decide(a) \/ Save(a) \/ Raise(a) \/ Crash(a)

(* Time passes, or a caller takes a step. *)
LEMMA NextIsOneCallers ==
    [Next]_vars => UNCHANGED vars \/ Tick \/ \E a \in Callers : StepOf(a)
  BY DEF Next, StepOf

(* A strike makes an entry out of an entry. *)
LEMMA StrikeTyped ==
    ASSUME now \in Nat, NEW entry \in Entry
    PROVE  StrikeOn(entry) \in Entry
  <1>1. entry.spam_count \in Nat /\ entry.last_spam_at \in Nat
    BY DEF Entry
  <1>2. (IF entry.last_spam_at + SpamWindow < now THEN 0 ELSE entry.spam_count) + 1 \in Nat
    BY <1>1
  <1>. QED  BY <1>2 DEF StrikeOn, Entry

(* A decision ends a call in its last stage. *)
LEMMA ConcludeTyped ==
    ASSUME TypeInv, NEW a \in Callers, ~At(a, "idle"), NEW d, Admissible(d), Conclude(a, d)
    PROVE  \E c \in Decided :
              /\ calls' = [calls EXCEPT ![a] = c]
              /\ c.event = event(a) /\ c.started = calls[a].started /\ c.decision = d
  <1>1. calls[a].event \in Events /\ calls[a].started \in Nat
    BY CallTyped DEF TypeInv, At
  <1>2. d \in Decision
    BY DEF Admissible
  <1>. DEFINE c == [pc |-> "decided", event |-> event(a), started |-> calls[a].started,
                    decision |-> d, detected |-> calls[a].pc \in {"judge", "write_strike"}]
  <1>3. c \in Decided
    BY <1>1, <1>2 DEF Decided, event
  <1>. QED  BY <1>3 DEF Conclude

(* A call goes on from one of the stages in which it carries nothing along. *)
LEMMA GotoTyped ==
    ASSUME TypeInv, NEW a \in Callers,
           NEW pc \in {"blacklist", "rate", "ask", "answer", "find_strikes"},
           calls[a] \in Waiting, Goto(a, pc)
    PROVE  \E c \in Waiting :
              /\ calls' = [calls EXCEPT ![a] = c]
              /\ c.pc = pc /\ c.event = event(a) /\ c.started = calls[a].started
  <1>. DEFINE c == [calls[a] EXCEPT !.pc = pc]
  <1>1. /\ c \in Waiting
        /\ c.pc = pc /\ c.event = event(a) /\ c.started = calls[a].started
    BY DEF Waiting, event
  <1>2. calls' = [calls EXCEPT ![a] = c]
    BY DEF Goto
  <1>. QED  BY <1>1, <1>2

\* A call that found its sender not blacklisted, or did not look.
PastCheck == {"rate", "ask", "answer", "judge", "find_strikes"}

\* The state c a call of a takes next keeps its time and its event, and goes
\* past the blacklist only with a sender who was not on it.
Continues(c, a) ==
    /\ KnowsSender(c)
    /\ c.pc # "idle" =>
          c.started = now \/ (~At(a, "idle") /\ c.started = calls[a].started)
    /\ c.pc \in PastCheck =>
          \/ c.event.sender = NoSender
          \/ /\ c.event = event(a) /\ c.started = calls[a].started
             /\ \/ calls[a].pc \in PastCheck
                \/ At(a, "blacklist") /\ ~blacklist[event(a).sender].is_blacklisted
    /\ c.pc = "write_strike" => FindStrikes(a)

(* A step changes one call, and goes on from where it is. *)
LEMMA StepTyped ==
    ASSUME TypeInv, NEW a \in Callers, StepOf(a)
    PROVE  \E c \in Call : calls' = [calls EXCEPT ![a] = c] /\ Continues(c, a)
  <1>. DEFINE Goal == \E c \in Call : calls' = [calls EXCEPT ![a] = c] /\ Continues(c, a)
  <1>1. calls[a] \in Call /\ KnowsSender(calls[a])
    BY DEF TypeInv
  <1>2. ASSUME calls' = [calls EXCEPT ![a] = Idle]  PROVE Goal
    <2>1. Idle \in Call /\ Idle.pc = "idle"
      BY DEF Call, Idle
    <2>2. KnowsSender(Idle)
      BY <2>1 DEF KnowsSender
    <2>3. Continues(Idle, a)
      BY <2>1, <2>2 DEF Continues, PastCheck
    <2>. QED  BY <1>2, <2>1, <2>3
  <1>3. ASSUME ~At(a, "idle"), NEW d, Admissible(d), Conclude(a, d)  PROVE Goal
    <2>1. PICK c \in Decided :
              /\ calls' = [calls EXCEPT ![a] = c]
              /\ c.event = event(a) /\ c.started = calls[a].started /\ c.decision = d
      BY <1>3, ConcludeTyped
    <2>2. c.pc = "decided" /\ c \in Call
      BY DEF Decided, Call
    <2>. QED  BY <2>1, <2>2, <1>3 DEF Continues, KnowsSender, PastCheck
  <1>4. ASSUME NEW pc \in {"blacklist", "rate", "ask", "answer", "find_strikes"},
               calls[a] \in Waiting, Goto(a, pc),
               calls[a].pc \in PastCheck
                   \/ (At(a, "blacklist") /\ ~blacklist[event(a).sender].is_blacklisted),
               pc \in {"blacklist", "rate", "find_strikes"} => event(a).sender # NoSender
        PROVE  Goal
    <2>1. PICK c \in Waiting :
              /\ calls' = [calls EXCEPT ![a] = c]
              /\ c.pc = pc /\ c.event = event(a) /\ c.started = calls[a].started
      BY <1>4, GotoTyped
    <2>2. c \in Call
      BY DEF Call
    <2>3. calls[a].pc # "idle"
      BY <1>4 DEF Waiting
    <2>4. Continues(c, a)
      BY <2>1, <2>3, <1>4 DEF Continues, KnowsSender, PastCheck, At
    <2>. QED  BY <2>1, <2>2, <2>4
  <1>5. ASSUME NEW ai \in AIResult, At(a, "answer") \/ At(a, "ask"), Analyzed(a, ai)  PROVE Goal
    <2>. DEFINE c == [pc |-> "judge", event |-> event(a), started |-> calls[a].started, ai |-> ai]
    <2>1. calls[a].event \in Events /\ calls[a].started \in Nat
      BY <1>1, <1>5, CallTyped DEF At
    <2>2. c \in Call
      BY <2>1 DEF Call, Judging, event
    <2>3. calls' = [calls EXCEPT ![a] = c]
      BY <1>5 DEF Analyzed
    <2>. QED  BY <2>2, <2>3, <1>5 DEF Continues, KnowsSender, PastCheck, At
  <1>6. EmptyResult \in AIResult
    BY DEF EmptyResult, AIResult
  <1>7. CASE \E e \in Events : Begin(a, e)
    <2>1. PICK e \in Events : Begin(a, e)
      BY <1>7
    <2>2. CASE RuledOut(e)
      <3>. DEFINE c == [pc |-> "decided", event |-> e, started |-> now, decision |-> Ignored,
                        detected |-> FALSE]
      <3>1. Admissible(Ignored) /\ Ignored \in Decision /\ now \in Nat
        BY DecisionsAdmissible DEF Admissible, TypeInv
      <3>2. c \in Call
        BY <3>1 DEF Call, Decided
      <3>3. calls' = [calls EXCEPT ![a] = c]
        BY <2>1, <2>2 DEF Begin
      <3>4. c.pc = "decided" /\ c.started = now
        OBVIOUS
      <3>. HIDE DEF c
      <3>5. KnowsSender(c)
        BY <3>4 DEF KnowsSender
      <3>6. Continues(c, a)
        BY <3>4, <3>5 DEF Continues, PastCheck
      <3>. QED  BY <3>2, <3>3, <3>6
    <2>3. CASE ~RuledOut(e)
      <3>. DEFINE c == [pc |-> IF e.sender = NoSender THEN "ask" ELSE "blacklist",
                        event |-> e, started |-> now]
      <3>1. c \in Call
        BY DEF Call, Waiting, TypeInv
      <3>2. calls' = [calls EXCEPT ![a] = c]
        BY <2>1, <2>3 DEF Begin
      <3>3. /\ c.started = now
            /\ \/ c.pc = "ask" /\ c.event.sender = NoSender
               \/ c.pc = "blacklist" /\ c.event.sender # NoSender
        OBVIOUS
      <3>. HIDE DEF c
      <3>4. KnowsSender(c)
        BY <3>3 DEF KnowsSender
      <3>5. Continues(c, a)
        BY <3>3, <3>4 DEF Continues, PastCheck
      <3>. QED  BY <3>1, <3>2, <3>5
    <2>. QED  BY <2>2, <2>3
  <1>8. CASE Decide(a)
    <2>1. calls[a].pc # "idle" => event(a) \in Events
      BY <1>1, CallTyped DEF event
    <2>2. CASE ReadBlacklist(a)
      <3>1. At(a, "blacklist") /\ calls[a] \in Waiting /\ event(a).sender # NoSender
        BY <1>1, <2>2, CallTyped DEF ReadBlacklist, At, KnowsSender, event
      <3>2. Admissible(Hidden(event(a), FALSE)) /\ Admissible(Ignored)
        BY <2>1, <3>1, DecisionsAdmissible DEF At
      <3>3. CASE blacklist[event(a).sender].is_blacklisted
        <4>1. \E d : Admissible(d) /\ Conclude(a, d)
          BY <2>2, <3>2, <3>3 DEF ReadBlacklist
        <4>. QED  BY <1>3, <3>1, <4>1 DEF At
      <3>4. CASE ~blacklist[event(a).sender].is_blacklisted
        <4>1. Goto(a, "rate")
          BY <2>2, <3>4 DEF ReadBlacklist
        <4>. QED  BY <1>4, <3>1, <3>4, <4>1
      <3>. QED  BY <3>3, <3>4
    <2>3. CASE CountRecent(a) \/ CountRecentFails(a)
      <3>1. At(a, "rate") /\ calls[a] \in Waiting
        BY <1>1, <2>3, CallTyped DEF CountRecent, CountRecentFails, At
      <3>2. Admissible(Escalated(event(a)))
        BY <2>1, <3>1, DecisionsAdmissible DEF At
      <3>3. CASE Conclude(a, Escalated(event(a)))
        BY <1>3, <3>1, <3>2, <3>3 DEF At
      <3>4. CASE Goto(a, "ask")
        <4>1. calls[a].pc \in PastCheck
          BY <3>1 DEF At, PastCheck
        <4>. QED  BY <1>4, <3>1, <3>4, <4>1
      <3>. QED  BY <2>3, <3>3, <3>4 DEF CountRecent, CountRecentFails
    <2>4. CASE Ask(a)
      <3>1. At(a, "ask") /\ calls[a] \in Waiting
        BY <1>1, <2>4, CallTyped DEF Ask, At
      <3>2. calls[a].pc \in PastCheck /\ Goto(a, "answer")
        BY <2>4, <3>1 DEF Ask, At, PastCheck
      <3>. QED  BY <1>4, <3>1, <3>2
    <2>5. CASE DoNotAsk(a) \/ Answer(a) \/ NoAnswer(a)
      <3>1. At(a, "answer") \/ At(a, "ask")
        BY <2>5 DEF DoNotAsk, Answer, NoAnswer
      <3>2. \E ai \in AIResult : Analyzed(a, ai)
        BY <2>5, <1>6, ModerationAssumption DEF DoNotAsk, Answer, NoAnswer
      <3>. QED  BY <1>5, <3>1, <3>2
    <2>6. CASE Garbled(a)
      BY <1>2, <2>6 DEF Garbled
    <2>7. CASE JudgeMalicious(a) \/ JudgeOther(a) \/ (JudgeSpam(a) /\ event(a).sender = NoSender)
      <3>1. At(a, "judge")
        BY <2>7 DEF JudgeMalicious, JudgeOther, JudgeSpam
      <3>2. calls[a].ai \in AIResult
        BY <1>1, <3>1, CallTyped DEF At, Judging
      <3>3. \E d : Admissible(d) /\ Conclude(a, d)
        BY <2>1, <2>7, <3>1, <3>2, DecisionsAdmissible
        DEF JudgeMalicious, JudgeOther, JudgeSpam, At
      <3>. QED  BY <1>3, <3>1, <3>3 DEF At
    <2>8. CASE JudgeSpam(a) /\ event(a).sender # NoSender
      <3>. DEFINE c == [pc |-> "find_strikes", event |-> event(a), started |-> calls[a].started]
      <3>1. At(a, "judge") /\ calls[a].event \in Events /\ calls[a].started \in Nat
        BY <1>1, <2>8, CallTyped DEF JudgeSpam, At
      <3>2. c \in Call
        BY <3>1 DEF Call, Waiting, event
      <3>3. calls' = [calls EXCEPT ![a] = c]
        BY <2>8 DEF JudgeSpam
      <3>. QED  BY <2>8, <3>1, <3>2, <3>3 DEF Continues, KnowsSender, PastCheck, At
    <2>9. CASE FindStrikes(a)
      <3>1. At(a, "find_strikes") /\ calls[a].event \in Events /\ calls[a].started \in Nat
        BY <1>1, <2>9, CallTyped DEF FindStrikes, At
      <3>2. event(a).sender # NoSender /\ event(a).sender \in Senders
        BY <1>1, <3>1, EventTyped DEF KnowsSender, At, event
      <3>3. blacklist[event(a).sender] \in Entry /\ now \in Nat
        BY <3>2 DEF TypeInv
      <3>4. StrikeOn(blacklist[event(a).sender]) \in Entry
        BY <3>3, StrikeTyped
      <3>. DEFINE c == [pc |-> "write_strike", event |-> event(a), started |-> calls[a].started,
                        entry |-> StrikeOn(blacklist[event(a).sender])]
      <3>5. c \in Call
        BY <3>1, <3>4 DEF Call, Writing, event
      <3>6. calls' = [calls EXCEPT ![a] = c]
        BY <2>9 DEF FindStrikes
      <3>. QED  BY <2>9, <3>1, <3>2, <3>5, <3>6 DEF Continues, KnowsSender, PastCheck, At
    <2>10. CASE WriteStrike(a)
      <3>1. At(a, "write_strike") /\ Conclude(a, SpamDecision(event(a)))
        BY <2>10 DEF WriteStrike
      <3>2. Admissible(SpamDecision(event(a)))
        BY <2>1, <3>1, DecisionsAdmissible DEF At
      <3>. QED  BY <1>3, <3>1, <3>2 DEF At
    <2>. QED
      BY <1>8, <2>2, <2>3, <2>4, <2>5, <2>6, <2>7, <2>8, <2>9, <2>10 DEF Decide
  <1>9. CASE Save(a) \/ Raise(a) \/ Crash(a)
    BY <1>2, <1>9 DEF Save, Raise, Crash, Hangup
  <1>. QED  BY <1>7, <1>8, <1>9 DEF StepOf

(* A step leaves the clock alone; the blacklist changes when a strike is      *)
(* written, and the strikes in progress when they are counted.                *)
LEMMA StepFrame ==
    ASSUME NEW a \in Callers, StepOf(a)
    PROVE  /\ now' = now
           /\ (blacklist' = blacklist /\ strikes' = strikes) \/ WriteStrike(a)
           /\ collided' = collided \/ FindStrikes(a)
  <1>. USE DEF collections, histories
  <1>1. CASE \E e \in Events : Begin(a, e)
    BY <1>1 DEF Begin
  <1>2. CASE ReadBlacklist(a) \/ CountRecent(a) \/ CountRecentFails(a) \/ DoNotAsk(a) \/ Ask(a)
    BY <1>2 DEF ReadBlacklist, CountRecent, CountRecentFails, DoNotAsk, Ask
  <1>3. CASE Answer(a) \/ NoAnswer(a) \/ Garbled(a)
    BY <1>3 DEF Answer, NoAnswer, Garbled
  <1>4. CASE JudgeMalicious(a) \/ JudgeSpam(a) \/ JudgeOther(a)
    BY <1>4 DEF JudgeMalicious, JudgeSpam, JudgeOther
  <1>5. CASE FindStrikes(a) \/ WriteStrike(a)
    BY <1>5 DEF FindStrikes, WriteStrike
  <1>6. CASE Save(a) \/ Raise(a) \/ Crash(a)
    BY <1>6 DEF Save, Raise, Crash
  <1>. QED  BY <1>1, <1>2, <1>3, <1>4, <1>5, <1>6 DEF StepOf, Decide

\* What a step makes of the breaker of its caller.
Probes(a) ==
    /\ ~Blocks(breakers[a], now)
    /\ breakers' = [breakers EXCEPT ![a] = BeforeCall(@)]
    /\ outages' = outages
Succeeds(a) ==
    /\ breakers' = [breakers EXCEPT ![a] = RecordSuccess(@)]
    /\ outages' = [outages EXCEPT ![a] = <<>>]
Fails(a) ==
    /\ breakers' = [breakers EXCEPT ![a] = RecordFailure(@, now)]
    /\ outages' = [outages EXCEPT ![a] = Append(@, now)]

(* A step keeps the breakers, or asks Dify, or hears of it, or ends the client. *)
LEMMA StepBreaker ==
    ASSUME NEW a \in Callers, StepOf(a)
    PROVE  \/ breakers' = breakers /\ outages' = outages
           \/ NewBreaker(a) \/ Probes(a) \/ Succeeds(a) \/ Fails(a)
  <1>. USE DEF collections, histories
  <1>1. CASE \E e \in Events : Begin(a, e)
    BY <1>1 DEF Begin
  <1>2. CASE ReadBlacklist(a) \/ CountRecent(a) \/ CountRecentFails(a) \/ DoNotAsk(a)
    BY <1>2 DEF ReadBlacklist, CountRecent, CountRecentFails, DoNotAsk
  <1>3. CASE Ask(a) \/ Answer(a) \/ NoAnswer(a) \/ Garbled(a)
    BY <1>3 DEF Ask, Answer, NoAnswer, Garbled, Probes, Succeeds, Fails
  <1>4. CASE JudgeMalicious(a) \/ JudgeSpam(a) \/ JudgeOther(a)
    BY <1>4 DEF JudgeMalicious, JudgeSpam, JudgeOther
  <1>5. CASE FindStrikes(a) \/ WriteStrike(a)
    BY <1>5 DEF FindStrikes, WriteStrike
  <1>6. CASE Save(a) \/ Raise(a) \/ Crash(a)
    BY <1>6 DEF Save, Raise, Crash, Hangup
  <1>. QED  BY <1>1, <1>2, <1>3, <1>4, <1>5, <1>6 DEF StepOf, Decide

(* A breaker stays a breaker. *)
LEMMA BreakerTyped ==
    ASSUME NEW b \in Breaker, NEW t \in Nat
    PROVE  /\ ClosedBreaker \in Breaker /\ RecordSuccess(b) \in Breaker
           /\ BeforeCall(b) \in Breaker
           /\ RecordFailure(b, t) \in Breaker
  BY DEF Breaker, ClosedBreaker, RecordSuccess, BeforeCall, RecordFailure

(* The types hold initially. *)
LEMMA TypeInvInit == Init => TypeInv
  <1>. SUFFICES ASSUME Init PROVE TypeInv
    OBVIOUS
  <1>1. NotYet \in 0..NotYet /\ 0 \in Nat /\ 0 <= MaxTime /\ 0 <= MaxCalls
    BY ModerationAssumption DEF NotYet
  <1>2. NoEntry \in Entry /\ ClosedBreaker \in Breaker
    BY DEF NoEntry, Entry, ClosedBreaker, Breaker
  <1>3. Idle \in Call /\ KnowsSender(Idle)
    BY DEF Call, Idle, KnowsSender
  <1>4. <<>> \in Seq(Nat)
    OBVIOUS
  <1>5. calls \in [Callers -> Call] /\ \A a \in Callers : KnowsSender(calls[a])
    BY <1>3 DEF Init
  <1>6. created \in [Events -> 0..NotYet]
    BY <1>1 DEF Init
  <1>7. /\ hashed \subseteq Events
        /\ revisits \in [Events -> {"never", "until settled", "always"}]
        /\ blacklist \in [Senders -> Entry]
        /\ breakers \in [Callers -> Breaker]
    BY <1>2 DEF Init
  <1>8. /\ now \in Nat /\ now <= MaxTime /\ begun \in Nat /\ begun <= MaxCalls
        /\ strikes \in [Senders -> Seq(Nat)]
        /\ collided \subseteq Senders
        /\ outages \in [Callers -> Seq(Nat)]
    BY <1>1, <1>4 DEF Init
  <1>. QED  BY <1>5, <1>6, <1>7, <1>8 DEF TypeInv

(* Every step keeps the types of the documents. *)
LEMMA DocumentsTyped ==
    ASSUME TypeInv, NEW a \in Callers, StepOf(a)
    PROVE  /\ created' \in [Events -> 0..NotYet]
           /\ hashed' \subseteq Events
           /\ revisits' \in [Events -> {"never", "until settled", "always"}]
           /\ begun' \in Nat /\ begun' <= MaxCalls
  <1>. USE DEF collections, histories
  <1>1. /\ created \in [Events -> 0..NotYet]
        /\ hashed \subseteq Events
        /\ revisits \in [Events -> {"never", "until settled", "always"}]
    BY DEF TypeInv
  <1>7. now \in 0..NotYet /\ begun \in Nat /\ begun <= MaxCalls /\ MaxCalls \in Nat
    <2>1. now \in Nat /\ now <= MaxTime /\ begun \in Nat /\ begun <= MaxCalls
      BY DEF TypeInv
    <2>. QED  BY <2>1, BoundsTyped DEF NotYet
  <1>2. ~At(a, "idle") => event(a) \in Events
    BY CallTyped DEF TypeInv, At, event
  <1>3. CASE \E e \in Events : Begin(a, e)
    <2>1. PICK e \in Events : Begin(a, e)
      BY <1>3
    <2>2. hashed' = hashed /\ revisits' = revisits /\ begun' \in Nat /\ begun' <= MaxCalls
      BY <1>7, <2>1 DEF Begin
    <2>3. created' = created \/ created' = [created EXCEPT ![e] = now]
      BY <2>1 DEF Begin
    <2>. QED  BY <1>1, <1>7, <2>2, <2>3
  <1>4. CASE Decide(a) /\ ~Garbled(a)
    BY <1>1, <1>4, <1>7 DEF Decide, ReadBlacklist, CountRecent, CountRecentFails, DoNotAsk, Ask,
       Answer, NoAnswer, JudgeMalicious, JudgeSpam, JudgeOther, FindStrikes, WriteStrike
  <1>5. CASE Garbled(a) \/ Raise(a) \/ Crash(a)
    BY <1>1, <1>5, <1>7 DEF Garbled, Raise, Crash, Fail
  <1>6. CASE Save(a)
    <2>1. ~At(a, "idle")
      BY <1>6 DEF Save, At
    <2>. QED  BY <1>1, <1>2, <1>6, <1>7, <2>1 DEF Save
  <1>. QED  BY <1>3, <1>4, <1>5, <1>6 DEF StepOf

(* Every step of a caller keeps the types. *)
LEMMA TypeInvStep ==
    ASSUME TypeInv, NEW a \in Callers, StepOf(a)
    PROVE  TypeInv'
  <1>1. PICK c \in Call : calls' = [calls EXCEPT ![a] = c] /\ Continues(c, a)
    BY StepTyped
  <1>2. calls' \in [Callers -> Call] /\ \A b \in Callers : KnowsSender(calls'[b])
    <2>1. calls \in [Callers -> Call] /\ \A b \in Callers : KnowsSender(calls[b])
      BY DEF TypeInv
    <2>. QED  BY <1>1, <2>1 DEF Continues
  <1>3. breakers' \in [Callers -> Breaker] /\ outages' \in [Callers -> Seq(Nat)]
    <2>1. /\ breakers \in [Callers -> Breaker] /\ outages \in [Callers -> Seq(Nat)]
          /\ now \in Nat
      BY DEF TypeInv
    <2>2. <<>> \in Seq(Nat) /\ Append(outages[a], now) \in Seq(Nat)
      BY <2>1
    <2>3. \/ breakers' = breakers
          \/ \E b \in Breaker : breakers' = [breakers EXCEPT ![a] = b]
      BY <2>1, StepBreaker, BreakerTyped DEF NewBreaker, Probes, Succeeds, Fails
    <2>4. \/ outages' = outages
          \/ \E o \in Seq(Nat) : outages' = [outages EXCEPT ![a] = o]
      BY <2>1, <2>2, StepBreaker DEF NewBreaker, Probes, Succeeds, Fails
    <2>. QED  BY <2>1, <2>3, <2>4
  <1>4. blacklist' \in [Senders -> Entry] /\ strikes' \in [Senders -> Seq(Nat)]
    <2>1. blacklist \in [Senders -> Entry] /\ strikes \in [Senders -> Seq(Nat)]
      BY DEF TypeInv
    <2>2. CASE WriteStrike(a)
      <3>1. calls[a] \in Writing
        BY <2>2, CallTyped DEF WriteStrike, At, TypeInv
      <3>2. calls[a].entry \in Entry
        BY <3>1 DEF Writing
      <3>3. calls[a].entry.last_spam_at \in Nat
        BY <3>2 DEF Entry
      <3>4. event(a).sender \in Senders
        BY <2>2, CallTyped, EventTyped DEF WriteStrike, At, TypeInv, KnowsSender, event
      <3>5. Append(strikes[event(a).sender], calls[a].entry.last_spam_at) \in Seq(Nat)
        BY <2>1, <3>3, <3>4
      <3>. QED  BY <2>1, <2>2, <3>2, <3>5 DEF WriteStrike
    <2>3. CASE blacklist' = blacklist /\ strikes' = strikes
      BY <2>1, <2>3
    <2>. QED  BY <2>2, <2>3, StepFrame
  <1>5. collided' \subseteq Senders
    <2>1. CASE FindStrikes(a)
      <3>1. event(a).sender \in Senders
        BY <2>1, CallTyped, EventTyped DEF FindStrikes, At, TypeInv, KnowsSender, event
      <3>. QED  BY <2>1, <3>1 DEF FindStrikes, TypeInv
    <2>. QED  BY <2>1, StepFrame DEF TypeInv
  <1>6. now' \in Nat /\ now' <= MaxTime
    BY StepFrame DEF TypeInv
  <1>. QED  BY <1>2, <1>3, <1>4, <1>5, <1>6, DocumentsTyped DEF TypeInv

(* So does time. *)
LEMMA TypeInvInductive ==
    ASSUME TypeInv, [Next]_vars
    PROVE  TypeInv'
  <1>1. CASE UNCHANGED vars
    BY <1>1 DEF TypeInv, vars, collections, histories
  <1>2. CASE Tick
    <2>1. now' \in Nat /\ now' <= MaxTime
      <3>1. now \in Nat /\ now < MaxTime /\ now' = now + 1
        BY <1>2 DEF Tick, TypeInv
      <3>. QED  BY <3>1, BoundsTyped
    <2>. QED  BY <1>2, <2>1 DEF TypeInv, Tick, collections, histories
  <1>3. CASE \E a \in Callers : StepOf(a)
    BY <1>3, TypeInvStep
  <1>. QED  BY <1>1, <1>2, <1>3, NextIsOneCallers

\* The types hold throughout.
LEMMA TypesThroughout == Spec => []TypeInv
  BY TypeInvInit, TypeInvInductive, PTL DEF Spec

\* The variables keep their types.
THEOREM ModerationTypeCorrect == Spec => []TypeOK
  <1>1. ASSUME TypeInv PROVE TypeOK
    <2>1. now \in Nat /\ now <= MaxTime /\ begun \in Nat /\ begun <= MaxCalls
      BY <1>1 DEF TypeInv
    <2>2. now \in 0..MaxTime /\ begun \in 0..MaxCalls
      BY <2>1, BoundsTyped
    <2>3. \A a \in Callers : calls[a].pc \in Pcs
      BY <1>1, CallTyped DEF TypeInv
    <2>. QED  BY <1>1, <2>2, <2>3 DEF TypeInv, TypeOK, Entry
  <1>. QED  BY <1>1, TypesThroughout, PTL

\* On every way through decide(), whatever Dify answers and however the calls
\* interleave, the decision is one process() can rely on.
THEOREM DecisionsAreAdmissible == Spec => []DecisionIsAdmissible
  <1>1. ASSUME TypeInv PROVE DecisionIsAdmissible
    BY <1>1, CallTyped DEF TypeInv, DecisionIsAdmissible, At, Decided
  <1>. QED  BY <1>1, TypesThroughout, PTL

-----------------------------------------------------------------------------
(* The circuit breaker *)

\* What a breaker remembers of the failures o since a success, at a time.
BreakerTells(b, o, time) ==
    /\ b.failure_count = Len(o)
    /\ b.state = "closed" <=> Len(o) < Threshold
    /\ Len(o) > 0 => o[Len(o)] <= time
    /\ b.state = "open" => b.opened_at = o[Len(o)]
    /\ b.state = "half_open" => o[Len(o)] + ResetTimeout <= time

BreakerInv == TypeInv /\ \A a \in Callers : BreakerTells(breakers[a], outages[a], now)

(* What a breaker remembers stays true as time goes on. *)
LEMMA BreakerAges ==
    ASSUME NEW b \in Breaker, NEW o \in Seq(Nat), NEW t \in Nat, BreakerTells(b, o, t)
    PROVE  BreakerTells(b, o, t + 1)
  <1>1. Len(o) \in Nat /\ (Len(o) > 0 => o[Len(o)] \in Nat)
    OBVIOUS
  <1>2. Threshold \in Nat /\ Threshold > 0 /\ ResetTimeout \in Nat
    BY BoundsTyped
  <1>3. b.state = "half_open" => Len(o) > 0
    BY <1>1, <1>2 DEF BreakerTells
  <1>. QED  BY <1>1, <1>2, <1>3 DEF BreakerTells

(* A new breaker, or one after a success, remembers nothing. *)
LEMMA BreakerForgets ==
    ASSUME NEW t \in Nat
    PROVE  BreakerTells(ClosedBreaker, <<>>, t)
  BY BoundsTyped DEF BreakerTells, ClosedBreaker

(* An open breaker lets a request through when its time is over. *)
LEMMA BreakerProbes ==
    ASSUME NEW b \in Breaker, NEW o \in Seq(Nat), NEW t \in Nat, BreakerTells(b, o, t),
           ~Blocks(b, t)
    PROVE  BreakerTells(BeforeCall(b), o, t)
  <1>1. CASE b.state # "open"
    BY <1>1 DEF BeforeCall
  <1>2. CASE b.state = "open"
    <2>. DEFINE h == [b EXCEPT !.state = "half_open"]
    <2>1. h.state = "half_open" /\ h.failure_count = b.failure_count
      BY DEF Breaker
    <2>2. b.opened_at \in Nat /\ ~(t - b.opened_at < ResetTimeout) /\ ResetTimeout \in Nat
      BY <1>2, BoundsTyped DEF Blocks, Breaker
    <2>3. b.opened_at + ResetTimeout <= t
      BY <2>2
    <2>4. BeforeCall(b) = h
      BY <1>2 DEF BeforeCall
    <2>. HIDE DEF h
    <2>. QED  BY <1>2, <2>1, <2>3, <2>4 DEF BreakerTells
  <1>. QED  BY <1>1, <1>2

(* A failure is remembered, and at the threshold, or of a probe, it opens the *)
(* circuit.                                                                   *)
LEMMA BreakerFails ==
    ASSUME NEW b \in Breaker, NEW o \in Seq(Nat), NEW t \in Nat, BreakerTells(b, o, t)
    PROVE  BreakerTells(RecordFailure(b, t), Append(o, t), t)
  <1>. DEFINE p == Append(o, t)
  <1>1. Len(o) \in Nat /\ Len(p) = Len(o) + 1 /\ p[Len(p)] = t
    OBVIOUS
  <1>2. Threshold \in Nat /\ Threshold > 0 /\ b.failure_count = Len(o)
        /\ b.state \in {"closed", "open", "half_open"}
    BY BoundsTyped DEF Breaker, BreakerTells
  <1>. HIDE DEF p
  <1>3. CASE Len(o) + 1 >= Threshold
    <2>. DEFINE r == [state |-> "open", failure_count |-> b.failure_count + 1, opened_at |-> t]
    <2>1. RecordFailure(b, t) = r
      BY <1>2, <1>3 DEF RecordFailure
    <2>2. r.state = "open" /\ r.failure_count = Len(p) /\ r.opened_at = t
      BY <1>1, <1>2
    <2>. HIDE DEF r
    <2>3. BreakerTells(r, p, t)
      BY <1>1, <1>2, <1>3, <2>2 DEF BreakerTells
    <2>. QED  BY <2>1, <2>3 DEF p
  <1>4. CASE Len(o) + 1 < Threshold
    <2>. DEFINE r == [b EXCEPT !.failure_count = @ + 1]
    <2>1. RecordFailure(b, t) = r
      BY <1>1, <1>2, <1>4 DEF RecordFailure
    <2>2. r.state = b.state /\ r.failure_count = Len(p)
      BY <1>1, <1>2 DEF Breaker
    <2>3. b.state = "closed"
      BY <1>1, <1>2, <1>4 DEF BreakerTells
    <2>. HIDE DEF r
    <2>4. BreakerTells(r, p, t)
      BY <1>1, <1>2, <1>4, <2>2, <2>3 DEF BreakerTells
    <2>. QED  BY <2>1, <2>4 DEF p
  <1>. QED  BY <1>1, <1>2, <1>3, <1>4

(* What the breakers remember holds initially and after every step. *)
LEMMA BreakersThroughout == Spec => []BreakerInv
  <1>1. Init => BreakerInv
    <2>. SUFFICES ASSUME Init PROVE BreakerInv
      OBVIOUS
    <2>1. BreakerTells(ClosedBreaker, <<>>, 0)
      BY BreakerForgets
    <2>. QED  BY <2>1, TypeInvInit DEF Init, BreakerInv
  <1>2. BreakerInv /\ [Next]_vars => BreakerInv'
    <2>. SUFFICES ASSUME BreakerInv, [Next]_vars PROVE BreakerInv'
      OBVIOUS
    <2>1. /\ breakers \in [Callers -> Breaker] /\ outages \in [Callers -> Seq(Nat)]
          /\ now \in Nat
          /\ \A a \in Callers : BreakerTells(breakers[a], outages[a], now)
      BY DEF BreakerInv, TypeInv
    <2>2. TypeInv'
      BY TypeInvInductive DEF BreakerInv
    <2>3. CASE UNCHANGED vars
      BY <2>1, <2>2, <2>3 DEF vars, histories, BreakerInv
    <2>4. CASE Tick
      BY <2>1, <2>2, <2>4, BreakerAges DEF Tick, histories, BreakerInv
    <2>5. ASSUME NEW a \in Callers, StepOf(a)  PROVE BreakerInv'
      <3>1. now' = now
        BY <2>5, StepFrame
      <3>2. ASSUME NEW b, NEW o, breakers' = [breakers EXCEPT ![a] = b],
                   outages' = [outages EXCEPT ![a] = o], BreakerTells(b, o, now)
            PROVE  \A c \in Callers : BreakerTells(breakers'[c], outages'[c], now)
        BY <2>1, <3>2
      <3>3. CASE breakers' = breakers /\ outages' = outages
        BY <2>1, <2>2, <3>1, <3>3 DEF BreakerInv
      <3>4. CASE NewBreaker(a) \/ Succeeds(a)
        <4>1. BreakerTells(ClosedBreaker, <<>>, now)
          BY <2>1, BreakerForgets
        <4>. QED
          BY <2>2, <3>1, <3>2, <3>4, <4>1 DEF NewBreaker, Succeeds, RecordSuccess, BreakerInv
      <3>5. CASE Probes(a)
        <4>1. BreakerTells(BeforeCall(breakers[a]), outages[a], now)
          BY <2>1, <3>5, BreakerProbes DEF Probes
        <4>2. outages' = [outages EXCEPT ![a] = outages[a]]
          BY <2>1, <3>5 DEF Probes
        <4>. QED  BY <2>2, <3>1, <3>2, <3>5, <4>1, <4>2 DEF Probes, BreakerInv
      <3>6. CASE Fails(a)
        <4>1. BreakerTells(RecordFailure(breakers[a], now), Append(outages[a], now), now)
          BY <2>1, BreakerFails
        <4>. QED  BY <2>2, <3>1, <3>2, <3>6, <4>1 DEF Fails, BreakerInv
      <3>. QED  BY <2>5, <3>3, <3>4, <3>5, <3>6, StepBreaker
    <2>. QED  BY <2>3, <2>4, <2>5, NextIsOneCallers
  <1>. QED  BY <1>1, <1>2, PTL DEF Spec

\* For every threshold and timeout, and whatever successes, failures, probes
\* and restarts came before, a caller's circuit is open just when its last
\* requests failed as often as the threshold, the last within the timeout.
THEOREM BreakersFollowOutages == Spec => []BreakerFollowsOutages
  <1>1. ASSUME BreakerInv PROVE BreakerFollowsOutages
    <2>. SUFFICES ASSUME NEW a \in Callers
                  PROVE  Blocks(breakers[a], now) <=>
                            /\ Len(outages[a]) >= Threshold
                            /\ now < outages[a][Len(outages[a])] + ResetTimeout
      BY DEF BreakerFollowsOutages
    <2>1. PICK b \in Breaker, o \in Seq(Nat), t \in Nat :
              b = breakers[a] /\ o = outages[a] /\ t = now
      BY <1>1 DEF BreakerInv, TypeInv
    <2>2. BreakerTells(b, o, t)
      BY <1>1, <2>1 DEF BreakerInv
    <2>3. Len(o) \in Nat /\ (Len(o) > 0 => o[Len(o)] \in Nat)
      OBVIOUS
    <2>4. Threshold \in Nat /\ Threshold > 0 /\ ResetTimeout \in Nat /\ ResetTimeout > 0
          /\ b.state \in {"closed", "open", "half_open"}
      BY BoundsTyped DEF Breaker
    <2>5. Blocks(b, t) <=> Len(o) >= Threshold /\ t < o[Len(o)] + ResetTimeout
      BY <2>2, <2>3, <2>4 DEF BreakerTells, Blocks
    <2>. QED  BY <2>1, <2>5
  <1>. QED  BY <1>1, BreakersThroughout, PTL

-----------------------------------------------------------------------------
(* The blacklist is earned *)

\* There are n strikes in a chain, one of which was at time t.
HasChain(times, n, t) ==
    \E chain \in SUBSET (1..Len(times)) :
        /\ Cardinality(chain) >= n
        /\ IsChain(times, chain)
        /\ \E j \in chain : times[j] = t

\* There are n strikes in a chain that one at time t would continue.
CanExtend(times, n, t) ==
    \E chain \in SUBSET (1..Len(times)) :
        /\ Cardinality(chain) >= n
        /\ IsChain(times, chain)
        /\ \E j \in chain : t <= times[j] + SpamWindow

\* An entry that blacklists counts enough strikes.
Counted(entry) == entry.is_blacklisted => entry.spam_count >= StrikeLimit

\* What an entry counts is backed by strikes.
StoredEarned(entry, times) ==
    /\ Counted(entry)
    /\ entry.spam_count > 0 => HasChain(times, entry.spam_count, entry.last_spam_at)

\* It will be, once the strike it was counted for is written.
PendingEarned(entry, times) ==
    /\ Counted(entry)
    /\ \/ entry.spam_count = 1
       \/ /\ entry.spam_count > 1
          /\ CanExtend(times, entry.spam_count - 1, entry.last_spam_at)

EarnedInv ==
    /\ TypeInv
    /\ \A s \in Senders : StoredEarned(blacklist[s], strikes[s])
    /\ \A a \in Callers : At(a, "write_strike") =>
          PendingEarned(calls[a].entry, strikes[event(a).sender])

(* A strike more leaves a chain a chain. *)
LEMMA ChainAppended ==
    ASSUME NEW times \in Seq(Nat), NEW t \in Nat, NEW chain \in SUBSET (1..Len(times)),
           IsChain(times, chain)
    PROVE  /\ Len(times) \in Nat /\ Len(Append(times, t)) = Len(times) + 1
           /\ \A i \in 1..Len(times) : Append(times, t)[i] = times[i]
           /\ Append(times, t)[Len(times) + 1] = t
           /\ chain \in SUBSET (1..Len(Append(times, t)))
           /\ IsChain(Append(times, t), chain)
  <1>. DEFINE longer == Append(times, t)
  <1>1. /\ Len(times) \in Nat /\ Len(longer) = Len(times) + 1
        /\ \A i \in 1..Len(times) : longer[i] = times[i]
        /\ longer[Len(times) + 1] = t
    OBVIOUS
  <1>. HIDE DEF longer
  <1>2. chain \in SUBSET (1..Len(longer))
    BY <1>1
  <1>3. IsChain(longer, chain)
    BY <1>1 DEF IsChain
  <1>. QED  BY <1>1, <1>2, <1>3 DEF longer

(* What could be continued still can. *)
LEMMA ExtensionKept ==
    ASSUME NEW times \in Seq(Nat), NEW u \in Nat, NEW n \in Nat, NEW t \in Nat,
           CanExtend(times, n, t)
    PROVE  CanExtend(Append(times, u), n, t)
  <1>1. PICK chain \in SUBSET (1..Len(times)) :
            /\ Cardinality(chain) >= n
            /\ IsChain(times, chain)
            /\ \E j \in chain : t <= times[j] + SpamWindow
    BY DEF CanExtend
  <1>2. /\ \A i \in 1..Len(times) : Append(times, u)[i] = times[i]
        /\ chain \in SUBSET (1..Len(Append(times, u)))
        /\ IsChain(Append(times, u), chain)
    BY <1>1, ChainAppended
  <1>3. \E j \in chain : t <= Append(times, u)[j] + SpamWindow
    BY <1>1, <1>2
  <1>. QED  BY <1>1, <1>2, <1>3 DEF CanExtend

(* The strike a chain could be continued with continues it. *)
LEMMA ChainExtended ==
    ASSUME NEW times \in Seq(Nat), NEW t \in Nat, NEW n \in Nat, CanExtend(times, n, t)
    PROVE  HasChain(Append(times, t), n + 1, t)
  <1>. DEFINE longer == Append(times, t)
              m == Len(times) + 1
  <1>1. PICK chain \in SUBSET (1..Len(times)) :
            /\ Cardinality(chain) >= n
            /\ IsChain(times, chain)
            /\ \E j \in chain : t <= times[j] + SpamWindow
    BY DEF CanExtend
  <1>2. /\ Len(times) \in Nat /\ Len(longer) = m
        /\ \A i \in 1..Len(times) : longer[i] = times[i]
        /\ longer[m] = t
        /\ IsChain(longer, chain)
    BY <1>1, ChainAppended
  <1>. HIDE DEF longer
  <1>3. chain \cup {m} \in SUBSET (1..Len(longer)) /\ m \notin chain
    <2>1. \A i \in chain : i \in Nat /\ 1 <= i /\ i < m
      BY <1>1, <1>2
    <2>2. \A i \in chain \cup {m} : i \in 1..m
      BY <1>2, <2>1
    <2>3. chain \cup {m} \in SUBSET (1..Len(longer))
      BY <1>2, <2>2
    <2>4. m \notin chain
      <3>1. m \in Nat /\ ~(m < m)
        BY <1>2
      <3>. QED  BY <2>1, <3>1
    <2>. QED  BY <2>3, <2>4
  <1>4. Cardinality(chain \cup {m}) >= n + 1
    <2>1. IsFiniteSet(1..Len(times))
      BY <1>2, FS_Interval
    <2>2. IsFiniteSet(chain)
      BY <1>1, <2>1, FS_Subset
    <2>3. Cardinality(chain \cup {m}) = Cardinality(chain) + 1 /\ Cardinality(chain) \in Nat
      BY <1>3, <2>2, FS_AddElement, FS_CardinalityType
    <2>. QED  BY <1>1, <2>3
  <1>5. IsChain(longer, chain \cup {m})
    <2>1. PICK first \in chain : t <= longer[first] + SpamWindow
      BY <1>1, <1>2
    <2>2. SUFFICES ASSUME NEW i \in chain \cup {m}
                   PROVE  \/ \A j \in chain \cup {m} : i <= j
                          \/ \E j \in chain \cup {m} :
                                j < i /\ longer[i] <= longer[j] + SpamWindow
      BY DEF IsChain
    <2>3. CASE i \in chain
      <3>1. i <= m
        BY <1>1, <1>2, <2>3
      <3>. QED  BY <1>2, <2>3, <3>1 DEF IsChain
    <2>4. CASE i = m
      <3>1. first < m
        BY <1>1, <1>2
      <3>. QED  BY <1>2, <2>1, <2>4, <3>1
    <2>. QED  BY <2>3, <2>4
  <1>6. \E j \in chain \cup {m} : longer[j] = t
    BY <1>2
  <1>. QED  BY <1>3, <1>4, <1>5, <1>6 DEF HasChain, longer

(* One strike is a chain of its own. *)
LEMMA ChainStarted ==
    ASSUME NEW times \in Seq(Nat), NEW t \in Nat
    PROVE  HasChain(Append(times, t), 1, t)
  <1>. DEFINE longer == Append(times, t)
              m == Len(times) + 1
  <1>1. Len(times) \in Nat /\ Len(longer) = m /\ longer[m] = t
    OBVIOUS
  <1>. HIDE DEF longer
  <1>2. {m} \in SUBSET (1..Len(longer))
    BY <1>1
  <1>3. Cardinality({m}) = 1
    BY FS_Singleton
  <1>4. IsChain(longer, {m})
    BY <1>1 DEF IsChain
  <1>. QED  BY <1>1, <1>2, <1>3, <1>4 DEF HasChain, longer

(* The entry counted for a strike is backed, if the one it was read from is. *)
LEMMA StrikeEarned ==
    ASSUME now \in Nat, NEW entry \in Entry, NEW times \in Seq(Nat), StoredEarned(entry, times)
    PROVE  PendingEarned(StrikeOn(entry), times)
  <1>. DEFINE n == IF entry.last_spam_at + SpamWindow < now THEN 0 ELSE entry.spam_count
              strike == StrikeOn(entry)
  <1>1. entry.spam_count \in Nat /\ entry.last_spam_at \in Nat
        /\ SpamWindow \in Nat /\ StrikeLimit \in Nat
    BY BoundsTyped DEF Entry
  <1>2. n \in Nat
    BY <1>1
  <1>3. /\ strike.spam_count = n + 1 /\ strike.last_spam_at = now
        /\ strike.is_blacklisted => n + 1 >= StrikeLimit
    BY DEF StrikeOn
  <1>4. n > 0 => CanExtend(times, n, now)
    <2>1. SUFFICES ASSUME n > 0 PROVE CanExtend(times, entry.spam_count, now)
      BY <1>2
    <2>2. entry.spam_count > 0 /\ now <= entry.last_spam_at + SpamWindow
      BY <1>1, <2>1
    <2>3. HasChain(times, entry.spam_count, entry.last_spam_at)
      BY <2>2 DEF StoredEarned
    <2>. QED  BY <2>2, <2>3 DEF HasChain, CanExtend
  <1>. HIDE DEF n, strike
  <1>5. Counted(strike)
    BY <1>3 DEF Counted
  <1>6. CASE n = 0
    BY <1>3, <1>5, <1>6 DEF PendingEarned, strike
  <1>7. CASE n > 0
    <2>1. strike.spam_count > 1 /\ strike.spam_count - 1 = n
      BY <1>2, <1>3, <1>7
    <2>. QED  BY <1>3, <1>4, <1>5, <1>7, <2>1 DEF PendingEarned, strike
  <1>. QED  BY <1>2, <1>6, <1>7

(* Once its strike is written, it is backed as it is stored. *)
LEMMA WriteEarned ==
    ASSUME NEW entry \in Entry, NEW times \in Seq(Nat), PendingEarned(entry, times)
    PROVE  StoredEarned(entry, Append(times, entry.last_spam_at))
  <1>1. entry.spam_count \in Nat /\ entry.last_spam_at \in Nat
    BY DEF Entry
  <1>2. CASE entry.spam_count = 1
    BY <1>1, <1>2, ChainStarted DEF PendingEarned, StoredEarned
  <1>3. CASE entry.spam_count > 1
    <2>1. PICK n \in Nat : n = entry.spam_count - 1 /\ entry.spam_count = n + 1
      BY <1>1, <1>3
    <2>2. CanExtend(times, n, entry.last_spam_at)
      BY <1>3, <2>1 DEF PendingEarned
    <2>3. HasChain(Append(times, entry.last_spam_at), n + 1, entry.last_spam_at)
      BY <1>1, <2>2, ChainExtended
    <2>. QED  BY <2>1, <2>3 DEF PendingEarned, StoredEarned
  <1>. QED  BY <1>2, <1>3 DEF PendingEarned

(* A strike of anyone leaves it to be backed. *)
LEMMA PendingKept ==
    ASSUME NEW entry \in Entry, NEW times \in Seq(Nat), NEW t \in Nat,
           PendingEarned(entry, times)
    PROVE  PendingEarned(entry, Append(times, t))
  <1>1. entry.spam_count \in Nat /\ entry.last_spam_at \in Nat
    BY DEF Entry
  <1>2. CASE entry.spam_count > 1
    <2>1. PICK n \in Nat : n = entry.spam_count - 1
      BY <1>1, <1>2
    <2>2. entry.spam_count = 1 \/ CanExtend(times, n, entry.last_spam_at)
      BY <2>1 DEF PendingEarned
    <2>3. entry.spam_count = 1 \/ CanExtend(Append(times, t), n, entry.last_spam_at)
      BY <1>1, <2>1, <2>2, ExtensionKept
    <2>. QED  BY <1>2, <2>1, <2>3 DEF PendingEarned
  <1>3. CASE entry.spam_count = 1
    BY <1>3 DEF PendingEarned
  <1>. QED  BY <1>2, <1>3 DEF PendingEarned

(* Who writes a strike, and of whom. *)
LEMMA WriterTyped ==
    ASSUME TypeInv, NEW a \in Callers, At(a, "write_strike")
    PROVE  /\ event(a).sender \in Senders
           /\ calls[a].entry \in Entry
           /\ calls[a].entry.last_spam_at \in Nat
  <1>1. calls[a] \in Writing
    BY CallTyped DEF At, TypeInv
  <1>2. event(a).sender \in Senders
    BY <1>1, EventTyped DEF At, TypeInv, KnowsSender, event, Writing
  <1>. QED  BY <1>1, <1>2 DEF Writing, Entry

(* What the blacklist becomes when a strike is written. *)
LEMMA WriteEffect ==
    ASSUME TypeInv, NEW a \in Callers, WriteStrike(a)
    PROVE  /\ \A s \in Senders : s # event(a).sender =>
                 blacklist'[s] = blacklist[s] /\ strikes'[s] = strikes[s]
           /\ blacklist'[event(a).sender] = calls[a].entry
           /\ strikes'[event(a).sender] =
                 Append(strikes[event(a).sender], calls[a].entry.last_spam_at)
           /\ collided' = collided
           /\ calls'[a].pc = "decided"
  BY WriterTyped DEF WriteStrike, TypeInv, Conclude

(* What a call becomes when its strike is counted. *)
LEMMA FindEffect ==
    ASSUME TypeInv, NEW a \in Callers, FindStrikes(a)
    PROVE  /\ event(a).sender \in Senders
           /\ calls'[a].pc = "write_strike"
           /\ calls'[a].event = event(a)
           /\ calls'[a].started = calls[a].started
           /\ calls'[a].entry = StrikeOn(blacklist[event(a).sender])
           /\ blacklist' = blacklist /\ strikes' = strikes
  BY CallTyped, EventTyped
  DEF FindStrikes, At, TypeInv, KnowsSender, event, collections

(* Nobody is blacklisted at first. *)
LEMMA EarnedInit == Init => EarnedInv
  <1>. SUFFICES ASSUME Init PROVE EarnedInv
    OBVIOUS
  <1>1. StoredEarned(NoEntry, <<>>)
    BY DEF StoredEarned, Counted, NoEntry
  <1>2. \A a \in Callers : ~At(a, "write_strike")
    BY DEF Init, At, Idle
  <1>. QED  BY <1>1, <1>2, TypeInvInit DEF EarnedInv, Init

(* The blacklist stays backed. *)
LEMMA EarnedInductive ==
    ASSUME EarnedInv, [Next]_vars
    PROVE  EarnedInv'
  <1>1. /\ TypeInv
        /\ blacklist \in [Senders -> Entry] /\ strikes \in [Senders -> Seq(Nat)]
        /\ now \in Nat
        /\ \A s \in Senders : StoredEarned(blacklist[s], strikes[s])
        /\ \A a \in Callers : At(a, "write_strike") =>
              PendingEarned(calls[a].entry, strikes[event(a).sender])
    BY DEF EarnedInv, TypeInv
  <1>2. TypeInv'
    BY <1>1, TypeInvInductive
  <1>3. CASE UNCHANGED <<blacklist, strikes, calls>>
    BY <1>1, <1>2, <1>3 DEF EarnedInv, At, event
  <1>4. ASSUME NEW a \in Callers, StepOf(a)  PROVE EarnedInv'
    <2>1. PICK c \in Call : calls' = [calls EXCEPT ![a] = c] /\ Continues(c, a)
      BY <1>1, <1>4, StepTyped
    <2>2. /\ \A b \in Callers \ {a} : calls'[b] = calls[b]
          /\ calls'[a] = c
      BY <1>1, <2>1 DEF TypeInv
    <2>3. CASE blacklist' = blacklist /\ strikes' = strikes
      <3>1. \A s \in Senders : StoredEarned(blacklist'[s], strikes'[s])
        BY <1>1, <2>3
      <3>2. ASSUME NEW b \in Callers, calls'[b].pc = "write_strike"
            PROVE  PendingEarned(calls'[b].entry, strikes'[calls'[b].event.sender])
        <4>1. CASE b # a
          BY <1>1, <2>2, <2>3, <3>2, <4>1 DEF At, event
        <4>2. CASE b = a
          <5>1. FindStrikes(a)
            BY <2>1, <2>2, <3>2, <4>2 DEF Continues
          <5>2. /\ event(a).sender \in Senders
                /\ calls'[a].event = event(a)
                /\ calls'[a].entry = StrikeOn(blacklist[event(a).sender])
            BY <1>1, <5>1, FindEffect
          <5>3. PendingEarned(StrikeOn(blacklist[event(a).sender]), strikes[event(a).sender])
            BY <1>1, <5>2, StrikeEarned
          <5>. QED  BY <2>3, <4>2, <5>2, <5>3
        <4>. QED  BY <4>1, <4>2
      <3>. QED  BY <1>2, <3>1, <3>2 DEF EarnedInv, At, event
    <2>4. CASE WriteStrike(a)
      <3>1. PICK s \in Senders, entry \in Entry :
                s = event(a).sender /\ entry = calls[a].entry /\ At(a, "write_strike")
        BY <1>1, <2>4, WriterTyped DEF WriteStrike
      <3>2. /\ \A q \in Senders : q # s => blacklist'[q] = blacklist[q] /\ strikes'[q] = strikes[q]
            /\ blacklist'[s] = entry
            /\ strikes'[s] = Append(strikes[s], entry.last_spam_at)
            /\ calls'[a].pc = "decided"
        BY <1>1, <2>4, <3>1, WriteEffect
      <3>3. \A q \in Senders : StoredEarned(blacklist'[q], strikes'[q])
        <4>1. StoredEarned(entry, Append(strikes[s], entry.last_spam_at))
          BY <1>1, <3>1, WriteEarned
        <4>. QED  BY <1>1, <3>2, <4>1
      <3>4. ASSUME NEW b \in Callers, calls'[b].pc = "write_strike"
            PROVE  PendingEarned(calls'[b].entry, strikes'[calls'[b].event.sender])
        <4>1. b # a /\ calls'[b] = calls[b]
          BY <2>2, <3>2, <3>4
        <4>2. /\ event(b).sender \in Senders /\ calls[b].entry \in Entry
              /\ PendingEarned(calls[b].entry, strikes[event(b).sender])
          BY <1>1, <3>4, <4>1, WriterTyped DEF At
        <4>3. CASE event(b).sender = s
          <5>1. entry.last_spam_at \in Nat
            BY DEF Entry
          <5>2. PendingEarned(calls[b].entry, Append(strikes[s], entry.last_spam_at))
            BY <1>1, <4>2, <4>3, <5>1, PendingKept
          <5>. QED  BY <3>2, <4>1, <4>3, <5>2 DEF event
        <4>4. CASE event(b).sender # s
          BY <3>2, <4>1, <4>2, <4>4 DEF event
        <4>. QED  BY <4>3, <4>4
      <3>. QED  BY <1>2, <3>3, <3>4 DEF EarnedInv, At, event
    <2>. QED  BY <1>4, <2>3, <2>4, StepFrame
  <1>. QED
    BY <1>3, <1>4, NextIsOneCallers DEF vars, Tick, collections, histories

\* For every number of callers and every limit: nobody is blacklisted without
\* as many strikes as the limit, each within the window of one before it,
\* whatever updates of the entry were lost between concurrent calls.  They are
\* a chain, and need not all fall in one window.
THEOREM BlacklistingIsEarned == Spec => []BlacklistIsEarned
  <1>1. Init => EarnedInv
    BY EarnedInit
  <1>2. EarnedInv /\ [Next]_vars => EarnedInv'
    BY EarnedInductive
  <1>3. ASSUME EarnedInv PROVE BlacklistIsEarned
    <2>. SUFFICES ASSUME NEW s \in Senders, blacklist[s].is_blacklisted
                  PROVE  \E chain \in SUBSET (1..Len(strikes[s])) :
                            Cardinality(chain) >= StrikeLimit /\ IsChain(strikes[s], chain)
      BY DEF BlacklistIsEarned
    <2>1. PICK n \in Nat, t \in Nat, limit \in Nat :
              /\ n = blacklist[s].spam_count /\ t = blacklist[s].last_spam_at
              /\ limit = StrikeLimit /\ limit > 0
      BY <1>3, BoundsTyped DEF EarnedInv, TypeInv, Entry
    <2>2. StoredEarned(blacklist[s], strikes[s])
      BY <1>3 DEF EarnedInv
    <2>3. n >= limit /\ n > 0
      BY <2>1, <2>2 DEF StoredEarned, Counted
    <2>4. HasChain(strikes[s], n, t)
      BY <2>1, <2>2, <2>3 DEF StoredEarned
    <2>5. PICK chain \in SUBSET (1..Len(strikes[s])) :
              Cardinality(chain) >= n /\ IsChain(strikes[s], chain)
      BY <2>4 DEF HasChain
    <2>6. Cardinality(chain) \in Nat
      <3>1. strikes[s] \in Seq(Nat)
        BY <1>3 DEF EarnedInv, TypeInv
      <3>2. Len(strikes[s]) \in Nat
        BY <3>1
      <3>3. IsFiniteSet(1..Len(strikes[s]))
        BY <3>2, FS_Interval
      <3>4. IsFiniteSet(chain)
        BY <2>5, <3>3, FS_Subset
      <3>. QED  BY <3>4, FS_CardinalityType
    <2>7. Cardinality(chain) >= StrikeLimit
      <3>1. PICK size \in Nat : size = Cardinality(chain)
        BY <2>6
      <3>2. size >= n /\ limit = StrikeLimit
        BY <2>1, <2>5, <3>1
      <3>. QED  BY <2>3, <3>1, <3>2
    <2>. QED  BY <2>5, <2>7
  <1>. QED  BY <1>1, <1>2, <1>3, PTL DEF Spec

-----------------------------------------------------------------------------
(* Who is due is blacklisted *)

\* A call at a time is no older than a tick, and so is a strike it counted.
InTime(c, time) ==
    /\ c.pc # "idle" => c.started <= time /\ time <= c.started + 1
    /\ c.pc = "write_strike" =>
          c.started <= c.entry.last_spam_at /\ c.entry.last_spam_at <= time

\* A call that is past the blacklist began no later than a tick after the
\* strike its sender is blacklisted for.
Fresh(c, entry) == entry.is_blacklisted => c.started <= entry.last_spam_at + 1

\* Strikes in the order of their times.
Ordered(times) == \A i, j \in 1..Len(times) : i <= j => times[i] <= times[j]

\* IsDue, of the times of a sender's strikes.
DueIn(times) ==
    \E i \in 1..Len(times) :
        /\ i + StrikeLimit - 1 <= Len(times)
        /\ times[i + StrikeLimit - 1] <= times[i] + SpamWindow

\* An entry counts the strikes since the last one that had expired.
Tells(entry, times, time) ==
    /\ Len(times) = 0 => entry = NoEntry
    /\ Len(times) > 0 =>
          /\ entry.spam_count > 0 /\ entry.spam_count <= Len(times)
          /\ entry.last_spam_at = times[Len(times)]
          /\ times[Len(times)] <= time
          /\ entry.spam_count < Len(times) =>
                times[Len(times) - entry.spam_count] + SpamWindow
                    < times[Len(times) - entry.spam_count + 1]

\* What the entries and the strikes of a sender have to do with each other.
Recorded(entry, times, time) ==
    /\ Ordered(times)
    /\ Tells(entry, times, time)
    /\ DueIn(times) => entry.is_blacklisted

\* An entry counted for one strike more.
Follows(next, entry) ==
    /\ next.spam_count =
          (IF entry.last_spam_at + SpamWindow < next.last_spam_at
           THEN 0 ELSE entry.spam_count) + 1
    /\ entry.last_spam_at <= next.last_spam_at
    /\ entry # NoEntry /\ next.spam_count >= StrikeLimit => next.is_blacklisted
    /\ entry.is_blacklisted => next.is_blacklisted

\* The call of a is about to write a strike of s.
Strikes(a, s) == At(a, "write_strike") /\ event(a).sender = s

\* Of a sender whose strikes never collided, one at most is in progress, and
\* the entry it was counted from is still there.
Alone(s) ==
    /\ Recorded(blacklist[s], strikes[s], now)
    /\ \A a \in Callers : Strikes(a, s) =>
          /\ Follows(calls[a].entry, blacklist[s])
          /\ \A b \in Callers : Strikes(b, s) => b = a

DueInv ==
    /\ EarnedInv
    /\ \A a \in Callers : InTime(calls[a], now)
    /\ \A a \in Callers :
          calls[a].pc \in PastCheck /\ event(a).sender \in Senders =>
              Fresh(calls[a], blacklist[event(a).sender])
    /\ \A s \in Senders \ collided : Alone(s)

(* An entry that is counted when it should be keeps telling. *)
LEMMA FollowerTells ==
    ASSUME NEW entry \in Entry, NEW next \in Entry, NEW times \in Seq(Nat), NEW time \in Nat,
           Tells(entry, times, time), Follows(next, entry), next.last_spam_at <= time
    PROVE  Tells(next, Append(times, next.last_spam_at), time)
  <1>1. PICK N \in Nat : N = Len(times)
    OBVIOUS
  <1>2. PICK c \in Nat, d \in Nat, last \in Nat, t \in Nat, window \in Nat :
            /\ c = entry.spam_count /\ d = next.spam_count
            /\ last = entry.last_spam_at /\ t = next.last_spam_at /\ window = SpamWindow
    BY BoundsTyped DEF Entry
  <1>. DEFINE longer == Append(times, next.last_spam_at)
  <1>3. /\ Len(longer) = N + 1 /\ longer[N + 1] = t
        /\ \A i \in 1..N : longer[i] = times[i] /\ times[i] \in Nat
    BY <1>1, <1>2
  <1>. HIDE DEF longer
  <1>4. d = (IF last + window < t THEN 0 ELSE c) + 1
    BY <1>2 DEF Follows
  <1>5. N = 0 => c = 0
    BY <1>1, <1>2 DEF Tells, NoEntry
  <1>6. N > 0 =>
          /\ c > 0 /\ c <= N /\ last = times[N]
          /\ c < N => times[N - c] + window < times[N - c + 1]
    BY <1>1, <1>2 DEF Tells
  <1>7. d > 0 /\ d <= N + 1
    BY <1>4, <1>5, <1>6
  <1>8. d < N + 1 => longer[N + 1 - d] + window < longer[N + 1 - d + 1]
    <2>1. CASE d = 1
      <3>1. N > 0 => last + window < t
        BY <1>4, <1>6, <2>1
      <3>2. N + 1 - d = N /\ N + 1 - d + 1 = N + 1
        BY <2>1
      <3>. QED  BY <1>3, <1>6, <2>1, <3>1, <3>2
    <2>2. CASE d # 1
      <3>1. d = c + 1
        BY <1>4, <2>2
      <3>2. N + 1 - d = N - c /\ N + 1 - d + 1 = N - c + 1
        BY <3>1
      <3>3. ASSUME d < N + 1  PROVE N - c \in 1..N /\ N - c + 1 \in 1..N
        BY <1>5, <1>6, <3>1, <3>3, <2>2
      <3>. QED  BY <1>3, <1>6, <3>1, <3>2, <3>3
    <2>. QED  BY <2>1, <2>2
  <1>9. /\ Len(longer) # 0
        /\ next.spam_count > 0 /\ next.spam_count <= Len(longer)
        /\ next.last_spam_at = longer[Len(longer)]
        /\ longer[Len(longer)] <= time
    BY <1>2, <1>3, <1>7
  <1>10. next.spam_count < Len(longer) =>
            longer[Len(longer) - next.spam_count] + SpamWindow
                < longer[Len(longer) - next.spam_count + 1]
    <2>. DEFINE Gap(m, x, w) == x < m => longer[m - x] + w < longer[m - x + 1]
    <2>1. N + 1 = Len(longer) /\ d = next.spam_count /\ window = SpamWindow
      BY <1>2, <1>3
    <2>2. Gap(N + 1, d, window)
      BY <1>8
    <2>. HIDE DEF Gap
    <2>3. Gap(Len(longer), next.spam_count, SpamWindow)
      BY ONLY <2>1, <2>2
    <2>. QED  BY ONLY <2>3 DEF Gap
  <1>11. Tells(next, longer, time)
    BY <1>9, <1>10 DEF Tells
  <1>. QED  BY <1>11 DEF longer

(* In a longer sequence a strike is the last, or one of those before. *)
LEMMA StillOrdered ==
    ASSUME NEW times \in Seq(Nat), NEW t \in Nat, Ordered(times),
           Len(times) > 0 => times[Len(times)] <= t
    PROVE  Ordered(Append(times, t))
  <1>1. PICK N \in Nat : N = Len(times)
    OBVIOUS
  <1>. DEFINE longer == Append(times, t)
  <1>2. /\ Len(longer) = N + 1 /\ longer[N + 1] = t
        /\ \A i \in 1..N : longer[i] = times[i] /\ times[i] \in Nat
    BY <1>1
  <1>. HIDE DEF longer
  <1>3. ASSUME NEW i \in 1..(N + 1), NEW j \in 1..(N + 1), i <= j
        PROVE  longer[i] <= longer[j]
    <2>1. CASE j <= N
      BY <1>1, <1>2, <1>3, <2>1 DEF Ordered
    <2>2. CASE j = N + 1 /\ i <= N
      <3>1. times[i] <= times[N] /\ times[N] <= t /\ times[i] \in Nat /\ times[N] \in Nat
        BY <1>1, <1>2, <2>2 DEF Ordered
      <3>. QED  BY <1>2, <2>2, <3>1
    <2>3. CASE i = N + 1 /\ j = N + 1
      BY <1>2, <2>3
    <2>. QED  BY <1>3, <2>1, <2>2, <2>3
  <1>. QED  BY <1>2, <1>3 DEF Ordered, longer

(* The strike that makes a sender due blacklists them, and the next ones       *)
(* leave them there.                                                           *)
LEMMA FollowerRecords ==
    ASSUME StrikeLimit > 1,
           NEW entry \in Entry, NEW next \in Entry, NEW times \in Seq(Nat), NEW time \in Nat,
           Recorded(entry, times, time), Follows(next, entry), next.last_spam_at <= time
    PROVE  Recorded(next, Append(times, next.last_spam_at), time)
  <1>1. PICK N \in Nat, d \in Nat, t \in Nat, window \in Nat, limit \in Nat :
            /\ N = Len(times) /\ d = next.spam_count /\ t = next.last_spam_at
            /\ window = SpamWindow /\ limit = StrikeLimit /\ limit > 1
    BY BoundsTyped DEF Entry
  <1>. DEFINE longer == Append(times, next.last_spam_at)
  <1>2. /\ longer = Append(times, t) /\ Len(longer) = N + 1 /\ longer[N + 1] = t
        /\ \A i \in 1..N : longer[i] = times[i]
        /\ \A i \in 1..(N + 1) : longer[i] \in Nat
    BY <1>1
  <1>3. Tells(next, longer, time)
    BY FollowerTells DEF Recorded
  <1>4. Ordered(longer)
    <2>1. N > 0 => times[N] <= t
      BY <1>1 DEF Recorded, Tells, Follows
    <2>. QED  BY <1>1, <1>2, <2>1, StillOrdered DEF Recorded
  <1>. HIDE DEF longer
  <1>5. ASSUME NEW i \in 1..(N + 1), i + limit - 1 <= N + 1,
               longer[i + limit - 1] <= longer[i] + window
        PROVE  next.is_blacklisted
    <2>1. CASE i + limit - 1 <= N
      <3>1. i \in 1..N /\ i + limit - 1 \in 1..N
        BY <1>1, <2>1
      <3>2. DueIn(times)
        BY <1>1, <1>2, <1>5, <2>1, <3>1 DEF DueIn
      <3>. QED  BY <3>2 DEF Recorded, Follows
    <2>2. CASE i + limit - 1 = N + 1
      <3>1. N > 0 /\ limit <= N + 1
        BY <1>1, <2>2
      <3>2. entry # NoEntry
        BY <1>1, <3>1 DEF Recorded, Tells, NoEntry
      <3>3. ASSUME d < limit PROVE FALSE
        <4>1. PICK k \in Nat : k = N + 1 - d
          BY <1>1, <3>1, <3>3
        <4>2. /\ k \in 1..(N + 1) /\ k + 1 \in 1..(N + 1) /\ i <= k
          <5>1. d > 0
            BY <1>1, <1>2, <1>3 DEF Tells
          <5>2. limit \in Nat /\ N \in Nat /\ d \in Nat /\ i \in Nat /\ 1 <= i
            BY <1>1
          <5>. QED  BY <2>2, <3>3, <4>1, <5>1, <5>2
        <4>3. longer[k] + window < longer[k + 1]
          <5>1. Len(longer) - next.spam_count = k /\ next.spam_count < Len(longer)
            BY <1>1, <1>2, <3>1, <3>3, <4>1
          <5>2. Len(longer) > 0
            BY <1>1, <1>2
          <5>. QED  BY <1>1, <1>3, <5>1, <5>2 DEF Tells
        <4>4. longer[i] <= longer[k] /\ longer[k + 1] <= longer[N + 1]
          BY <1>2, <1>4, <1>5, <4>2 DEF Ordered
        <4>5. longer[N + 1] <= longer[i] + window
          BY <1>5, <2>2
        <4>6. longer[i] \in Nat /\ longer[k] \in Nat /\ longer[k + 1] \in Nat
              /\ longer[N + 1] \in Nat
          BY <1>2, <1>5, <4>2
        <4>. QED  BY <1>1, <4>3, <4>4, <4>5, <4>6
      <3>. QED  BY <1>1, <3>2, <3>3 DEF Follows
    <2>3. i + limit - 1 <= N \/ i + limit - 1 = N + 1
      <3>1. limit \in Nat /\ N \in Nat /\ i \in Nat
        BY <1>1
      <3>. QED  BY <1>5, <3>1
    <2>. QED  BY <2>1, <2>2, <2>3
  <1>6. DueIn(longer) => next.is_blacklisted
    BY <1>1, <1>2, <1>5 DEF DueIn
  <1>. QED  BY <1>3, <1>4, <1>6 DEF Recorded, longer

(* A strike that is counted in time follows the entry it is counted from. *)
LEMMA StrikeFollows ==
    ASSUME now \in Nat, NEW entry \in Entry, NEW times \in Seq(Nat), NEW c,
           Tells(entry, times, now), Counted(entry),
           c.started \in Nat, now <= c.started + 1, Fresh(c, entry)
    PROVE  Follows(StrikeOn(entry), entry) /\ StrikeOn(entry).last_spam_at = now
  <1>1. PICK n \in Nat, last \in Nat, window \in Nat, limit \in Nat, started \in Nat :
            /\ n = entry.spam_count /\ last = entry.last_spam_at
            /\ window = SpamWindow /\ window > 1 /\ limit = StrikeLimit /\ limit > 0
            /\ started = c.started
    BY BoundsTyped DEF Entry
  <1>. DEFINE count == (IF last + window < now THEN 0 ELSE n) + 1
              strike == StrikeOn(entry)
  <1>2. /\ strike.spam_count = count /\ strike.last_spam_at = now
        /\ strike.is_blacklisted <=> entry # NoEntry /\ count >= limit
    BY <1>1 DEF StrikeOn
  <1>. HIDE DEF strike
  <1>3. last <= now
    <2>1. Len(times) \in Nat
      OBVIOUS
    <2>. QED  BY <1>1, <2>1 DEF Tells, NoEntry
  <1>4. ASSUME entry.is_blacklisted PROVE strike.is_blacklisted
    <2>1. started <= last + 1 /\ n >= limit
      BY <1>1, <1>4 DEF Fresh, Counted
    <2>2. ~(last + window < now)
      BY <1>1, <2>1
    <2>3. count = n + 1 /\ entry # NoEntry
      BY <1>1, <2>1, <2>2 DEF NoEntry
    <2>. QED  BY <1>1, <1>2, <2>1, <2>3
  <1>. QED  BY <1>1, <1>2, <1>3, <1>4 DEF Follows, strike

(* The parts of DueInv, to be cited one by one. *)
LEMMA DueParts ==
    ASSUME DueInv
    PROVE  /\ EarnedInv /\ TypeInv /\ now \in Nat
           /\ calls \in [Callers -> Call]
           /\ blacklist \in [Senders -> Entry] /\ strikes \in [Senders -> Seq(Nat)]
           /\ \A a \in Callers : InTime(calls[a], now)
           /\ \A a \in Callers :
                 calls[a].pc \in PastCheck /\ event(a).sender \in Senders =>
                     Fresh(calls[a], blacklist[event(a).sender])
           /\ \A s \in Senders \ collided : Alone(s)
           /\ \A s \in Senders : Counted(blacklist[s])
  BY DEF DueInv, EarnedInv, TypeInv, StoredEarned

(* A step keeps the times of the calls. *)
LEMMA StepInTime ==
    ASSUME DueInv, NEW a \in Callers, StepOf(a)
    PROVE  \A b \in Callers : InTime(calls'[b], now')
  <1>1. PICK c \in Call : calls' = [calls EXCEPT ![a] = c] /\ Continues(c, a)
    BY DueParts, StepTyped
  <1>2. (\A b \in Callers \ {a} : calls'[b] = calls[b]) /\ calls'[a] = c
    BY <1>1, DueParts
  <1>3. now' = now /\ now \in Nat
    BY StepFrame, DueParts
  <1>4. InTime(c, now)
    <2>1. c.pc # "idle" => c.started <= now /\ now <= c.started + 1
      BY <1>1, <1>3, DueParts DEF Continues, InTime, At
    <2>2. ASSUME c.pc = "write_strike"
          PROVE  c.started <= c.entry.last_spam_at /\ c.entry.last_spam_at <= now
      <3>1. FindStrikes(a)
        BY <1>1, <2>2 DEF Continues
      <3>2. c.entry = StrikeOn(blacklist[event(a).sender])
        BY <1>2, <3>1, FindEffect, DueParts
      <3>3. c.entry.last_spam_at = now
        BY <3>2 DEF StrikeOn
      <3>. QED  BY <1>3, <2>1, <2>2, <3>3
    <2>. QED  BY <2>1, <2>2 DEF InTime
  <1>. QED  BY <1>2, <1>3, <1>4, DueParts

(* A step that writes no strike keeps the calls fresh. *)
LEMMA StepFresh ==
    ASSUME DueInv, NEW a \in Callers, StepOf(a), blacklist' = blacklist
    PROVE  \A b \in Callers :
              calls'[b].pc \in PastCheck /\ calls'[b].event.sender \in Senders =>
                  Fresh(calls'[b], blacklist'[calls'[b].event.sender])
  <1>1. PICK c \in Call : calls' = [calls EXCEPT ![a] = c] /\ Continues(c, a)
    BY DueParts, StepTyped
  <1>2. (\A b \in Callers \ {a} : calls'[b] = calls[b]) /\ calls'[a] = c
    BY <1>1, DueParts
  <1>3. ASSUME c.pc \in PastCheck, c.event.sender \in Senders
        PROVE  Fresh(c, blacklist[c.event.sender])
    <2>1. /\ c.event = event(a) /\ c.started = calls[a].started
          /\ \/ calls[a].pc \in PastCheck
             \/ ~blacklist[event(a).sender].is_blacklisted
      BY <1>1, <1>3 DEF Continues, Senders
    <2>2. calls[a].pc \in PastCheck => Fresh(calls[a], blacklist[event(a).sender])
      BY <1>3, <2>1, DueParts
    <2>. QED  BY <2>1, <2>2 DEF Fresh
  <1>. QED  BY <1>2, <1>3, DueParts DEF event

(* A step that writes no strike keeps a sender's strikes alone. *)
LEMMA StepAlone ==
    ASSUME DueInv, NEW a \in Callers, StepOf(a), blacklist' = blacklist, strikes' = strikes,
           NEW s \in Senders, s \notin collided'
    PROVE  Alone(s)'
  <1>1. PICK c \in Call : calls' = [calls EXCEPT ![a] = c] /\ Continues(c, a)
    BY DueParts, StepTyped
  <1>2. (\A b \in Callers \ {a} : calls'[b] = calls[b]) /\ calls'[a] = c
    BY <1>1, DueParts
  <1>3. now' = now /\ now \in Nat
    BY StepFrame, DueParts
  <1>4. s \notin collided
    BY StepFrame DEF FindStrikes
  <1>5. Alone(s)
    BY <1>4, DueParts
  <1>6. Recorded(blacklist'[s], strikes'[s], now')
    BY <1>3, <1>5 DEF Alone
  <1>. DEFINE Striking(b) == calls'[b].pc = "write_strike" /\ calls'[b].event.sender = s
  <1>7. \A b \in Callers \ {a} : Striking(b) => Strikes(b, s)
    BY <1>2 DEF Strikes, At, event
  <1>8. CASE Striking(a)
    <2>1. FindStrikes(a)
      BY <1>1, <1>2, <1>8 DEF Continues
    <2>2. /\ event(a).sender = s
          /\ calls'[a].entry = StrikeOn(blacklist[s])
      BY <1>8, <2>1, FindEffect, DueParts
    <2>3. \A b \in Callers : ~Strikes(b, s)
      BY <2>1, <2>2 DEF FindStrikes, Strikes
    <2>4. Follows(StrikeOn(blacklist[s]), blacklist[s])
      <3>1. /\ calls[a].pc = "find_strikes" /\ calls[a].started \in Nat
            /\ calls[a].pc \in PastCheck
        BY <2>1, CallTyped, DueParts DEF FindStrikes, At, PastCheck
      <3>2. now <= calls[a].started + 1 /\ Fresh(calls[a], blacklist[s])
        BY <2>2, <3>1, DueParts DEF InTime
      <3>3. Tells(blacklist[s], strikes[s], now) /\ Counted(blacklist[s])
            /\ blacklist[s] \in Entry /\ strikes[s] \in Seq(Nat)
        BY <1>5, DueParts DEF Alone, Recorded
      <3>. QED  BY <1>3, <3>1, <3>2, <3>3, StrikeFollows
    <2>5. \A b \in Callers : Striking(b) => b = a
      BY <1>7, <2>3
    <2>6. \A b \in Callers : Striking(b) =>
             Follows(calls'[b].entry, blacklist'[s]) /\ \A d \in Callers : Striking(d) => d = b
      BY <2>2, <2>4, <2>5
    <2>. QED  BY <1>6, <2>6 DEF Alone, Strikes, At, event
  <1>9. CASE ~Striking(a)
    <2>1. \A b \in Callers : Striking(b) => Strikes(b, s) /\ calls'[b] = calls[b]
      BY <1>2, <1>7, <1>9
    <2>2. \A b \in Callers : Striking(b) =>
             Follows(calls'[b].entry, blacklist'[s]) /\ \A d \in Callers : Striking(d) => d = b
      BY <1>5, <2>1 DEF Alone
    <2>. QED  BY <1>6, <2>2 DEF Alone, Strikes, At, event
  <1>. QED  BY <1>8, <1>9

(* Writing a strike keeps the calls fresh. *)
LEMMA WriteFresh ==
    ASSUME DueInv, NEW a \in Callers, WriteStrike(a)
    PROVE  \A b \in Callers :
              calls'[b].pc \in PastCheck /\ calls'[b].event.sender \in Senders =>
                  Fresh(calls'[b], blacklist'[calls'[b].event.sender])
  <1>1. StepOf(a)
    BY DEF StepOf, Decide
  <1>2. PICK c \in Call : calls' = [calls EXCEPT ![a] = c] /\ Continues(c, a)
    BY <1>1, DueParts, StepTyped
  <1>3. (\A b \in Callers \ {a} : calls'[b] = calls[b]) /\ calls'[a] = c
    BY <1>2, DueParts
  <1>4. PICK s \in Senders, entry \in Entry :
            /\ s = event(a).sender /\ entry = calls[a].entry /\ At(a, "write_strike")
            /\ entry.last_spam_at \in Nat
    BY DueParts, WriterTyped DEF WriteStrike
  <1>5. /\ \A q \in Senders : q # s => blacklist'[q] = blacklist[q]
        /\ blacklist'[s] = entry /\ calls'[a].pc = "decided"
    BY <1>4, WriteEffect, DueParts
  <1>6. calls[a].started \in Nat /\ now <= calls[a].started + 1
        /\ calls[a].started <= entry.last_spam_at /\ now \in Nat
    BY <1>4, CallTyped, DueParts DEF At, InTime
  <1>7. ASSUME NEW b \in Callers, calls'[b].pc \in PastCheck,
               calls'[b].event.sender \in Senders
        PROVE  Fresh(calls'[b], blacklist'[calls'[b].event.sender])
    <2>1. b # a /\ calls'[b] = calls[b]
      BY <1>3, <1>5, <1>7 DEF PastCheck
    <2>2. Fresh(calls[b], blacklist[event(b).sender])
      BY <1>7, <2>1, DueParts DEF event
    <2>3. calls[b].started \in Nat /\ calls[b].started <= now
      <3>1. calls[b].pc # "idle"
        BY <1>7, <2>1 DEF PastCheck
      <3>. QED  BY <3>1, CallTyped, DueParts DEF InTime
    <2>4. CASE event(b).sender = s
      <3>1. calls[b].started <= entry.last_spam_at + 1
        BY <1>4, <1>6, <2>3
      <3>. QED  BY <1>5, <2>1, <2>4, <3>1 DEF Fresh, event
    <2>5. CASE event(b).sender # s
      BY <1>5, <1>7, <2>1, <2>2, <2>5 DEF event
    <2>. QED  BY <2>4, <2>5
  <1>. QED  BY <1>7

(* Writing a strike leaves the strikes of a sender alone. *)
LEMMA WriteAlone ==
    ASSUME DueInv, StrikeLimit > 1, NEW a \in Callers, WriteStrike(a),
           NEW q \in Senders, q \notin collided'
    PROVE  Alone(q)'
  <1>1. StepOf(a)
    BY DEF StepOf, Decide
  <1>2. PICK c \in Call : calls' = [calls EXCEPT ![a] = c] /\ Continues(c, a)
    BY <1>1, DueParts, StepTyped
  <1>3. (\A b \in Callers \ {a} : calls'[b] = calls[b]) /\ calls'[a] = c
    BY <1>2, DueParts
  <1>4. PICK s \in Senders, entry \in Entry :
            /\ s = event(a).sender /\ entry = calls[a].entry /\ At(a, "write_strike")
            /\ entry.last_spam_at \in Nat
    BY DueParts, WriterTyped DEF WriteStrike
  <1>5. /\ \A r \in Senders : r # s => blacklist'[r] = blacklist[r] /\ strikes'[r] = strikes[r]
        /\ blacklist'[s] = entry
        /\ strikes'[s] = Append(strikes[s], entry.last_spam_at)
        /\ collided' = collided /\ calls'[a].pc = "decided"
    BY <1>4, WriteEffect, DueParts
  <1>6. now' = now /\ now \in Nat
    BY <1>1, StepFrame, DueParts
  <1>7. Alone(q)
    BY <1>5, DueParts
  <1>. DEFINE Striking(b) == calls'[b].pc = "write_strike" /\ calls'[b].event.sender = q
  <1>8. \A b \in Callers : Striking(b) => b # a /\ Strikes(b, q) /\ calls'[b] = calls[b]
    BY <1>3, <1>5 DEF Strikes, At, event
  <1>9. CASE q = s
    <2>1. Strikes(a, q)
      BY <1>4, <1>9 DEF Strikes
    <2>2. \A b \in Callers : ~Striking(b)
      BY <1>7, <1>8, <2>1 DEF Alone
    <2>3. Follows(entry, blacklist[q]) /\ Recorded(blacklist[q], strikes[q], now)
      BY <1>4, <1>7, <2>1 DEF Alone
    <2>4. entry.last_spam_at <= now
      BY <1>4, DueParts DEF InTime, At
    <2>5. blacklist[q] \in Entry /\ strikes[q] \in Seq(Nat)
      BY DueParts
    <2>6. Recorded(entry, Append(strikes[q], entry.last_spam_at), now)
      BY <1>6, <2>3, <2>4, <2>5, FollowerRecords
    <2>7. Recorded(blacklist'[q], strikes'[q], now')
      BY <1>5, <1>6, <1>9, <2>6
    <2>. QED  BY <2>2, <2>7 DEF Alone, Strikes, At, event
  <1>10. CASE q # s
    <2>1. Recorded(blacklist'[q], strikes'[q], now')
      BY <1>5, <1>6, <1>7, <1>10 DEF Alone
    <2>2. \A b \in Callers : Striking(b) =>
             Follows(calls'[b].entry, blacklist'[q]) /\ \A d \in Callers : Striking(d) => d = b
      BY <1>5, <1>7, <1>8, <1>10 DEF Alone
    <2>. QED  BY <2>1, <2>2 DEF Alone, Strikes, At, event
  <1>. QED  BY <1>9, <1>10

(* Every step keeps DueInv. *)
LEMMA DueInductive ==
    ASSUME StrikeLimit > 1, DueInv, [Next]_vars
    PROVE  DueInv'
  <1>1. EarnedInv'
    BY EarnedInductive, DueParts
  <1>2. CASE UNCHANGED vars
    BY <1>1, <1>2, DueParts
    DEF vars, collections, histories, DueInv, Alone, Strikes, At, event
  <1>3. CASE Tick
    <2>1. /\ blacklist' = blacklist /\ strikes' = strikes /\ calls' = calls
          /\ collided' = collided /\ now' = now + 1
      BY <1>3 DEF Tick, collections, histories
    <2>2. \A a \in Callers : InTime(calls'[a], now')
      <3>1. SUFFICES ASSUME NEW a \in Callers  PROVE InTime(calls[a], now + 1)
        BY <2>1
      <3>2. calls[a].pc # "idle" => calls[a].started = now
        BY <1>3 DEF Tick, Idle
      <3>3. calls[a].pc = "write_strike" => calls[a].entry.last_spam_at \in Nat
        BY WriterTyped, DueParts DEF At
      <3>. QED  BY <3>2, <3>3, DueParts DEF InTime
    <2>3. ASSUME NEW s \in Senders \ collided
          PROVE  Recorded(blacklist[s], strikes[s], now + 1)
      <3>1. Recorded(blacklist[s], strikes[s], now)
        BY DueParts DEF Alone
      <3>2. PICK times \in Seq(Nat) : times = strikes[s]
        BY DueParts
      <3>3. Len(times) \in Nat /\ (Len(times) > 0 => times[Len(times)] \in Nat)
        OBVIOUS
      <3>4. Tells(blacklist[s], times, now + 1)
        BY <3>1, <3>2, <3>3, DueParts DEF Recorded, Tells
      <3>. QED  BY <3>1, <3>2, <3>4 DEF Recorded
    <2>4. \A s \in Senders \ collided' : Alone(s)'
      BY <2>1, <2>3, DueParts DEF Alone, Strikes, At, event
    <2>. QED  BY <1>1, <2>1, <2>2, <2>4, DueParts DEF DueInv, event
  <1>4. ASSUME NEW a \in Callers, StepOf(a)  PROVE DueInv'
    <2>1. \A b \in Callers : InTime(calls'[b], now')
      BY <1>4, StepInTime
    <2>2. CASE WriteStrike(a)
      BY <1>1, <2>1, <2>2, WriteFresh, WriteAlone DEF DueInv, event
    <2>3. CASE blacklist' = blacklist /\ strikes' = strikes
      BY <1>1, <1>4, <2>1, <2>3, StepFresh, StepAlone DEF DueInv, event
    <2>. QED  BY <1>4, <2>2, <2>3, StepFrame
  <1>. QED  BY <1>2, <1>3, <1>4, NextIsOneCallers

\* For every limit above one (the first strike of a sender blacklists nobody):
\* whoever had as many strikes within a window is blacklisted, and stays so,
\* unless two of their strikes were counted at once.
THEOREM DueIsBlacklistedAlways ==
    ASSUME StrikeLimit > 1
    PROVE  Spec => []DueIsBlacklisted
  <1>1. Init => DueInv
    <2>. SUFFICES ASSUME Init PROVE DueInv
      OBVIOUS
    <2>1. EarnedInv
      BY EarnedInit
    <2>2. \A a \in Callers : InTime(calls[a], now) /\ calls[a].pc = "idle"
      BY DEF Init, Idle, InTime
    <2>3. Recorded(NoEntry, <<>>, 0)
      BY DEF Recorded, Ordered, Tells, DueIn
    <2>4. \A s \in Senders : Alone(s)
      BY <2>2, <2>3 DEF Init, Alone, Strikes, At
    <2>. QED  BY <2>1, <2>2, <2>4 DEF DueInv, PastCheck
  <1>2. DueInv /\ [Next]_vars => DueInv'
    BY DueInductive
  <1>3. DueInv => DueIsBlacklisted
    BY DEF DueInv, Alone, Recorded, DueIsBlacklisted, IsDue, DueIn
  <1>. QED  BY <1>1, <1>2, <1>3, PTL DEF Spec
=============================================================================
