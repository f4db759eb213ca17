--------------------------- MODULE KafkaConsumer ---------------------------
(***************************************************************************)
(* The poll / process / commit loop that every worker of the pipeline runs *)
(* (consume_events, consume_retry_commands, consume_failed_messages,       *)
(* consume_reply_commands), seen from one partition of its topic: the      *)
(* in-memory position the client advances in poll(), the offset committed  *)
(* on the broker, and the batch in between.                                *)
(*                                                                         *)
(* A record has the offset of its place in `log`, counted from 1, so       *)
(* `committed` = n says that a new consumer starts behind record n.  The   *)
(* batch being processed is next+1 .. position.                            *)
(*                                                                         *)
(* The workers' modules instantiate the operators; Spec runs the loop on   *)
(* its own, with a record handled in one step.                             *)
(***************************************************************************)
EXTENDS Naturals, Sequences, FiniteSets

CONSTANTS
    Records,      \* what a producer may append to the topic
    MaxPoll,      \* max_poll_records
    MaxRecords,   \* bound: length of the log
    MaxFaults,    \* bound: faults of a behaviour
    FaultKinds    \* which faults happen: a subset of Faults

Faults == {"crash", "raise", "rejoin"}

ASSUME ConsumerAssumption ==
    /\ MaxPoll \in Nat \ {0}
    /\ MaxRecords \in Nat
    /\ MaxFaults \in Nat
    /\ FaultKinds \subseteq Faults

VARIABLES
    log,          \* the topic
    consumer,     \* mode, committed, position and next of the worker
    handled,      \* history: offsets whose last delivery was worked off
    faults        \* faults so far

vars == <<log, consumer, handled, faults>>

ConsumerType ==
    [mode : {"down", "polling", "batch"},
     committed : Nat, position : Nat, next : Nat]

\* auto_offset_reset = earliest: a new group starts at the first record.
InitialConsumer == [mode |-> "down", committed |-> 0, position |-> 0, next |-> 0]

Init ==
    /\ log = <<>>
    /\ consumer = InitialConsumer
    /\ handled = {}
    /\ faults = 0

HasRecord == consumer.mode = "batch" /\ consumer.next < consumer.position

Current == log[consumer.next + 1]

-----------------------------------------------------------------------------
(* The worker's steps. *)

\* The container starts (or restarts) the worker and the consumer connects.
Start ==
    /\ consumer.mode = "down"
    /\ consumer' = [consumer EXCEPT !.mode = "polling",
                                    !.position = consumer.committed]
    /\ UNCHANGED <<log, handled>>

\* Mutant of Poll: the newest record is left behind.
PollShort ==
    /\ consumer.mode = "polling"
    /\ \E n \in 1..MaxPoll :
          /\ consumer.position + n < Len(log)
          /\ consumer' = [consumer EXCEPT !.mode = "batch",
                                          !.next = consumer.position,
                                          !.position = consumer.position + n]
          /\ handled' = handled \ (consumer.position + 1 .. consumer.position + n)
    /\ UNCHANGED log

\* poll() returns up to max_poll_records and moves the in-memory position
\* behind them; an empty poll changes nothing.
Poll ==
    /\ consumer.mode = "polling"
    /\ \E n \in 1..MaxPoll :
          /\ consumer.position + n <= Len(log)
          /\ consumer' = [consumer EXCEPT !.mode = "batch",
                                          !.next = consumer.position,
                                          !.position = consumer.position + n]
          /\ handled' = handled \ (consumer.position + 1 .. consumer.position + n)
    /\ UNCHANGED log

\* Mutant of Finish: the iteration does not stop at the end of the batch.
FinishBlindly ==
    /\ consumer.mode = "batch"
    /\ consumer' = [consumer EXCEPT !.next = consumer.next + 1]
    /\ handled' = handled \cup {consumer.next + 1}
    /\ UNCHANGED log

\* One iteration of the loop over the batch ends: processed, or skipped
\* because the value did not decode or did not validate.
Finish ==
    /\ HasRecord
    /\ consumer' = [consumer EXCEPT !.next = consumer.next + 1]
    /\ handled' = handled \cup {consumer.next + 1}
    /\ UNCHANGED log

\* Mutant of Commit: the batch is committed before it is worked off.
CommitEarly ==
    /\ consumer.mode = "batch"
    /\ consumer' = [consumer EXCEPT !.mode = "polling",
                                    !.committed = consumer.position]
    /\ UNCHANGED <<log, handled>>

\* consumer.commit() commits the position, which is behind the batch.
Commit ==
    /\ consumer.mode = "batch"
    /\ consumer.next = consumer.position
    /\ consumer' = [consumer EXCEPT !.mode = "polling",
                                    !.committed = consumer.position]
    /\ UNCHANGED <<log, handled>>

\* Mutant of Raise: the consumer seeks back to the record that raised.
RaiseAndSeek ==
    /\ consumer.mode = "batch"
    /\ consumer' = [consumer EXCEPT !.mode = "polling", !.position = consumer.next]
    /\ UNCHANGED <<log, handled>>

\* An exception leaves the batch (or commit() itself raises): it is logged,
\* the worker sleeps and polls again.  The position stays behind the batch.
Raise ==
    /\ consumer.mode = "batch"
    /\ consumer' = [consumer EXCEPT !.mode = "polling"]
    /\ UNCHANGED <<log, handled>>

\* The group coordinator evicted the member (a batch that slept longer than
\* max.poll.interval, a lost session): it rejoins at the committed offset.
Rejoin ==
    /\ consumer.mode = "polling"
    /\ consumer' = [consumer EXCEPT !.position = consumer.committed]
    /\ UNCHANGED <<log, handled>>

\* The process dies, or is stopped between two batches.
Crash ==
    /\ consumer.mode # "down"
    /\ consumer' = [consumer EXCEPT !.mode = "down"]
    /\ UNCHANGED <<log, handled>>

Produce(r) ==
    /\ Len(log) < MaxRecords
    /\ log' = Append(log, r)
    /\ UNCHANGED <<consumer, handled>>

\* Counts a fault of the given kind against the budget.
Fault(kind) ==
    /\ kind \in FaultKinds
    /\ faults < MaxFaults
    /\ faults' = faults + 1

-----------------------------------------------------------------------------

FaultStep ==
    \/ Raise  /\ Fault("raise")
    \/ Rejoin /\ Fault("rejoin")
    \/ Crash  /\ Fault("crash")

WorkerStep == (Start \/ Poll \/ Finish \/ Commit) /\ UNCHANGED faults

Next ==
    \/ WorkerStep
    \/ FaultStep
    \/ (\E r \in Records : Produce(r)) /\ UNCHANGED faults

\* The worker keeps running: the loop is `while not shutdown` and the
\* container's restart policy is unless-stopped.
Spec == Init /\ [][Next]_vars /\ WF_vars(WorkerStep)

-----------------------------------------------------------------------------

TypeOK ==
    /\ log \in Seq(Records)
    /\ consumer \in ConsumerType
    /\ handled \subseteq 1..Len(log)
    /\ faults \in Nat

\* The offsets stay in order, within the log.
OffsetOrder ==
    /\ consumer.committed <= consumer.position
    /\ consumer.position <= Len(log)
    /\ consumer.mode = "batch" =>
          /\ consumer.committed <= consumer.next
          /\ consumer.next <= consumer.position

\* The records a committed offset has passed without their being handled.
Skipped == (1..consumer.committed) \ handled

\* No record is skipped: the promise of "raise", which is there to keep a
\* failed batch from being committed.
NoRecordSkipped == Skipped = {}

\* What the code does keep: a fault costs at most one batch, so at most
\* max_poll_records records per fault are skipped.
SkippedBounded == Cardinality(Skipped) <= MaxPoll * faults

\* No sequence of faults leaves the worker unable to go on: when faults and
\* producers stop, it ends up waiting behind the last record.  (Committed is
\* too much to ask: the records of a batch that raised stay uncommitted, and
\* unhandled, until a later batch commits over them or the worker restarts.)
EventuallyDrained ==
    <>[](consumer.mode = "polling" /\ consumer.position = Len(log))
=============================================================================
