--------------------------- MODULE EventLifecycle ---------------------------
(***************************************************************************)
(* What the pipeline promises of an event, whatever services it visits: no *)
(* event comes to rest before it has an outcome - its action was done, a   *)
(* person is asked to look at it, it needs no action, or it was given up   *)
(* in the open - and an outcome is never taken back.                       *)
(***************************************************************************)
EXTENDS FiniteSets

CONSTANT Events

VARIABLES
    seen,        \* events that were taken in
    concluded,   \* events with an outcome
    busy         \* events some service still has work to do for

vars == <<seen, concluded, busy>>

Init == seen = {} /\ concluded = {} /\ busy = {}

Arrive(e) ==
    /\ e \notin seen
    /\ seen' = seen \cup {e}
    /\ busy' = busy \cup {e}
    /\ UNCHANGED concluded

Conclude(e) ==
    /\ e \in busy
    /\ concluded' = concluded \cup {e}
    /\ busy' \in {busy, busy \ {e}}
    /\ UNCHANGED seen

\* An event is put down only when it has an outcome.
Rest(e) ==
    /\ e \in concluded
    /\ busy' = busy \ {e}
    /\ UNCHANGED <<seen, concluded>>

\* An operator takes it up once more, or messages are delivered again: those of
\* a batch come back together.
Resume(again) ==
    /\ again \subseteq seen
    /\ busy' = busy \cup again
    /\ UNCHANGED <<seen, concluded>>

Next ==
    \/ \E e \in Events : Arrive(e) \/ Conclude(e) \/ Rest(e)
    \/ \E again \in SUBSET Events : Resume(again)

Spec == Init /\ [][Next]_vars
=============================================================================
