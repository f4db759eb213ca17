--------------------------- MODULE CircuitBreaker ---------------------------
(***************************************************************************)
(* CircuitBreaker of core-service, as functions of the breaker's state and *)
(* the time.  Every DifyAIClient has a breaker of its own, and is used by  *)
(* one thread, so that no two calls overlap on it.                         *)
(***************************************************************************)
EXTENDS Naturals

CONSTANTS
    Threshold,       \* CIRCUIT_BREAKER_FAILURE_THRESHOLD
    ResetTimeout     \* CIRCUIT_BREAKER_RESET_TIMEOUT_SECONDS, in ticks

\* The constructor raises both to 1.
ASSUME BreakerAssumption == Threshold \in Nat \ {0} /\ ResetTimeout \in Nat \ {0}

Breaker == [state : {"closed", "open", "half_open"}, failure_count : Nat, opened_at : Nat]

\* opened_at = None is only told apart from 0 while the state is open.
ClosedBreaker == [state |-> "closed", failure_count |-> 0, opened_at |-> 0]

\* CircuitOpenError
Blocks(b, now) == b.state = "open" /\ now - b.opened_at < ResetTimeout

BeforeCall(b) == IF b.state = "open" THEN [b EXCEPT !.state = "half_open"] ELSE b

RecordSuccess(b) == ClosedBreaker

\* Mutant of RecordFailure: a failed probe leaves the circuit half open.
RecordFailureWhenClosed(b, now) ==
    IF b.state = "closed" /\ b.failure_count + 1 >= Threshold
    THEN [state |-> "open", failure_count |-> b.failure_count + 1, opened_at |-> now]
    ELSE [b EXCEPT !.failure_count = @ + 1]

RecordFailure(b, now) ==
    IF b.failure_count + 1 >= Threshold
    THEN [state |-> "open", failure_count |-> b.failure_count + 1, opened_at |-> now]
    ELSE [b EXCEPT !.failure_count = @ + 1]
=============================================================================
