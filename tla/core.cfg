SPECIFICATION Spec
CONSTANTS
    e1 = e1
    Events = {e1}
    Callers <- MCCallers
    Decisions <- MCDecisions
    FastRetries = 1
    MaxRetries = 2
    MaxPoll = 1
    MaxSendRetries = 1
    MaxManual = 1
    MaxFaults = 2
    FaultKinds = {"crash", "raise", "rejoin", "publish", "decide"}
INVARIANTS
    TypeOK
    StatusIsBacked
    CommandIsLogged
    CommandsBounded
    ReviewsBounded
    HandledHasOutcome
CHECK_DEADLOCK FALSE
