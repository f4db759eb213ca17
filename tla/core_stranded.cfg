SPECIFICATION Spec
CONSTANTS
    e1 = e1
    Events = {e1}
    Callers <- MCCallers
    Decisions <- MCDecisions
    FastRetries = 1
    MaxRetries = 2
    MaxPoll = 1
    MaxSendRetries = 0
    MaxManual = 0
    MaxFaults = 1
    FaultKinds = {"crash"}
INVARIANT
    NoEventStranded
CHECK_DEADLOCK FALSE
