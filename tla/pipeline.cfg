SPECIFICATION Spec
CONSTANTS
    e1 = e1
    Events = {e1}
    Callers <- MCCallers
    Decisions <- MCDecisions
    Answers <- MCAnswers
    FastRetries = 0
    MaxRetries = 1
    NoRecord = NoRecord
    MaxPoll = 1
    MaxCommands = 12
    MaxManual = 0
    MaxFaults = 1
    CoreFaults = {"publish", "decide"}
    WorkerFaults = {"crash"}
INVARIANTS
    RetriesBounded
    RestsSettled
PROPERTIES
    ImplementsLifecycle
CHECK_DEADLOCK FALSE
