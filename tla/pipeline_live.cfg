SPECIFICATION Spec
CONSTANTS
    e1 = e1
    Events = {e1}
    Callers <- MCCallers
    Decisions <- MCReplies
    Answers <- MCRefused
    FastRetries = 0
    MaxRetries = 1
    NoRecord = NoRecord
    MaxPoll = 1
    MaxCommands = 12
    MaxManual = 1
    MaxFaults = 2
    CoreFaults = {"decide"}
    WorkerFaults = {}
PROPERTIES
    EventuallyConcluded
CHECK_DEADLOCK FALSE
