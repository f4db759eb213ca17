SPECIFICATION Spec
CONSTANTS
    c1 = c1
    c2 = c2
    NullRecord = NullRecord
    Commands <- MCCommands
    Failures <- MCFailures
    MaxPoll = 2
    MaxRecords = 3
    MaxFaults = 2
    FaultKinds = {"crash", "raise", "rejoin"}
INVARIANTS
    TypeOK
    LedgerIsBacked
    HandledIsAnswered
    RetryIsJustified
    DeadLetterIsJustified
    DuplicatesBounded
PROPERTY
    DeadLetterIsFinal
CHECK_DEADLOCK FALSE
