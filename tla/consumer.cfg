SPECIFICATION Spec
CONSTANTS
    Records <- MCRecords
    MaxPoll = 2
    MaxRecords = 5
    MaxFaults = 3
    FaultKinds = {"crash", "raise", "rejoin"}
INVARIANTS
    TypeOK
    SkippedBounded
PROPERTY
    EventuallyDrained
CHECK_DEADLOCK FALSE
