SPECIFICATION Spec
CONSTANTS
    CommandIds <- MCCommandIds
    Commands <- MCHide
    Malformed = Malformed
    NonObject = NonObject
    Answers <- MCOk
    DefaultMaxRetries = 3
    MaxPoll = 2
    MaxRecords = 2
    MaxFaults = 1
    FaultKinds = {"crash"}
INVARIANT
    ExecutedOnce
CHECK_DEADLOCK FALSE
