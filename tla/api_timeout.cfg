SPECIFICATION Spec
CONSTANTS
    CommandIds <- MCCommandIds
    Commands <- MCHide
    Malformed = Malformed
    NonObject = NonObject
    Answers <- MCSilent
    DefaultMaxRetries = 3
    MaxPoll = 2
    MaxRecords = 2
    MaxFaults = 0
    FaultKinds = {}
INVARIANT
    CommittedIsSettled
CHECK_DEADLOCK FALSE
