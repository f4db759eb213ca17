SPECIFICATION Spec
CONSTANTS
    CommandIds <- MCCommandIds
    Commands <- MCCommands
    Malformed = Malformed
    NonObject = NonObject
    Answers <- MCAnswers
    DefaultMaxRetries = 3
    MaxPoll = 2
    MaxRecords = 2
    MaxFaults = 2
    FaultKinds = {"crash", "raise", "rejoin"}
INVARIANTS
    TypeOK
    HandledIsSettled
    TaxonomyAgrees
    ExecutionsBounded
    ReportsBounded
CHECK_DEADLOCK FALSE
