SPECIFICATION Spec
CONSTANTS
    c1 = c1
    c2 = c2
    NullRecord = NullRecord
    Commands <- MCCommands
    Failures <- MCFewFailures
    MaxPoll = 2
    MaxRecords = 3
    MaxFaults = 1
    FaultKinds = {"raise"}
INVARIANTS
    CommittedIsAnswered
CHECK_DEADLOCK FALSE
