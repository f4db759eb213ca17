SPECIFICATION Spec
CONSTANTS
    worker = worker
    request = request
    Events <- MCEvents
    NoSender = NoSender
    Workers = {worker}
    Requests = {request}
    AIResults <- MCAIResults
    AutoReplyPositive = TRUE
    AutoReplyNegative = TRUE
    StrikeLimit = 2
    SpamWindow = 2
    RateLimit = 2
    RateWindow = 1
    Threshold = 2
    ResetTimeout = 2
    MaxTime = 3
    MaxCalls = 3
INVARIANTS
    TypeOK
    DecisionIsAdmissible
    BlacklistIsEarned
    DueIsBlacklisted
    BreakerFollowsOutages
CHECK_DEADLOCK FALSE
