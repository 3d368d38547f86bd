CONSTANTS
    Payments = {p1}
    MaxAttempts = 1
    MaxChecks = 2
    MaxLedger = 5
    Workers = {w1, w2}
    Reliable = {w1}
    Operators = {o1}
    ResultCodes = {"success", "failed", "unknown"}
    None = None
    Overtaking = TRUE
    ProviderRepeatsIds = FALSE
SPECIFICATION FairSpec
PROPERTIES
    PendingResolves
    SentResolves
CHECK_DEADLOCK FALSE
