CONSTANTS
    Payments = {p1}
    MaxAttempts = 2
    MaxChecks = 1
    MaxLedger = 5
    Workers = {}
    Reliable = {}
    Operators = {}
    ResultCodes = {"timeout"}
    None = None
    Overtaking = FALSE
    ProviderRepeatsIds = FALSE
SPECIFICATION FairSpec
PROPERTIES
    PendingResolves
CHECK_DEADLOCK FALSE
