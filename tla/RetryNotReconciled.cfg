CONSTANTS
    Payments = {p1}
    MaxAttempts = 2
    MaxChecks = 1
    MaxLedger = 5
    Workers = {w1}
    Reliable = {w1}
    Operators = {}
    ResultCodes = {"success"}
    None = None
    Overtaking = FALSE
    ProviderRepeatsIds = FALSE
SPECIFICATION FairSpec
PROPERTIES
    SentResolves
CHECK_DEADLOCK FALSE
