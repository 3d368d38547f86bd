CONSTANTS
    Payments = {p1}
    MaxAttempts = 2
    MaxChecks = 1
    MaxLedger = 5
    Workers = {w1}
    Reliable = {}
    Operators = {}
    ResultCodes = {"success", "failed"}
    None = None
    Overtaking = FALSE
    ProviderRepeatsIds = FALSE
SPECIFICATION Spec
INVARIANTS
    ConflictStaysFlagged
CHECK_DEADLOCK FALSE
