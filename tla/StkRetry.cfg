CONSTANTS
    Payments = {p1}
    MaxAttempts = 2
    MaxChecks = 1
    MaxLedger = 5
    Workers = {}
    Reliable = {}
    Operators = {}
    ResultCodes = {"success", "failed", "timeout", "unknown"}
    None = None
    Overtaking = TRUE
    ProviderRepeatsIds = TRUE
SPECIFICATION Spec
INVARIANTS
    TypeOK
    UnknownIsFlagged
    SecondPromptNeedsOverride
PROPERTIES
    ChangesAreLedgered
    ImplementsLifecycle
CHECK_DEADLOCK FALSE
