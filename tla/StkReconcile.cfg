\* The sizes of MCStkReconcile choose among these.
CONSTANTS
    p1 = p1
    p2 = p2
    w1 = w1
    Payments = {p1, p2}
    MaxAttempts = 2
    MaxChecks = 2
    MaxLedger = 6
    Workers = {w1, w2}
    Reliable = {}
    Operators = {o1}
    ResultCodes = {"success", "unverified", "reused", "failed", "timeout", "unknown"}
    None = None
    Overtaking = TRUE
    ProviderRepeatsIds = TRUE
SPECIFICATION SizedSpec
INVARIANTS
    SuccessIsEvidenced
    OutcomeIsAnnounced
    SuccessMeansPaid
    ReceiptMatchesCallback
PROPERTIES
    ReceiptEvidenceWins
    SuccessIsFinal
\* every attempt, check and callback may be used up
CHECK_DEADLOCK FALSE
