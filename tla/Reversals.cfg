CONSTANTS
    Payments = {p1}
    Reversals = {r1, r2}
    PaymentOf <- OnePayment
    Workers = {w1, w2}
    Reliable = {w1}
    MaxQueries = 1
    None = None
SPECIFICATION FairSpec
INVARIANTS
    TypeOK
    SubmittedOnce
    NoDoubleReversal
    ReversedMeansExecuted
    SucceededMeansReversed
PROPERTIES
    CancellationHolds
    ImplementsPayback
    ApprovedResolves
CHECK_DEADLOCK FALSE
