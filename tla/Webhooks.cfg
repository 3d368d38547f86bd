CONSTANTS
    Endpoints = {e1}
    Deliveries = {d1, d2}
    EndpointOf <- OneEndpoint
    Workers = {w1, w2}
    Reliable = {w1}
    MaxAttempts = 2
    PauseAfter = 2
    Mishaps <- MishapsOfOne
    d1 = d1
    d2 = d2
    None = None
SPECIFICATION FairSpec
INVARIANTS
    TypeOK
    AttemptHistory
    PauseIsEarned
    VerdictIsEarned
PROPERTIES
    DeliverySettles
CHECK_DEADLOCK FALSE
