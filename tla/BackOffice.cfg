\* Rows, requests, and the two pairs are shared by the components.
CONSTANTS
    None = None
    \* Invoices
    Invoices = {"invoice"}
    Payments = {row1, row2, row3}
    Clerks = {"clerk"}
    \* Sessions
    Sessions = {row1, row2, row3}
    Requests = {one, two}
    MaxResets = 1
    \* AccountTokens
    Tokens = {row1, row2, row3}
    Handlers = {"a", "b", "c"}
    Reissues = TRUE
    \* Team
    Emails = {"founder", "guest"}
    Founders = {"founder"}
    Invitations = {left, right}
    Admins = {one, two}
    \* Onboarding
    Credentials = {left, right}
    Verifications = {"KES 1"}
    Owners = {one, two}
    \* KeyRotation
    Bundles = {"secret"}
    Processes = {"a", "b", "c"}
    MaxSecrets = 4
    \* EmailOutbox
    Mails = {"mail"}
    Workers = {"a", "b", "c"}
    MaxAttempts = 2
    \* TokenCache: 10 s a unit, a 30 s margin, answers of up to 20 s
    Coroutines = {"a", "b", "c"}
    Lifetimes = {2, 5, 9}
    Cap = 7
    Margin = 3
    Timeout = 2
    MaxTime = 12

SPECIFICATION Spec
SYMMETRY Symmetry

INVARIANTS
    TypeOK
    PaidIsBacked
    LinkAsksOnce
    SuccessClosesInvoice
    OneHeadPerFamily
    ResetEndsSessions
    NoSelfInflictedReuse
    OneTokenOfAllPending
    InvitationsMatchMembers
    ActiveIsEarned
    RotationLosesNothing
    DeadLettersAreExhausted
    OneMailUnlessDoubtful
    CacheKeepsItsPromise

\* bounded rows: every component stops when its rows are used up
CHECK_DEADLOCK FALSE
