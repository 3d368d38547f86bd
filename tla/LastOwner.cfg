\* Two administrators each take the ownership of another owner.
CONSTANTS
    Emails = {e1, e2}
    Founders = {e1, e2}
    Invitations = {i1}
    Admins = {a1, a2}
    None = None

SPECIFICATION TeamSpec
INVARIANT OwnerIsRetained
CHECK_DEADLOCK FALSE
