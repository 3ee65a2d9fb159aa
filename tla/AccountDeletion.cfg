CONSTANTS
    Devices = {d1}
    Families = {f1}
    Otps = {}
    Proofs = {p1}
    MaxAttempts = 1
    OtpsPerHour = 1
    AskedFor = {"device_revoke"}
    ReviewModes = {TRUE}
    None = None
    Requests = {r1, r2}
    Calls = {c1, c2}
    Operator = operator
    MaxRenewals = 1
SPECIFICATION DeletionSpec
CHECK_DEADLOCK FALSE
INVARIANTS
    ClosedIsGone
    DeletedIsTrue
PROPERTIES
    ClosedByItsOwner
    OutcomeIsFinal
    IdentityEventuallyGone
