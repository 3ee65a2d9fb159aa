CONSTANTS
    Devices = {d1, d2}
    Families = {f1, f2}
    Otps = {o1, o2}
    Proofs = {p1, p2}
    MaxAttempts = 2
    OtpsPerHour = 2
    AskedFor = {"device_enrollment", "device_authentication", "refresh", "device_rename", "device_revoke"}
    ReviewModes = {FALSE, TRUE}
    None = None
SYMMETRY Interchangeable
SPECIFICATION SessionSpec
CHECK_DEADLOCK FALSE
INVARIANTS
    SessionsNeedTrust
    ReplacedIsDead
    GuessesBounded
