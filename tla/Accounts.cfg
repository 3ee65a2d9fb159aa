CONSTANTS
    Owners = {A, B}
    LegacyOwners = {B}
    Jobs = {j1, j2}
    MaxCalls <- TwoCalls
    Platforms = {"desktop", "android"}
    Local = Local
    Accounts = {C, D}
    NoAccount = NoAccount
    Requests = {j1, j2}
    LicenceLife = 2
    MaxNow = 3
    MaxAsked = 2
    MaxChanges = 2
    MaxTasks = 1
    Unresolved = Unresolved
    None = None
    former1 = former1
    former2 = former2
    now1 = now1
    now2 = now2
    MaxReviews = 1
SPECIFICATION ClientSpec
SYMMETRY SlotsAreAlike
INVARIANTS
    CredentialsAreKept
PROPERTIES
    AccountsSpec
    ProviderStays
    PlansAreCurrent
    DataFollowAccount
CHECK_DEADLOCK FALSE
