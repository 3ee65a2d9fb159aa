SPECIFICATION SceneSpec
CONSTANTS
    cat = cat
    mov = mov
    TicksPerSecond = 2
    Devices = {1, 2}
    Desktops = {1, 2}
    MaxContract = 2
    Records <- TwoRecords
    Categories <- MCCategories
    CategoryOf <- OneMovement
    CreatorOf <- CreatedOnOne
    MaxClock = 7
    MaxEdits = 2
    MaxLate = 1
    MaxFails = 2
    PairTicks = 5
    PairEdits = 2
    PairFails = 1
    MaxAttempts = 2
    MaxCodes = 1
    MaxCancels = 1
    Accounts = {a, b}
    first = first
    second = second
    call1 = call1
    call2 = call2
    None = None
INVARIANTS
    QuietSyncedWasUploaded
    AttemptsStayApart
PROPERTIES
    EvidenceIsKept
    CursorAdvancesOverBatch
    RevisionsGrow
    ForeignOverwriteIsRecorded
    ContractChangeCatchesUp
CHECK_DEADLOCK FALSE
