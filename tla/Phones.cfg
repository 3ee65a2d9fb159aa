SPECIFICATION SceneSpec
CONSTANTS
    cat = cat
    mov = mov
    TicksPerSecond = 1
    Devices = {1, 2}
    Phones = {1, 2}
    Records <- TwoRecords
    Categories <- MCCategories
    CategoryOf <- OneMovement
    CreatorOf <- CreatedOnOne
    MaxClock = 7
    MaxEdits = 3
    MaxLate = 0
    MaxFails = 1
    RaceTicks = 5
    RaceEdits = 2
    TableTicks = 6
    PlanCategories = {p1}
    Months = {1, 2}
    Forms <- MCForms
    rent = rent
    dues = dues
    MaxRows = 3
    MaxReopens = 1
    Payers = {k1, k2}
    MaxEntries = 2
INVARIANTS
    SyncedWasUploaded
    CloudReferences
    OneCallOneEffect
PROPERTIES
    PendingSurvives
    CloudSpec
    BaselinedWriteDescends
    LostAnswerRecognised
CHECK_DEADLOCK FALSE
