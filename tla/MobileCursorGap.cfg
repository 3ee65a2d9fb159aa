SPECIFICATION Spec
CONSTANTS
    cat = cat
    mov = mov
    TicksPerSecond = 1
    Devices = {1, 2}
    Phones = {1, 2}
    Records <- OneRecord
    Categories <- MCCategories
    CategoryOf <- NoMovement
    CreatorOf <- CreatedOnOne
    MaxClock = 6
    MaxEdits = 1
    MaxLate = 0
    MaxFails = 1
INVARIANT
    CursorCovers
CHECK_DEADLOCK FALSE
