SPECIFICATION Spec
CONSTANTS
    cat = cat
    mov = mov
    TicksPerSecond = 2
    Devices = {1}
    Desktops = {1}
    MaxContract = 1
    Records <- OneRecord
    Categories <- MCCategories
    CategoryOf <- NoMovement
    CreatorOf <- CreatedOnOne
    MaxClock = 2
    MaxEdits = 2
    MaxLate = 0
    MaxFails = 1
PROPERTY
    FailedRunKeepsChanges
CHECK_DEADLOCK FALSE
