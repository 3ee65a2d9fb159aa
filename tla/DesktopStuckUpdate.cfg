SPECIFICATION Spec
CONSTANTS
    cat = cat
    mov = mov
    TicksPerSecond = 2
    Devices = {1, 2}
    Desktops = {1, 2}
    MaxContract = 1
    Records <- OneRecord
    Categories <- MCCategories
    CategoryOf <- NoMovement
    CreatorOf <- CreatedOnOne
    MaxClock = 6
    MaxEdits = 2
    MaxLate = 0
    MaxFails = 0
PROPERTY
    RejectedOnlyIfUnseen
CHECK_DEADLOCK FALSE
