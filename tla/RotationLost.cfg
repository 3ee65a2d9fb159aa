CONSTANTS
    Owners = {A}
    LegacyOwners = {}
    Jobs = {j1}
    MaxCalls <- FourCalls
    Platforms = {"android"}
    Local = Local
SPECIFICATION Spec
INVARIANTS
    RotationSavedFirst
