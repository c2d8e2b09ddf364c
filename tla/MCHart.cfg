CONSTANTS
    Hart = "hart"
    Devices <- OneDevice
    None = "none"
    VPages = {1, 2}
    PPages = {1, 2}
    Offsets = {1, 2}
    Programs <- BlockPrograms
SPECIFICATION HartSpec
INVARIANTS
    PendingIsCurrent
    BlocksAreCurrent
    StoresAreNoticed
PROPERTY PendingGetsAsserted
