SPECIFICATION Spec
CONSTANTS
    Servers = {s1}
    Addresses = {ip1}
    None = None
    MaxActions = 3
    BlockDurations = {1, 2}
    PickupWindow = 1
    RunLimit = 2
    Roles = {"admin", "analyst"}
    Texts = {t1}
SYMMETRY Symmetry
INVARIANTS OneRunning OneGrant UndoHitsOwnBlock
PROPERTIES FinalStays
CHECK_DEADLOCK FALSE
