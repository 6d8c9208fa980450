SPECIFICATION WorkerSpec
CONSTANTS
    Servers = {s1, s2}
    Addresses = {ip1}
    None = None
    MaxActions = 2
    BlockDurations = {2}
    PickupWindow = 1
    RunLimit = 2
    Roles = {"admin"}
    Texts = {"executed", "interrupted"}
    MaxLate = 1
SYMMETRY Symmetry
INVARIANTS ExecutedOnce WithdrawnNeverRan VerdictIsReal SavedResultArrives
PROPERTIES KeepsContract
CHECK_DEADLOCK FALSE
