SPECIFICATION FairSpec
CONSTANTS
    Servers = {s1}
    Addresses = {ip1}
    None = None
    MaxActions = 2
    BlockDurations = {1}
    PickupWindow = 1
    RunLimit = 1
    Roles = {"admin"}
    Texts = {"executed", "interrupted"}
    MaxLate = 0
PROPERTIES ReceiptClears RunningEnds
CHECK_DEADLOCK FALSE
