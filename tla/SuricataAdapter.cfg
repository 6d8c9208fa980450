CONSTANTS
    Absent = Absent
    Alerts = {1, 2, 3}
    Inodes = {i1, i2}
    QueueLimit = 2
    MaxDeliveries = 1
    Faults = {"crash", "corrupt", "half", "rotate", "clock"}
SPECIFICATION FairSpec
INVARIANTS NothingElseLost InOrder
PROPERTIES FittingAlertsArrive
CONSTRAINTS Named OneStruck
