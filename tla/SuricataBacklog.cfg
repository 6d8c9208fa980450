CONSTANTS
    Absent = Absent
    Alerts = {a1, a2}
    Inodes = {i1}
    QueueLimit = 1
    MaxDeliveries = 1
    Faults = {}
SPECIFICATION FairSpec
PROPERTIES
    AlertsArrive
