SPECIFICATION Spec
CONSTANTS
    None = None
    Addresses = {ip1}
    MaxGrants = 2
    Second = 2
    Duration = 4
    Latency = 2
    RetryDelay = 3
    MaxTime = 8
    Profiles = {p1, p2}
    Retained = {p2}
    KeepLast = 2
    MaxJobs = 3
INVARIANTS RuleEndsWithGrant BlockHolds UndoLifts KeptBackups
CHECK_DEADLOCK FALSE
