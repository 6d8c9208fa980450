CONSTANTS
    None = None
    Agents = {g1}
    MaxScans = 2
    Lifetime = 1
    MaxLate = 1
    Faults = {"crash", "tear"}
SPECIFICATION FairSpec
INVARIANTS OneActiveScan ScannedOnce CompletedIsScanned ResultHeld
PROPERTIES ScanEnds OutboxClears
