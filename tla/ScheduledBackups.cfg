SPECIFICATION FairSpec
CONSTANTS
    None = None
    NumProfiles = 2
    Interval <- Hours
    Rejected = {2}
    MaxDuration = 2
    MaxPause = 1
    MaxLate = 1
INVARIANTS ShownAgrees
PROPERTIES Spaced EveryProfileRuns
