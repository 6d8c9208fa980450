SPECIFICATION Spec
CONSTANTS
    None = None
    Logins = {l1, l2}
    MaxCounter = 1
    MaxSecrets = 2
    CodesPerSet = 2
SYMMETRY Symmetry
INVARIANTS CodeOnce RecoveryListExact SessionsHaveFactor
CHECK_DEADLOCK FALSE
