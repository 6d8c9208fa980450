SPECIFICATION Spec
CONSTANTS
    None = None
    Keys = {k1}
    Notes = {n1, n2}
    Calls = {c1, c2}
    MaxToken = 4
SYMMETRY Symmetry
INVARIANTS SensorKeepsAccess
PROPERTIES RepeatKeepsTriage DeletedIsSilent
CHECK_DEADLOCK FALSE
