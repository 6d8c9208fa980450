SPECIFICATION Spec
CONSTANTS
    None = None
    m1 = m1
    m2 = m2
    h1 = h1
    Machines = {m1, m2}
    Hosts = {h1}
    HostOf <- SameName
    Enrolments = {e1, e2}
    Commands = {c1, c2}
    MaxToken = 3
SYMMETRY Symmetry
INVARIANTS OneMachinePerToken FileFollowsBackend
PROPERTIES RevokedUntilPaired
CHECK_DEADLOCK FALSE
