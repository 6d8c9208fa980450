SPECIFICATION Spec
CONSTANTS
    None = None
    Closed = Closed
    Owner = owner
    Addresses = {owner, a1, a2}
    Roles = {"admin", "viewer"}
    Calls = {c1, c2}
    MaxInvitations = 3
SYMMETRY Symmetry
INVARIANTS InvitationOnce AdminByOwner OneLinkEach
PROPERTIES InactiveGetsNoSession
CHECK_DEADLOCK FALSE
CONSTRAINT Bounded
