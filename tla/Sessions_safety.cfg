SPECIFICATION Spec
CHECK_DEADLOCK FALSE
CONSTANTS
    c1 = c1
    c2 = c2
    p1 = p1
    p2 = p2
    p3 = p3
    Configs = {c1, c2}
    Profiles = {p1, p2, p3}
    ConfigOf <- ByConfig
    None = None
    Room = 1
    MaxOnline = 1
SYMMETRY Symmetry
INVARIANTS TypeOK OneOpenSession
PROPERTIES ClosedOnlyIfAway PresenceKept
