SPECIFICATION FairSpec
CHECK_DEADLOCK FALSE
CONSTANTS
    c1 = c1
    c2 = c2
    p1 = p1
    p2 = p2
    p3 = p3
    Configs = {c1}
    Profiles = {p1, p2}
    ConfigOf <- OneConfig
    None = None
    Room = 2
    MaxOnline = 2
PROPERTIES LeftIsClosed ConnectedIsListed
