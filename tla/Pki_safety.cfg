SPECIFICATION Spec
CHECK_DEADLOCK FALSE
CONSTANTS
    h1 = h1
    h2 = h2
    a1 = a1
    a2 = a2
    c1 = c1
    c2 = c2
    p1 = p1
    p2 = p2
    s1 = s1
    s2 = s2
    Handlers = {h1, h2}
    CAs = {a1, a2}
    Configs = {c1, c2}
    Profiles = {p1, p2}
    Certs = {s1, s2}
    ConfigOf <- TwoConfigs
    None = None
    CaAlone = TRUE
    DbFail = TRUE
SYMMETRY Symmetry
INVARIANTS TypeOK  FlaggedIsListed
