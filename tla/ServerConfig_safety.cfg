SPECIFICATION Spec
CONSTANTS
    Configs = {c1, c2}
    Requests = {r1}
    Handlers = {h1, h2}
    Sets = {s1, s2}
    Pastes <- CaOnly
    Versions = {v1, v2}
    None = None
    Serialised = TRUE
    Faults = TRUE
SYMMETRY Symmetry
INVARIANTS TypeOK   RowsTogether 
CHECK_DEADLOCK FALSE
