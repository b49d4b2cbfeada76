SPECIFICATION Spec
CONSTANTS
    Configs = {c1, c2}
    Handlers = {h1, h2}
    Main = Main
    Pids = {p1, p2}
    Threads = {t1, t2}
    None = None
    MaxRunning = 2
    Serialised = TRUE
    ThreadFail = FALSE
    DbFail = FALSE
    Crashes = FALSE
    GiveUps = FALSE
SYMMETRY Symmetry
INVARIANTS ListedExactly  ServersWatched
