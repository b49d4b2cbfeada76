SPECIFICATION FairSpec
CONSTANTS
    Configs = {c1}
    Handlers = {h1}
    Main = Main
    Pids = {p1, p2}
    Threads = {t1, t2}
    None = None
    MaxRunning = 1
    Serialised = TRUE
    ThreadFail = FALSE
    DbFail = FALSE
    Crashes = TRUE
    GiveUps = TRUE
PROPERTIES  RequestsEnd ShutdownEnds ExitNoticed
