SPECIFICATION Spec
CONSTANTS
    Configs = {c1, c2}
    Handlers = {h1}
    Main = Main
    Pids = {p1, p2, p3}
    Threads = {t1, t2}
    None = None
    MaxRunning = 1
    Serialised = TRUE
    ThreadFail = TRUE
    DbFail = TRUE
    Crashes = TRUE
    GiveUps = FALSE
SYMMETRY Symmetry
INVARIANTS TypeOK OneMonitor OneServer StopOkMeansStopped RefusedStopUnwatched JoinReturns
PROPERTIES StoppedOnlyWhenDead
