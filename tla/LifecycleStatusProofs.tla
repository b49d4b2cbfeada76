------------------------- MODULE LifecycleStatusProofs -------------------------
(***************************************************************************)
(* Proofs about Lifecycle: who may mark a configuration stopped, what a     *)
(* refused stop leaves behind, and that Lifecycle implements Servers, for   *)
(* any configurations, handlers, threads and processes, if requests for one *)
(* configuration do not overlap.                                            *)
(***************************************************************************)
EXTENDS LifecycleProofs

-----------------------------------------------------------------------------
(* The inductive invariant, on top of Serving.                              *)

\* Two configurations never name one process, and a process that is still
\* booting is named by none.
Files ==
    /\ \A c, d \in Configs : pidfile[c] # None /\ pidfile[c] = pidfile[d] => c = d
    /\ \A p \in Pids, c \in Configs : proc[p] = "boot" => pidfile[c] # p

\* The process a handler has just forked is its own child, not reaped, and
\* nobody else is about to wait for it or to signal it.
Forked ==
    \A h \in Handlers : pc[h] = "settle" =>
        /\ child[pid[h]] /\ proc[pid[h]] \in {"boot", "up", "zombie"}
        /\ Live(pid[h]) => pcfg[pid[h]] = arg[h]
        /\ \A c \in Configs : pidfile[c] = pid[h] => c = arg[h]
        /\ \A a \in Actors \ {h} : pc[a] \in {"term", "settle"} => pid[a] # pid[h]

\* From the launch to monitor_start the configuration has no running flag, and
\* nothing is flagged without a daemon.
NotYet ==
    /\ \A h \in Handlers :
         pc[h] \in {"launch", "settle", "mcheck", "mcreate"} => ~running[arg[h]]
    /\ core = "down" => \A c \in Configs : ~running[c]

\* The process that a monitored configuration's pid file names, if it names one,
\* is a child of the daemon that has not been reaped; so is the process that a
\* stop of a monitored configuration has read.
Held(c) == pidfile[c] # None => child[pidfile[c]] /\ proc[pidfile[c]] \in {"up", "zombie"}
Known ==
    /\ \A c \in Configs : running[c] => Held(c)
    /\ \A h \in Handlers : pc[h] \in {"mcheck", "mcreate"} => Held(arg[h])
    /\ \A a \in Actors : pc[a] = "term" /\ running[arg[a]] =>
         child[pid[a]] /\ proc[pid[a]] \in {"up", "zombie"}

\* A monitor that is about to mark its configuration stopped is right.
Marked ==
    \A t \in Threads : thread[t] = "mark" => \A p \in Pids : ~Serves(p, tcfg[t])

-----------------------------------------------------------------------------
\* fork gives a process no pid file names, and only that process names itself.
LEMMA FilesStep ==
    ASSUME Serialised, TypeInv, Files, [Next]_vars
    PROVE  Files'
<1>. USE ActorAssumption, NoneAssumption, Serialised
     DEF TypeInv, TypeOK, LocalsType, MonitorType, ProcessType,
         WellFormed, HandlersFit, MainFits, LocalsFit, ConfigsFit, DownIsIdle, Actors,
         Busy, BusyPC, StopPC, ApplyPC, MainPC, AtRest, coreVars, actorVars, monVars,
         procVars, Live, Files
<1>1. ASSUME NEW h \in Handlers, NEW o \in {"apply", "stop"}, NEW c \in Configs, Receive(h, o, c)
       PROVE  Files'
  BY <1>1 DEF Receive, AfterAccept
<1>2. ASSUME ReceiveOther PROVE Files'
  BY <1>2 DEF ReceiveOther, Goto, AfterAccept
<1>3. ASSUME RequestShutdown PROVE Files'
  BY <1>3 DEF RequestShutdown
<1>4. ASSUME NEW h \in Handlers, Reply(h) PROVE Files'
  BY <1>4 DEF Reply, Goto
<1>5. ASSUME NEW a \in Actors, StopReadPid(a) PROVE Files'
  BY <1>5 DEF StopReadPid, Goto
<1>6. ASSUME NEW a \in Actors, StopTerm(a) PROVE Files'
  BY <1>6 DEF StopTerm, Goto, AfterStop, Answer
<1>7. ASSUME NEW a \in Actors, StopWait(a) PROVE Files'
  BY <1>7 DEF StopWait, Goto, Dies, Corpse, Live
<1>8. ASSUME NEW a \in Actors, MonitorStopTest(a) PROVE Files'
  BY <1>8 DEF MonitorStopTest, Goto, AfterStop
<1>9. ASSUME NEW a \in Actors, MonitorStopClear(a) PROVE Files'
  BY <1>9 DEF MonitorStopClear, Goto
<1>10. ASSUME NEW a \in Actors, MonitorStopJoin(a) PROVE Files'
  BY <1>10 DEF MonitorStopJoin, Goto
<1>11. ASSUME NEW a \in Actors, MonitorStopUnlist(a) PROVE Files'
  BY <1>11 DEF MonitorStopUnlist, Goto, AfterStop
<1>12. ASSUME NEW h \in Handlers, StopSetStatus(h) PROVE Files'
  BY <1>12 DEF StopSetStatus, Goto, Answer
<1>13. ASSUME NEW h \in Handlers, StartAccess(h) PROVE Files'
  BY <1>13 DEF StartAccess, Goto, Answer
<1>14. ASSUME NEW h \in Handlers, StartLaunchFails(h) PROVE Files'
  BY <1>14 DEF StartLaunchFails, Goto, Answer
<1>15. ASSUME NEW h \in Handlers, NEW p \in Pids, StartLaunch(h, p) PROVE Files'
  BY <1>15 DEF StartLaunch, Goto, Live, FreshPid
<1>16. ASSUME NEW h \in Handlers, StartSettle(h) PROVE Files'
  BY <1>16 DEF StartSettle, Goto, Answer, Live
<1>17. ASSUME NEW h \in Handlers, MonitorStartTest(h) PROVE Files'
  BY <1>17 DEF MonitorStartTest, Goto
<1>18. ASSUME NEW h \in Handlers, NEW t \in Threads, MonitorStartCreate(h, t) PROVE Files'
  BY <1>18 DEF MonitorStartCreate, Goto
<1>19. ASSUME NEW h \in Handlers, MonitorStartFails(h) PROVE Files'
  BY <1>19 DEF MonitorStartFails, Goto
<1>20. ASSUME NEW h \in Handlers, MonitorStartList(h) PROVE Files'
  BY <1>20 DEF MonitorStartList, Goto
<1>21. ASSUME NEW h \in Handlers, ApplySetStatus(h) PROVE Files'
  BY <1>21 DEF ApplySetStatus, Goto, Answer
<1>22. ASSUME ShutdownSnapshot PROVE Files'
  BY <1>22 DEF ShutdownSnapshot, Goto
<1>23. ASSUME ShutdownNext PROVE Files'
  BY <1>23 DEF ShutdownNext, Goto
<1>24. ASSUME ShutdownDone PROVE Files'
  BY <1>24 DEF ShutdownDone, Goto
<1>25. ASSUME NEW t \in Threads, MonitorConnect(t) PROVE Files'
  BY <1>25 DEF MonitorConnect
<1>26. ASSUME NEW t \in Threads, MonitorCheck(t) PROVE Files'
  BY <1>26 DEF MonitorCheck
<1>27. ASSUME NEW t \in Threads, MonitorMark(t) PROVE Files'
  BY <1>27 DEF MonitorMark
<1>28. ASSUME NEW t \in Threads, PollReturns(t) PROVE Files'
  BY <1>28 DEF PollReturns
<1>29. ASSUME NEW p \in Pids, OpenvpnReady(p) PROVE Files'
  BY <1>29 DEF OpenvpnReady
<1>30. ASSUME NEW p \in Pids, OpenvpnCrash(p) PROVE Files'
  BY <1>30 DEF OpenvpnCrash, Dies, Corpse, Live
<1>31. ASSUME NEW p \in Pids, OpenvpnExit(p) PROVE Files'
  BY <1>31 DEF OpenvpnExit, Dies, Corpse, Live
<1>32. ASSUME NEW c \in Configs, WebDelete(c) PROVE Files'
  BY <1>32 DEF WebDelete
<1>33. ASSUME NEW left \in SUBSET {p \in Pids : Live(p)}, CoreEnd(left) PROVE Files'
  BY <1>33 DEF CoreEnd, Live
<1>34. ASSUME CoreStart PROVE Files'
  BY <1>34 DEF CoreStart
<1>35. CASE UNCHANGED vars
  BY <1>35 DEF vars
<1>36. ASSUME NEW a \in Actors, StopStep(a) PROVE Files'
  BY ONLY <1>36, <1>5, <1>6, <1>7, <1>8, <1>9, <1>10, <1>11 DEF StopStep
<1>37. ASSUME NEW h \in Handlers, HandlerStep(h) PROVE Files'
  BY ONLY <1>37, <1>36, <1>4, <1>12, <1>13, <1>14, <1>15, <1>16, <1>17, <1>18, <1>19, <1>20, <1>21
  DEF HandlerStep, Actors
<1>38. CASE MainStep
  BY ONLY <1>38, <1>36, <1>22, <1>23, <1>24 DEF MainStep, Actors
<1>39. ASSUME NEW t \in Threads, MonitorStep(t) PROVE Files'
  BY ONLY <1>39, <1>25, <1>26, <1>27, <1>28 DEF MonitorStep, MonitorPollCut
<1>40. CASE Environment
  BY ONLY <1>40, <1>1, <1>2, <1>3, <1>28, <1>29, <1>30, <1>31, <1>32, <1>33, <1>34
  DEF Environment, MonitorPolled
<1>. QED  BY ONLY [Next]_vars, <1>35, <1>37, <1>38, <1>39, <1>40 DEF Next

\* Until start_openvpn has waited for its child, nobody else gets hold of it.
LEMMA ForkedStep ==
    ASSUME Serialised, TypeInv, Exclusive, Served, Files, Forked, [Next]_vars
    PROVE  Forked'
<1>. USE ActorAssumption, NoneAssumption, Serialised
     DEF TypeInv, TypeOK, LocalsType, MonitorType, ProcessType,
         WellFormed, HandlersFit, MainFits, LocalsFit, ConfigsFit, DownIsIdle, Actors,
         Busy, BusyPC, StopPC, ApplyPC, MainPC, AtRest, coreVars, actorVars, monVars,
         procVars, Live,
         Exclusive, Served, Files, Forked, Serves
<1>1. ASSUME NEW h \in Handlers, NEW o \in {"apply", "stop"}, NEW c \in Configs, Receive(h, o, c)
       PROVE  Forked'
  BY <1>1 DEF Receive, AfterAccept
<1>2. ASSUME ReceiveOther PROVE Forked'
  BY <1>2 DEF ReceiveOther, Goto, AfterAccept
<1>3. ASSUME RequestShutdown PROVE Forked'
  BY <1>3 DEF RequestShutdown
<1>4. ASSUME NEW h \in Handlers, Reply(h) PROVE Forked'
  BY <1>4 DEF Reply, Goto
<1>5. ASSUME NEW a \in Actors, StopReadPid(a) PROVE Forked'
  BY <1>5 DEF StopReadPid, Goto
<1>6. ASSUME NEW a \in Actors, StopTerm(a) PROVE Forked'
  BY <1>6 DEF StopTerm, Goto, AfterStop, Answer
<1>7. ASSUME NEW a \in Actors, StopWait(a) PROVE Forked'
  BY <1>7 DEF StopWait, Goto, Dies, Corpse, Live
<1>8. ASSUME NEW a \in Actors, MonitorStopTest(a) PROVE Forked'
  BY <1>8 DEF MonitorStopTest, Goto, AfterStop
<1>9. ASSUME NEW a \in Actors, MonitorStopClear(a) PROVE Forked'
  BY <1>9 DEF MonitorStopClear, Goto
<1>10. ASSUME NEW a \in Actors, MonitorStopJoin(a) PROVE Forked'
  BY <1>10 DEF MonitorStopJoin, Goto
<1>11. ASSUME NEW a \in Actors, MonitorStopUnlist(a) PROVE Forked'
  BY <1>11 DEF MonitorStopUnlist, Goto, AfterStop
<1>12. ASSUME NEW h \in Handlers, StopSetStatus(h) PROVE Forked'
  BY <1>12 DEF StopSetStatus, Goto, Answer
<1>13. ASSUME NEW h \in Handlers, StartAccess(h) PROVE Forked'
  BY <1>13 DEF StartAccess, Goto, Answer
<1>14. ASSUME NEW h \in Handlers, StartLaunchFails(h) PROVE Forked'
  BY <1>14 DEF StartLaunchFails, Goto, Answer
<1>15. ASSUME NEW h \in Handlers, NEW p \in Pids, StartLaunch(h, p) PROVE Forked'
  BY <1>15 DEF StartLaunch, Goto, Live, FreshPid
<1>16. ASSUME NEW h \in Handlers, StartSettle(h) PROVE Forked'
  BY <1>16 DEF StartSettle, Goto, Answer, Live
<1>17. ASSUME NEW h \in Handlers, MonitorStartTest(h) PROVE Forked'
  BY <1>17 DEF MonitorStartTest, Goto
<1>18. ASSUME NEW h \in Handlers, NEW t \in Threads, MonitorStartCreate(h, t) PROVE Forked'
  BY <1>18 DEF MonitorStartCreate, Goto
<1>19. ASSUME NEW h \in Handlers, MonitorStartFails(h) PROVE Forked'
  BY <1>19 DEF MonitorStartFails, Goto
<1>20. ASSUME NEW h \in Handlers, MonitorStartList(h) PROVE Forked'
  BY <1>20 DEF MonitorStartList, Goto
<1>21. ASSUME NEW h \in Handlers, ApplySetStatus(h) PROVE Forked'
  BY <1>21 DEF ApplySetStatus, Goto, Answer
<1>22. ASSUME ShutdownSnapshot PROVE Forked'
  BY <1>22 DEF ShutdownSnapshot, Goto
<1>23. ASSUME ShutdownNext PROVE Forked'
  BY <1>23 DEF ShutdownNext, Goto
<1>24. ASSUME ShutdownDone PROVE Forked'
  BY <1>24 DEF ShutdownDone, Goto
<1>25. ASSUME NEW t \in Threads, MonitorConnect(t) PROVE Forked'
  BY <1>25 DEF MonitorConnect
<1>26. ASSUME NEW t \in Threads, MonitorCheck(t) PROVE Forked'
  BY <1>26 DEF MonitorCheck
<1>27. ASSUME NEW t \in Threads, MonitorMark(t) PROVE Forked'
  BY <1>27 DEF MonitorMark
<1>28. ASSUME NEW t \in Threads, PollReturns(t) PROVE Forked'
  BY <1>28 DEF PollReturns
<1>29. ASSUME NEW p \in Pids, OpenvpnReady(p) PROVE Forked'
  BY <1>29 DEF OpenvpnReady
<1>30. ASSUME NEW p \in Pids, OpenvpnCrash(p) PROVE Forked'
  BY <1>30 DEF OpenvpnCrash, Dies, Corpse, Live
<1>31. ASSUME NEW p \in Pids, OpenvpnExit(p) PROVE Forked'
  BY <1>31 DEF OpenvpnExit, Dies, Corpse, Live
<1>32. ASSUME NEW c \in Configs, WebDelete(c) PROVE Forked'
  BY <1>32 DEF WebDelete
<1>33. ASSUME NEW left \in SUBSET {p \in Pids : Live(p)}, CoreEnd(left) PROVE Forked'
  BY <1>33 DEF CoreEnd, Live
<1>34. ASSUME CoreStart PROVE Forked'
  BY <1>34 DEF CoreStart
<1>35. CASE UNCHANGED vars
  BY <1>35 DEF vars
<1>36. ASSUME NEW a \in Actors, StopStep(a) PROVE Forked'
  BY ONLY <1>36, <1>5, <1>6, <1>7, <1>8, <1>9, <1>10, <1>11 DEF StopStep
<1>37. ASSUME NEW h \in Handlers, HandlerStep(h) PROVE Forked'
  BY ONLY <1>37, <1>36, <1>4, <1>12, <1>13, <1>14, <1>15, <1>16, <1>17, <1>18, <1>19, <1>20, <1>21
  DEF HandlerStep, Actors
<1>38. CASE MainStep
  BY ONLY <1>38, <1>36, <1>22, <1>23, <1>24 DEF MainStep, Actors
<1>39. ASSUME NEW t \in Threads, MonitorStep(t) PROVE Forked'
  BY ONLY <1>39, <1>25, <1>26, <1>27, <1>28 DEF MonitorStep, MonitorPollCut
<1>40. CASE Environment
  BY ONLY <1>40, <1>1, <1>2, <1>3, <1>28, <1>29, <1>30, <1>31, <1>32, <1>33, <1>34
  DEF Environment, MonitorPolled
<1>. QED  BY ONLY [Next]_vars, <1>35, <1>37, <1>38, <1>39, <1>40 DEF Next

\* The stop that precedes a launch has cleared the flag, or found the process gone
\* and the flag clear.
LEMMA NotYetStep ==
    ASSUME Serialised, TypeInv, Exclusive, Unflagged, Known, NotYet, [Next]_vars
    PROVE  NotYet'
<1>. USE ActorAssumption, NoneAssumption, Serialised
     DEF TypeInv, TypeOK, LocalsType, MonitorType, ProcessType,
         WellFormed, HandlersFit, MainFits, LocalsFit, ConfigsFit, DownIsIdle, Actors,
         Busy, BusyPC, StopPC, ApplyPC, MainPC, AtRest, coreVars, actorVars, monVars,
         procVars, Live,
         Exclusive, Unflagged, StopsOk, Known, NotYet
<1>1. ASSUME NEW h \in Handlers, NEW o \in {"apply", "stop"}, NEW c \in Configs, Receive(h, o, c)
       PROVE  NotYet'
  BY <1>1 DEF Receive, AfterAccept
<1>2. ASSUME ReceiveOther PROVE NotYet'
  BY <1>2 DEF ReceiveOther, Goto, AfterAccept
<1>3. ASSUME RequestShutdown PROVE NotYet'
  BY <1>3 DEF RequestShutdown
<1>4. ASSUME NEW h \in Handlers, Reply(h) PROVE NotYet'
  BY <1>4 DEF Reply, Goto
<1>5. ASSUME NEW a \in Actors, StopReadPid(a) PROVE NotYet'
  BY <1>5 DEF StopReadPid, Goto
<1>6. ASSUME NEW a \in Actors, StopTerm(a) PROVE NotYet'
  BY <1>6 DEF StopTerm, Goto, AfterStop, Answer
<1>7. ASSUME NEW a \in Actors, StopWait(a) PROVE NotYet'
  BY <1>7 DEF StopWait, Goto, Dies, Corpse, Live
<1>8. ASSUME NEW a \in Actors, MonitorStopTest(a) PROVE NotYet'
  BY <1>8 DEF MonitorStopTest, Goto, AfterStop
<1>9. ASSUME NEW a \in Actors, MonitorStopClear(a) PROVE NotYet'
  BY <1>9 DEF MonitorStopClear, Goto
<1>10. ASSUME NEW a \in Actors, MonitorStopJoin(a) PROVE NotYet'
  BY <1>10 DEF MonitorStopJoin, Goto
<1>11. ASSUME NEW a \in Actors, MonitorStopUnlist(a) PROVE NotYet'
  BY <1>11 DEF MonitorStopUnlist, Goto, AfterStop
<1>12. ASSUME NEW h \in Handlers, StopSetStatus(h) PROVE NotYet'
  BY <1>12 DEF StopSetStatus, Goto, Answer
<1>13. ASSUME NEW h \in Handlers, StartAccess(h) PROVE NotYet'
  BY <1>13 DEF StartAccess, Goto, Answer
<1>14. ASSUME NEW h \in Handlers, StartLaunchFails(h) PROVE NotYet'
  BY <1>14 DEF StartLaunchFails, Goto, Answer
<1>15. ASSUME NEW h \in Handlers, NEW p \in Pids, StartLaunch(h, p) PROVE NotYet'
  BY <1>15 DEF StartLaunch, Goto, Live, FreshPid
<1>16. ASSUME NEW h \in Handlers, StartSettle(h) PROVE NotYet'
  BY <1>16 DEF StartSettle, Goto, Answer, Live
<1>17. ASSUME NEW h \in Handlers, MonitorStartTest(h) PROVE NotYet'
  BY <1>17 DEF MonitorStartTest, Goto
<1>18. ASSUME NEW h \in Handlers, NEW t \in Threads, MonitorStartCreate(h, t) PROVE NotYet'
  BY <1>18 DEF MonitorStartCreate, Goto
<1>19. ASSUME NEW h \in Handlers, MonitorStartFails(h) PROVE NotYet'
  BY <1>19 DEF MonitorStartFails, Goto
<1>20. ASSUME NEW h \in Handlers, MonitorStartList(h) PROVE NotYet'
  BY <1>20 DEF MonitorStartList, Goto
<1>21. ASSUME NEW h \in Handlers, ApplySetStatus(h) PROVE NotYet'
  BY <1>21 DEF ApplySetStatus, Goto, Answer
<1>22. ASSUME ShutdownSnapshot PROVE NotYet'
  BY <1>22 DEF ShutdownSnapshot, Goto
<1>23. ASSUME ShutdownNext PROVE NotYet'
  BY <1>23 DEF ShutdownNext, Goto
<1>24. ASSUME ShutdownDone PROVE NotYet'
  BY <1>24 DEF ShutdownDone, Goto
<1>25. ASSUME NEW t \in Threads, MonitorConnect(t) PROVE NotYet'
  BY <1>25 DEF MonitorConnect
<1>26. ASSUME NEW t \in Threads, MonitorCheck(t) PROVE NotYet'
  BY <1>26 DEF MonitorCheck
<1>27. ASSUME NEW t \in Threads, MonitorMark(t) PROVE NotYet'
  BY <1>27 DEF MonitorMark
<1>28. ASSUME NEW t \in Threads, PollReturns(t) PROVE NotYet'
  BY <1>28 DEF PollReturns
<1>29. ASSUME NEW p \in Pids, OpenvpnReady(p) PROVE NotYet'
  BY <1>29 DEF OpenvpnReady
<1>30. ASSUME NEW p \in Pids, OpenvpnCrash(p) PROVE NotYet'
  BY <1>30 DEF OpenvpnCrash, Dies, Corpse, Live
<1>31. ASSUME NEW p \in Pids, OpenvpnExit(p) PROVE NotYet'
  BY <1>31 DEF OpenvpnExit, Dies, Corpse, Live
<1>32. ASSUME NEW c \in Configs, WebDelete(c) PROVE NotYet'
  BY <1>32 DEF WebDelete
<1>33. ASSUME NEW left \in SUBSET {p \in Pids : Live(p)}, CoreEnd(left) PROVE NotYet'
  BY <1>33 DEF CoreEnd, All
<1>34. ASSUME CoreStart PROVE NotYet'
  BY <1>34 DEF CoreStart
<1>35. CASE UNCHANGED vars
  BY <1>35 DEF vars
<1>36. ASSUME NEW a \in Actors, StopStep(a) PROVE NotYet'
  BY ONLY <1>36, <1>5, <1>6, <1>7, <1>8, <1>9, <1>10, <1>11 DEF StopStep
<1>37. ASSUME NEW h \in Handlers, HandlerStep(h) PROVE NotYet'
  BY ONLY <1>37, <1>36, <1>4, <1>12, <1>13, <1>14, <1>15, <1>16, <1>17, <1>18, <1>19, <1>20, <1>21
  DEF HandlerStep, Actors
<1>38. CASE MainStep
  BY ONLY <1>38, <1>36, <1>22, <1>23, <1>24 DEF MainStep, Actors
<1>39. ASSUME NEW t \in Threads, MonitorStep(t) PROVE NotYet'
  BY ONLY <1>39, <1>25, <1>26, <1>27, <1>28 DEF MonitorStep, MonitorPollCut
<1>40. CASE Environment
  BY ONLY <1>40, <1>1, <1>2, <1>3, <1>28, <1>29, <1>30, <1>31, <1>32, <1>33, <1>34
  DEF Environment, MonitorPolled
<1>. QED  BY ONLY [Next]_vars, <1>35, <1>37, <1>38, <1>39, <1>40 DEF Next

\* The daemon reaps a child only before it monitors it: a monitored configuration's
\* process stays a zombie until it is stopped.
LEMMA KnownStep ==
    ASSUME Serialised, TypeInv, Exclusive, Served, Files, Forked, NotYet, Known, [Next]_vars
    PROVE  Known'
<1>. USE ActorAssumption, NoneAssumption, Serialised
     DEF TypeInv, TypeOK, LocalsType, MonitorType, ProcessType,
         WellFormed, HandlersFit, MainFits, LocalsFit, ConfigsFit, DownIsIdle, Actors,
         Busy, BusyPC, StopPC, ApplyPC, MainPC, AtRest, coreVars, actorVars, monVars,
         procVars, Live,
         Exclusive, Served, Files, Forked, NotYet, Held, Known, Serves
<1>1. ASSUME NEW h \in Handlers, NEW o \in {"apply", "stop"}, NEW c \in Configs, Receive(h, o, c)
       PROVE  Known'
  BY <1>1 DEF Receive, AfterAccept
<1>2. ASSUME ReceiveOther PROVE Known'
  BY <1>2 DEF ReceiveOther, Goto, AfterAccept
<1>3. ASSUME RequestShutdown PROVE Known'
  BY <1>3 DEF RequestShutdown
<1>4. ASSUME NEW h \in Handlers, Reply(h) PROVE Known'
  BY <1>4 DEF Reply, Goto
<1>5. ASSUME NEW a \in Actors, StopReadPid(a) PROVE Known'
  BY <1>5 DEF StopReadPid, Goto
<1>6. ASSUME NEW a \in Actors, StopTerm(a) PROVE Known'
  BY <1>6 DEF StopTerm, Goto, AfterStop, Answer
<1>7. ASSUME NEW a \in Actors, StopWait(a) PROVE Known'
  BY <1>7 DEF StopWait, Goto, Dies, Corpse, Live
<1>8. ASSUME NEW a \in Actors, MonitorStopTest(a) PROVE Known'
  BY <1>8 DEF MonitorStopTest, Goto, AfterStop
<1>9. ASSUME NEW a \in Actors, MonitorStopClear(a) PROVE Known'
  BY <1>9 DEF MonitorStopClear, Goto
<1>10. ASSUME NEW a \in Actors, MonitorStopJoin(a) PROVE Known'
  BY <1>10 DEF MonitorStopJoin, Goto
<1>11. ASSUME NEW a \in Actors, MonitorStopUnlist(a) PROVE Known'
  BY <1>11 DEF MonitorStopUnlist, Goto, AfterStop
<1>12. ASSUME NEW h \in Handlers, StopSetStatus(h) PROVE Known'
  BY <1>12 DEF StopSetStatus, Goto, Answer
<1>13. ASSUME NEW h \in Handlers, StartAccess(h) PROVE Known'
  BY <1>13 DEF StartAccess, Goto, Answer
<1>14. ASSUME NEW h \in Handlers, StartLaunchFails(h) PROVE Known'
  BY <1>14 DEF StartLaunchFails, Goto, Answer
<1>15. ASSUME NEW h \in Handlers, NEW p \in Pids, StartLaunch(h, p) PROVE Known'
  BY <1>15 DEF StartLaunch, Goto, Live, FreshPid
<1>16. ASSUME NEW h \in Handlers, StartSettle(h) PROVE Known'
  <2>1. CASE proc[pid[h]] = "zombie"
    BY <1>16, <2>1 DEF StartSettle, Goto, Answer
  <2>2. CASE proc[pid[h]] # "zombie"
    BY <1>16, <2>2 DEF StartSettle, Goto
  <2>. QED  BY <2>1, <2>2
<1>17. ASSUME NEW h \in Handlers, MonitorStartTest(h) PROVE Known'
  BY <1>17 DEF MonitorStartTest, Goto
<1>18. ASSUME NEW h \in Handlers, NEW t \in Threads, MonitorStartCreate(h, t) PROVE Known'
  BY <1>18 DEF MonitorStartCreate, Goto
<1>19. ASSUME NEW h \in Handlers, MonitorStartFails(h) PROVE Known'
  BY <1>19 DEF MonitorStartFails, Goto
<1>20. ASSUME NEW h \in Handlers, MonitorStartList(h) PROVE Known'
  BY <1>20 DEF MonitorStartList, Goto
<1>21. ASSUME NEW h \in Handlers, ApplySetStatus(h) PROVE Known'
  BY <1>21 DEF ApplySetStatus, Goto, Answer
<1>22. ASSUME ShutdownSnapshot PROVE Known'
  BY <1>22 DEF ShutdownSnapshot, Goto
<1>23. ASSUME ShutdownNext PROVE Known'
  BY <1>23 DEF ShutdownNext, Goto
<1>24. ASSUME ShutdownDone PROVE Known'
  BY <1>24 DEF ShutdownDone, Goto
<1>25. ASSUME NEW t \in Threads, MonitorConnect(t) PROVE Known'
  BY <1>25 DEF MonitorConnect
<1>26. ASSUME NEW t \in Threads, MonitorCheck(t) PROVE Known'
  BY <1>26 DEF MonitorCheck
<1>27. ASSUME NEW t \in Threads, MonitorMark(t) PROVE Known'
  BY <1>27 DEF MonitorMark
<1>28. ASSUME NEW t \in Threads, PollReturns(t) PROVE Known'
  BY <1>28 DEF PollReturns
<1>29. ASSUME NEW p \in Pids, OpenvpnReady(p) PROVE Known'
  <2>. DEFINE c == pcfg[p]
  <2>1. c \in Configs /\ proc[p] = "boot" /\ (\A d \in Configs : pidfile[d] # p)
    BY <1>29 DEF OpenvpnReady
  <2>2. UNCHANGED <<core, pc, arg, pid, running, child>>
    BY <1>29 DEF OpenvpnReady
  <2>3. \A q \in Pids : proc[q] \in {"up", "zombie"} => proc'[q] \in {"up", "zombie"}
    BY <1>29 DEF OpenvpnReady
  <2>4. \A d \in Configs : d # c => pidfile'[d] = pidfile[d]
    BY <1>29 DEF OpenvpnReady
  <2>5. proc'[p] = "up"
    BY <1>29 DEF OpenvpnReady
  <2>6. \A d \in Configs : d # c /\ Held(d) => Held(d)'
    BY <2>2, <2>3, <2>4
  <2>7. \A a \in Actors : pc'[a] = "term" /\ running'[arg'[a]] =>
          child'[pid'[a]] /\ proc'[pid'[a]] \in {"up", "zombie"}
    BY <2>2, <2>3
  <2>8. ~running[c] /\ \A h \in Handlers : pc[h] \in {"mcheck", "mcreate"} => arg[h] # c
    BY <2>1
  <2>9. \A d \in Configs : running'[d] => Held(d)'
    BY <2>2, <2>6, <2>8
  <2>10. \A h \in Handlers : pc'[h] \in {"mcheck", "mcreate"} => Held(arg[h])'
    BY <2>2, <2>6, <2>8
  <2>. QED  BY <2>7, <2>9, <2>10
<1>30. ASSUME NEW p \in Pids, OpenvpnCrash(p) PROVE Known'
  BY <1>30 DEF OpenvpnCrash, Dies, Corpse, Live
<1>31. ASSUME NEW p \in Pids, OpenvpnExit(p) PROVE Known'
  BY <1>31 DEF OpenvpnExit, Dies, Corpse, Live
<1>32. ASSUME NEW c \in Configs, WebDelete(c) PROVE Known'
  BY <1>32 DEF WebDelete
<1>33. ASSUME NEW left \in SUBSET {p \in Pids : Live(p)}, CoreEnd(left) PROVE Known'
  <2>1. \A c \in Configs : ~running'[c]
    BY <1>33 DEF CoreEnd, All
  <2>2. \A a \in Actors : pc'[a] \in {"accept", "idle"}
    BY <1>33 DEF CoreEnd
  <2>. QED  BY <2>1, <2>2
<1>34. ASSUME CoreStart PROVE Known'
  BY <1>34 DEF CoreStart
<1>35. CASE UNCHANGED vars
  BY <1>35 DEF vars
<1>36. ASSUME NEW a \in Actors, StopStep(a) PROVE Known'
  BY ONLY <1>36, <1>5, <1>6, <1>7, <1>8, <1>9, <1>10, <1>11 DEF StopStep
<1>37. ASSUME NEW h \in Handlers, HandlerStep(h) PROVE Known'
  BY ONLY <1>37, <1>36, <1>4, <1>12, <1>13, <1>14, <1>15, <1>16, <1>17, <1>18, <1>19, <1>20, <1>21
  DEF HandlerStep, Actors
<1>38. CASE MainStep
  BY ONLY <1>38, <1>36, <1>22, <1>23, <1>24 DEF MainStep, Actors
<1>39. ASSUME NEW t \in Threads, MonitorStep(t) PROVE Known'
  BY ONLY <1>39, <1>25, <1>26, <1>27, <1>28 DEF MonitorStep, MonitorPollCut
<1>40. CASE Environment
  BY ONLY <1>40, <1>1, <1>2, <1>3, <1>28, <1>29, <1>30, <1>31, <1>32, <1>33, <1>34
  DEF Environment, MonitorPolled
<1>. QED  BY ONLY [Next]_vars, <1>35, <1>37, <1>38, <1>39, <1>40 DEF Next

\* No server is launched while a monitor of its configuration is leaving.
LEMMA MarkedStep ==
    ASSUME Serialised, TypeInv, Exclusive, Watched, Served, NotYet, Known, Marked, [Next]_vars
    PROVE  Marked'
<1>. USE ActorAssumption, NoneAssumption, Serialised
     DEF TypeInv, TypeOK, LocalsType, MonitorType, ProcessType,
         WellFormed, HandlersFit, MainFits, LocalsFit, ConfigsFit, DownIsIdle, Actors,
         Busy, BusyPC, StopPC, ApplyPC, MainPC, AtRest, coreVars, actorVars, monVars,
         procVars, Live,
         Exclusive, Watched, Served, NotYet, Held, Known, Marked, Serves, WatchingPC
<1>1. ASSUME NEW h \in Handlers, NEW o \in {"apply", "stop"}, NEW c \in Configs, Receive(h, o, c)
       PROVE  Marked'
  BY <1>1 DEF Receive, AfterAccept
<1>2. ASSUME ReceiveOther PROVE Marked'
  BY <1>2 DEF ReceiveOther, Goto, AfterAccept
<1>3. ASSUME RequestShutdown PROVE Marked'
  BY <1>3 DEF RequestShutdown
<1>4. ASSUME NEW h \in Handlers, Reply(h) PROVE Marked'
  BY <1>4 DEF Reply, Goto
<1>5. ASSUME NEW a \in Actors, StopReadPid(a) PROVE Marked'
  BY <1>5 DEF StopReadPid, Goto
<1>6. ASSUME NEW a \in Actors, StopTerm(a) PROVE Marked'
  BY <1>6 DEF StopTerm, Goto, AfterStop, Answer
<1>7. ASSUME NEW a \in Actors, StopWait(a) PROVE Marked'
  BY <1>7 DEF StopWait, Goto, Dies, Corpse, Live
<1>8. ASSUME NEW a \in Actors, MonitorStopTest(a) PROVE Marked'
  BY <1>8 DEF MonitorStopTest, Goto, AfterStop
<1>9. ASSUME NEW a \in Actors, MonitorStopClear(a) PROVE Marked'
  BY <1>9 DEF MonitorStopClear, Goto
<1>10. ASSUME NEW a \in Actors, MonitorStopJoin(a) PROVE Marked'
  BY <1>10 DEF MonitorStopJoin, Goto
<1>11. ASSUME NEW a \in Actors, MonitorStopUnlist(a) PROVE Marked'
  BY <1>11 DEF MonitorStopUnlist, Goto, AfterStop
<1>12. ASSUME NEW h \in Handlers, StopSetStatus(h) PROVE Marked'
  BY <1>12 DEF StopSetStatus, Goto, Answer
<1>13. ASSUME NEW h \in Handlers, StartAccess(h) PROVE Marked'
  BY <1>13 DEF StartAccess, Goto, Answer
<1>14. ASSUME NEW h \in Handlers, StartLaunchFails(h) PROVE Marked'
  BY <1>14 DEF StartLaunchFails, Goto, Answer
<1>15. ASSUME NEW h \in Handlers, NEW p \in Pids, StartLaunch(h, p) PROVE Marked'
  BY <1>15 DEF StartLaunch, Goto, Live, FreshPid
<1>16. ASSUME NEW h \in Handlers, StartSettle(h) PROVE Marked'
  BY <1>16 DEF StartSettle, Goto, Answer, Live
<1>17. ASSUME NEW h \in Handlers, MonitorStartTest(h) PROVE Marked'
  BY <1>17 DEF MonitorStartTest, Goto
<1>18. ASSUME NEW h \in Handlers, NEW t \in Threads, MonitorStartCreate(h, t) PROVE Marked'
  BY <1>18 DEF MonitorStartCreate, Goto
<1>19. ASSUME NEW h \in Handlers, MonitorStartFails(h) PROVE Marked'
  BY <1>19 DEF MonitorStartFails, Goto
<1>20. ASSUME NEW h \in Handlers, MonitorStartList(h) PROVE Marked'
  BY <1>20 DEF MonitorStartList, Goto
<1>21. ASSUME NEW h \in Handlers, ApplySetStatus(h) PROVE Marked'
  BY <1>21 DEF ApplySetStatus, Goto, Answer
<1>22. ASSUME ShutdownSnapshot PROVE Marked'
  BY <1>22 DEF ShutdownSnapshot, Goto
<1>23. ASSUME ShutdownNext PROVE Marked'
  BY <1>23 DEF ShutdownNext, Goto
<1>24. ASSUME ShutdownDone PROVE Marked'
  BY <1>24 DEF ShutdownDone, Goto
<1>25. ASSUME NEW t \in Threads, MonitorConnect(t) PROVE Marked'
  BY <1>25 DEF MonitorConnect
<1>26. ASSUME NEW t \in Threads, MonitorCheck(t) PROVE Marked'
  <2>. DEFINE c == tcfg[t]
  <2>1. CASE thread'[t] # "mark"
    BY <1>26, <2>1 DEF MonitorCheck
  <2>2. CASE thread'[t] = "mark"
    <3>1. c \in Configs /\ running[c] /\ ~Answers(c)
      BY <1>26, <2>2 DEF MonitorCheck
    <3>2. pidfile[c] = None /\ core # "down"
      BY <3>1 DEF Answers
    <3>3. \A p \in Pids : ~(proc[p] = "up" /\ pcfg[p] = c)
      BY <3>2
    <3>4. \A p \in Pids : ~(proc[p] = "boot" /\ pcfg[p] = c)
      BY <3>1, <3>2
    <3>. QED  BY <1>26, <3>3, <3>4 DEF MonitorCheck
  <2>. QED  BY <2>1, <2>2
<1>27. ASSUME NEW t \in Threads, MonitorMark(t) PROVE Marked'
  BY <1>27 DEF MonitorMark
<1>28. ASSUME NEW t \in Threads, PollReturns(t) PROVE Marked'
  BY <1>28 DEF PollReturns
<1>29. ASSUME NEW p \in Pids, OpenvpnReady(p) PROVE Marked'
  BY <1>29 DEF OpenvpnReady
<1>30. ASSUME NEW p \in Pids, OpenvpnCrash(p) PROVE Marked'
  BY <1>30 DEF OpenvpnCrash, Dies, Corpse, Live
<1>31. ASSUME NEW p \in Pids, OpenvpnExit(p) PROVE Marked'
  BY <1>31 DEF OpenvpnExit, Dies, Corpse, Live
<1>32. ASSUME NEW c \in Configs, WebDelete(c) PROVE Marked'
  BY <1>32 DEF WebDelete
<1>33. ASSUME NEW left \in SUBSET {p \in Pids : Live(p)}, CoreEnd(left) PROVE Marked'
  BY <1>33 DEF CoreEnd, All
<1>34. ASSUME CoreStart PROVE Marked'
  BY <1>34 DEF CoreStart
<1>35. CASE UNCHANGED vars
  BY <1>35 DEF vars
<1>36. ASSUME NEW a \in Actors, StopStep(a) PROVE Marked'
  BY ONLY <1>36, <1>5, <1>6, <1>7, <1>8, <1>9, <1>10, <1>11 DEF StopStep
<1>37. ASSUME NEW h \in Handlers, HandlerStep(h) PROVE Marked'
  BY ONLY <1>37, <1>36, <1>4, <1>12, <1>13, <1>14, <1>15, <1>16, <1>17, <1>18, <1>19, <1>20, <1>21
  DEF HandlerStep, Actors
<1>38. CASE MainStep
  BY ONLY <1>38, <1>36, <1>22, <1>23, <1>24 DEF MainStep, Actors
<1>39. ASSUME NEW t \in Threads, MonitorStep(t) PROVE Marked'
  BY ONLY <1>39, <1>25, <1>26, <1>27, <1>28 DEF MonitorStep, MonitorPollCut
<1>40. CASE Environment
  BY ONLY <1>40, <1>1, <1>2, <1>3, <1>28, <1>29, <1>30, <1>31, <1>32, <1>33, <1>34
  DEF Environment, MonitorPolled
<1>. QED  BY ONLY [Next]_vars, <1>35, <1>37, <1>38, <1>39, <1>40 DEF Next

-----------------------------------------------------------------------------
Marking == Files /\ Forked /\ NotYet /\ Known /\ Marked

\* All parts of the inductive invariant hold in every reachable state.
LEMMA MarkingAlways == ASSUME Serialised PROVE Spec => [](Serving /\ Marking)
<1>1. Init => Marking
  BY ActorAssumption, NoneAssumption
  DEF Init, Marking, Files, Forked, NotYet, Known, Held, Marked, Serves, Live, All,
      AtRest, Actors
<1>2. Serving /\ Marking /\ [Next]_vars => Marking'
  BY Serialised, FilesStep, ForkedStep, NotYetStep, KnownStep, MarkedStep DEF Serving, Marking
<1>. QED  BY ServingAlways, <1>1, <1>2, PTL DEF Spec

\* stop_openvpn skips monitor_stop when kill fails; the configuration then has no
\* monitor to stop.
THEOREM RefusedStopSafe == ASSUME Serialised PROVE Spec => []RefusedStopUnwatched
<1>1. Serving /\ Marking => RefusedStopUnwatched
  BY ActorAssumption
  DEF Serving, Marking, TypeInv, WellFormed, LocalsFit, Busy, BusyPC, StopPC, Known,
      RefusedStopUnwatched
<1>. QED  BY MarkingAlways, <1>1, PTL

\* Only a step of a stop handler or of a monitor marks a configuration stopped.
LEMMA WhoMarks ==
    ASSUME TypeInv, [Next]_vars, NEW k \in Configs, status[k] = "running", status'[k] = "stopped"
    PROVE  \/ \E h \in Handlers : pc[h] = "dbstop" /\ arg[h] = k
           \/ \E t \in Threads : thread[t] = "mark" /\ tcfg[t] = k
<1>. DEFINE P == \/ \E h \in Handlers : pc[h] = "dbstop" /\ arg[h] = k
                 \/ \E t \in Threads : thread[t] = "mark" /\ tcfg[t] = k
<1>. USE ActorAssumption DEF TypeInv, TypeOK, ProcessType, coreVars, actorVars, monVars, procVars
<1>1. ASSUME NEW h \in Handlers, NEW o \in {"apply", "stop"}, NEW c \in Configs, Receive(h, o, c) PROVE P
  BY <1>1 DEF Receive
<1>2. ASSUME ReceiveOther PROVE P
  BY <1>2 DEF ReceiveOther
<1>3. ASSUME RequestShutdown PROVE P
  BY <1>3 DEF RequestShutdown
<1>4. ASSUME NEW h \in Handlers, Reply(h) PROVE P
  BY <1>4 DEF Reply
<1>5. ASSUME NEW a \in Actors, StopReadPid(a) PROVE P
  BY <1>5 DEF StopReadPid
<1>6. ASSUME NEW a \in Actors, StopTerm(a) PROVE P
  BY <1>6 DEF StopTerm
<1>7. ASSUME NEW a \in Actors, StopWait(a) PROVE P
  BY <1>7 DEF StopWait
<1>8. ASSUME NEW a \in Actors, MonitorStopTest(a) PROVE P
  BY <1>8 DEF MonitorStopTest
<1>9. ASSUME NEW a \in Actors, MonitorStopClear(a) PROVE P
  BY <1>9 DEF MonitorStopClear
<1>10. ASSUME NEW a \in Actors, MonitorStopJoin(a) PROVE P
  BY <1>10 DEF MonitorStopJoin
<1>11. ASSUME NEW a \in Actors, MonitorStopUnlist(a) PROVE P
  BY <1>11 DEF MonitorStopUnlist
<1>12. ASSUME NEW h \in Handlers, StopSetStatus(h) PROVE P
  BY <1>12 DEF StopSetStatus, WellFormed, HandlersFit, LocalsFit, ConfigsFit, Actors, Busy, BusyPC, WatchingPC
<1>13. ASSUME NEW h \in Handlers, StartAccess(h) PROVE P
  BY <1>13 DEF StartAccess
<1>14. ASSUME NEW h \in Handlers, StartLaunchFails(h) PROVE P
  BY <1>14 DEF StartLaunchFails
<1>15. ASSUME NEW h \in Handlers, NEW p \in Pids, StartLaunch(h, p) PROVE P
  BY <1>15 DEF StartLaunch
<1>16. ASSUME NEW h \in Handlers, StartSettle(h) PROVE P
  BY <1>16 DEF StartSettle
<1>17. ASSUME NEW h \in Handlers, MonitorStartTest(h) PROVE P
  BY <1>17 DEF MonitorStartTest
<1>18. ASSUME NEW h \in Handlers, NEW t \in Threads, MonitorStartCreate(h, t) PROVE P
  BY <1>18 DEF MonitorStartCreate
<1>19. ASSUME NEW h \in Handlers, MonitorStartFails(h) PROVE P
  BY <1>19 DEF MonitorStartFails
<1>20. ASSUME NEW h \in Handlers, MonitorStartList(h) PROVE P
  BY <1>20 DEF MonitorStartList
<1>21. ASSUME NEW h \in Handlers, ApplySetStatus(h) PROVE P
  BY <1>21 DEF ApplySetStatus, WellFormed, HandlersFit, LocalsFit, ConfigsFit, Actors, Busy, BusyPC, WatchingPC
<1>22. ASSUME ShutdownSnapshot PROVE P
  BY <1>22 DEF ShutdownSnapshot
<1>23. ASSUME ShutdownNext PROVE P
  BY <1>23 DEF ShutdownNext
<1>24. ASSUME ShutdownDone PROVE P
  BY <1>24 DEF ShutdownDone
<1>25. ASSUME NEW t \in Threads, MonitorConnect(t) PROVE P
  BY <1>25 DEF MonitorConnect
<1>26. ASSUME NEW t \in Threads, MonitorCheck(t) PROVE P
  BY <1>26 DEF MonitorCheck
<1>27. ASSUME NEW t \in Threads, MonitorMark(t) PROVE P
  BY <1>27 DEF MonitorMark, WellFormed, HandlersFit, LocalsFit, ConfigsFit, Actors, Busy, BusyPC, WatchingPC
<1>28. ASSUME NEW t \in Threads, PollReturns(t) PROVE P
  BY <1>28 DEF PollReturns
<1>29. ASSUME NEW p \in Pids, OpenvpnReady(p) PROVE P
  BY <1>29 DEF OpenvpnReady
<1>30. ASSUME NEW p \in Pids, OpenvpnCrash(p) PROVE P
  BY <1>30 DEF OpenvpnCrash
<1>31. ASSUME NEW p \in Pids, OpenvpnExit(p) PROVE P
  BY <1>31 DEF OpenvpnExit
<1>32. ASSUME NEW c \in Configs, WebDelete(c) PROVE P
  BY <1>32 DEF WebDelete
<1>33. ASSUME NEW left \in SUBSET {p \in Pids : Live(p)}, CoreEnd(left) PROVE P
  BY <1>33 DEF CoreEnd
<1>34. ASSUME CoreStart PROVE P
  BY <1>34 DEF CoreStart
<1>35. CASE UNCHANGED vars
  BY <1>35 DEF vars
<1>36. ASSUME NEW a \in Actors, StopStep(a) PROVE P
  BY ONLY <1>36, <1>5, <1>6, <1>7, <1>8, <1>9, <1>10, <1>11 DEF StopStep
<1>37. ASSUME NEW h \in Handlers, HandlerStep(h) PROVE P
  BY ONLY <1>37, <1>36, <1>4, <1>12, <1>13, <1>14, <1>15, <1>16, <1>17, <1>18, <1>19, <1>20, <1>21
  DEF HandlerStep, Actors
<1>38. CASE MainStep
  BY ONLY <1>38, <1>36, <1>22, <1>23, <1>24 DEF MainStep, Actors
<1>39. ASSUME NEW t \in Threads, MonitorStep(t) PROVE P
  BY ONLY <1>39, <1>25, <1>26, <1>27, <1>28 DEF MonitorStep, MonitorPollCut
<1>40. CASE Environment
  BY ONLY <1>40, <1>1, <1>2, <1>3, <1>28, <1>29, <1>30, <1>31, <1>32, <1>33, <1>34
  DEF Environment, MonitorPolled
<1>. QED  BY ONLY [Next]_vars, <1>35, <1>37, <1>38, <1>39, <1>40 DEF Next

\* Whoever marks a configuration stopped, its server is dead: no server comes to
\* life between a monitor's look at the pid file and its UPDATE, nor between a
\* handler's kill and its own.
THEOREM StoppedIsDead == ASSUME Serialised PROVE Spec => StoppedOnlyWhenDead
<1>. DEFINE Right == \A c \in Configs : status[c] = "running" /\ status'[c] = "stopped" =>
                         ~\E p \in Pids : Serves(p, c)
<1>1. Serving /\ Marking /\ [Next]_vars => Right
  <2>. SUFFICES ASSUME Serving, Marking, [Next]_vars, NEW c \in Configs,
                       status[c] = "running", status'[c] = "stopped",
                       NEW p \in Pids, Serves(p, c)
                PROVE  FALSE
    OBVIOUS
  <2>1. \/ \E h \in Handlers : pc[h] = "dbstop" /\ arg[h] = c
        \/ \E t \in Threads : thread[t] = "mark" /\ tcfg[t] = c
    BY WhoMarks DEF Serving
  <2>. QED  BY <2>1 DEF Serving, Marking, Cleared, Marked
<1>2. Right => [Right]_vars
  OBVIOUS
<1>. QED  BY MarkingAlways, <1>1, PTL DEF Spec, StoppedOnlyWhenDead

-----------------------------------------------------------------------------
(* What the refinement needs beyond Serving and Marking.                    *)

\* A handler that is not busy remembers no request.
Forgotten ==
    \A h \in Handlers : pc[h] = "idle" => op[h] = "nothing" /\ arg[h] = None

\* While a handler waits for the process it forked, no other serves its
\* configuration.
Sole ==
    \A h \in Handlers : pc[h] = "settle" =>
        \A q \in Pids : Serves(q, arg[h]) => q = pid[h]

Inv == Serving /\ Marking /\ Forgotten /\ Sole

\* The place of a handler after a step that moves no other handler.
LEMMA PhaseMoves ==
    ASSUME NEW h \in Handlers, NEW l, pc'[h] = l,
           \A g \in Handlers \ {h} : pc'[g] = pc[g] /\ res'[g] = res[g]
    PROVE  /\ l \in LaunchedPC => Phase' = [Phase EXCEPT ![h] = "launched"]
           /\ l = "reply" => Phase' = [Phase EXCEPT ![h] = res'[h]]
           /\ l = "idle" => Phase' = [Phase EXCEPT ![h] = "idle"]
           /\ l \notin LaunchedPC \union {"reply", "idle"}
                => Phase' = [Phase EXCEPT ![h] = "working"]
  BY DEF Phase, LaunchedPC

\* What the place of a handler says of its request.
LEMMA PhaseHere ==
    ASSUME NEW h \in Handlers
    PROVE  /\ pc[h] = "idle" => Phase[h] = "idle"
           /\ pc[h] = "reply" => Phase[h] = res[h]
           /\ pc[h] \in LaunchedPC => Phase[h] = "launched"
           /\ pc[h] \notin LaunchedPC \union {"reply", "idle"} => Phase[h] = "working"
  BY DEF Phase, LaunchedPC

\* A handler that goes on within the same phase, and a step of another thread.
LEMMA PhaseStays ==
    ASSUME \A g \in Handlers :
             /\ op'[g] = op[g] /\ arg'[g] = arg[g]
             /\ \/ pc'[g] = pc[g] /\ res'[g] = res[g]
                \/ /\ {pc[g], pc'[g]} \intersect {"idle", "reply"} = {}
                   /\ pc[g] \in LaunchedPC <=> pc'[g] \in LaunchedPC
    PROVE  UNCHANGED <<Phase, Asked, About>>
<1>1. UNCHANGED Phase
  BY DEF Phase, LaunchedPC
<1>. QED  BY <1>1 DEF Asked, About

\* The servers are the same if their processes are.
LEMMA AliveStays ==
    ASSUME proc' = proc, pcfg' = pcfg
    PROVE  UNCHANGED Alive
  BY DEF Alive, Serves, Live

\* Only taking a request and answering it touch what a handler remembers of it.
LEMMA ForgottenStep ==
    ASSUME Serialised, TypeInv, Forgotten, [Next]_vars
    PROVE  Forgotten'
<1>. USE ActorAssumption, NoneAssumption, Serialised
     DEF TypeInv, TypeOK, LocalsType, MonitorType, ProcessType,
         WellFormed, HandlersFit, MainFits, LocalsFit, ConfigsFit, DownIsIdle, Actors,
         Busy, BusyPC, StopPC, ApplyPC, MainPC, AtRest, coreVars, actorVars, monVars,
         procVars, Live, Forgotten
<1>1. ASSUME NEW h \in Handlers, NEW o \in {"apply", "stop"}, NEW c \in Configs, Receive(h, o, c)
       PROVE  Forgotten'
  BY <1>1 DEF Receive, AfterAccept
<1>2. ASSUME ReceiveOther PROVE Forgotten'
  BY <1>2 DEF ReceiveOther, Goto, AfterAccept
<1>3. ASSUME RequestShutdown PROVE Forgotten'
  BY <1>3 DEF RequestShutdown
<1>4. ASSUME NEW h \in Handlers, Reply(h) PROVE Forgotten'
  BY <1>4 DEF Reply, Goto
<1>5. ASSUME NEW a \in Actors, StopReadPid(a) PROVE Forgotten'
  BY <1>5 DEF StopReadPid, Goto
<1>6. ASSUME NEW a \in Actors, StopTerm(a) PROVE Forgotten'
  BY <1>6 DEF StopTerm, Goto, AfterStop, Answer
<1>7. ASSUME NEW a \in Actors, StopWait(a) PROVE Forgotten'
  BY <1>7 DEF StopWait, Goto, Dies, Corpse, Live
<1>8. ASSUME NEW a \in Actors, MonitorStopTest(a) PROVE Forgotten'
  BY <1>8 DEF MonitorStopTest, Goto, AfterStop
<1>9. ASSUME NEW a \in Actors, MonitorStopClear(a) PROVE Forgotten'
  BY <1>9 DEF MonitorStopClear, Goto
<1>10. ASSUME NEW a \in Actors, MonitorStopJoin(a) PROVE Forgotten'
  BY <1>10 DEF MonitorStopJoin, Goto
<1>11. ASSUME NEW a \in Actors, MonitorStopUnlist(a) PROVE Forgotten'
  BY <1>11 DEF MonitorStopUnlist, Goto, AfterStop
<1>12. ASSUME NEW h \in Handlers, StopSetStatus(h) PROVE Forgotten'
  BY <1>12 DEF StopSetStatus, Goto, Answer
<1>13. ASSUME NEW h \in Handlers, StartAccess(h) PROVE Forgotten'
  BY <1>13 DEF StartAccess, Goto, Answer
<1>14. ASSUME NEW h \in Handlers, StartLaunchFails(h) PROVE Forgotten'
  BY <1>14 DEF StartLaunchFails, Goto, Answer
<1>15. ASSUME NEW h \in Handlers, NEW p \in Pids, StartLaunch(h, p) PROVE Forgotten'
  BY <1>15 DEF StartLaunch, Goto, Live, FreshPid
<1>16. ASSUME NEW h \in Handlers, StartSettle(h) PROVE Forgotten'
  BY <1>16 DEF StartSettle, Goto, Answer, Live
<1>17. ASSUME NEW h \in Handlers, MonitorStartTest(h) PROVE Forgotten'
  BY <1>17 DEF MonitorStartTest, Goto
<1>18. ASSUME NEW h \in Handlers, NEW t \in Threads, MonitorStartCreate(h, t) PROVE Forgotten'
  BY <1>18 DEF MonitorStartCreate, Goto
<1>19. ASSUME NEW h \in Handlers, MonitorStartFails(h) PROVE Forgotten'
  BY <1>19 DEF MonitorStartFails, Goto
<1>20. ASSUME NEW h \in Handlers, MonitorStartList(h) PROVE Forgotten'
  BY <1>20 DEF MonitorStartList, Goto
<1>21. ASSUME NEW h \in Handlers, ApplySetStatus(h) PROVE Forgotten'
  BY <1>21 DEF ApplySetStatus, Goto, Answer
<1>22. ASSUME ShutdownSnapshot PROVE Forgotten'
  BY <1>22 DEF ShutdownSnapshot, Goto
<1>23. ASSUME ShutdownNext PROVE Forgotten'
  BY <1>23 DEF ShutdownNext, Goto
<1>24. ASSUME ShutdownDone PROVE Forgotten'
  BY <1>24 DEF ShutdownDone, Goto
<1>25. ASSUME NEW t \in Threads, MonitorConnect(t) PROVE Forgotten'
  BY <1>25 DEF MonitorConnect
<1>26. ASSUME NEW t \in Threads, MonitorCheck(t) PROVE Forgotten'
  BY <1>26 DEF MonitorCheck
<1>27. ASSUME NEW t \in Threads, MonitorMark(t) PROVE Forgotten'
  BY <1>27 DEF MonitorMark
<1>28. ASSUME NEW t \in Threads, PollReturns(t) PROVE Forgotten'
  BY <1>28 DEF PollReturns
<1>29. ASSUME NEW p \in Pids, OpenvpnReady(p) PROVE Forgotten'
  BY <1>29 DEF OpenvpnReady
<1>30. ASSUME NEW p \in Pids, OpenvpnCrash(p) PROVE Forgotten'
  BY <1>30 DEF OpenvpnCrash, Dies, Corpse, Live
<1>31. ASSUME NEW p \in Pids, OpenvpnExit(p) PROVE Forgotten'
  BY <1>31 DEF OpenvpnExit, Dies, Corpse, Live
<1>32. ASSUME NEW c \in Configs, WebDelete(c) PROVE Forgotten'
  BY <1>32 DEF WebDelete
<1>33. ASSUME NEW left \in SUBSET {p \in Pids : Live(p)}, CoreEnd(left) PROVE Forgotten'
  BY <1>33 DEF CoreEnd, All
<1>34. ASSUME CoreStart PROVE Forgotten'
  BY <1>34 DEF CoreStart
<1>35. CASE UNCHANGED vars
  BY <1>35 DEF vars
<1>36. ASSUME NEW a \in Actors, StopStep(a) PROVE Forgotten'
  BY ONLY <1>36, <1>5, <1>6, <1>7, <1>8, <1>9, <1>10, <1>11 DEF StopStep
<1>37. ASSUME NEW h \in Handlers, HandlerStep(h) PROVE Forgotten'
  BY ONLY <1>37, <1>36, <1>4, <1>12, <1>13, <1>14, <1>15, <1>16, <1>17, <1>18, <1>19, <1>20, <1>21
  DEF HandlerStep, Actors
<1>38. CASE MainStep
  BY ONLY <1>38, <1>36, <1>22, <1>23, <1>24 DEF MainStep, Actors
<1>39. ASSUME NEW t \in Threads, MonitorStep(t) PROVE Forgotten'
  BY ONLY <1>39, <1>25, <1>26, <1>27, <1>28 DEF MonitorStep, MonitorPollCut
<1>40. CASE Environment
  BY ONLY <1>40, <1>1, <1>2, <1>3, <1>28, <1>29, <1>30, <1>31, <1>32, <1>33, <1>34
  DEF Environment, MonitorPolled
<1>. QED  BY ONLY [Next]_vars, <1>35, <1>37, <1>38, <1>39, <1>40 DEF Next

\* A process is launched when no other serves, and another launch is excluded.
LEMMA SoleStep ==
    ASSUME Serialised, TypeInv, Exclusive, Served, Cleared, Sole, [Next]_vars
    PROVE  Sole'
<1>. USE ActorAssumption, NoneAssumption, Serialised
     DEF TypeInv, TypeOK, LocalsType, MonitorType, ProcessType,
         WellFormed, HandlersFit, MainFits, LocalsFit, ConfigsFit, DownIsIdle, Actors,
         Busy, BusyPC, StopPC, ApplyPC, MainPC, AtRest, coreVars, actorVars, monVars,
         procVars, Live, Exclusive, Served, Cleared, Sole, Serves
<1>1. ASSUME NEW h \in Handlers, NEW o \in {"apply", "stop"}, NEW c \in Configs, Receive(h, o, c)
       PROVE  Sole'
  BY <1>1 DEF Receive, AfterAccept
<1>2. ASSUME ReceiveOther PROVE Sole'
  BY <1>2 DEF ReceiveOther, Goto, AfterAccept
<1>3. ASSUME RequestShutdown PROVE Sole'
  BY <1>3 DEF RequestShutdown
<1>4. ASSUME NEW h \in Handlers, Reply(h) PROVE Sole'
  BY <1>4 DEF Reply, Goto
<1>5. ASSUME NEW a \in Actors, StopReadPid(a) PROVE Sole'
  BY <1>5 DEF StopReadPid, Goto
<1>6. ASSUME NEW a \in Actors, StopTerm(a) PROVE Sole'
  BY <1>6 DEF StopTerm, Goto, AfterStop, Answer
<1>7. ASSUME NEW a \in Actors, StopWait(a) PROVE Sole'
  BY <1>7 DEF StopWait, Goto, Dies, Corpse, Live
<1>8. ASSUME NEW a \in Actors, MonitorStopTest(a) PROVE Sole'
  BY <1>8 DEF MonitorStopTest, Goto, AfterStop
<1>9. ASSUME NEW a \in Actors, MonitorStopClear(a) PROVE Sole'
  BY <1>9 DEF MonitorStopClear, Goto
<1>10. ASSUME NEW a \in Actors, MonitorStopJoin(a) PROVE Sole'
  BY <1>10 DEF MonitorStopJoin, Goto
<1>11. ASSUME NEW a \in Actors, MonitorStopUnlist(a) PROVE Sole'
  BY <1>11 DEF MonitorStopUnlist, Goto, AfterStop
<1>12. ASSUME NEW h \in Handlers, StopSetStatus(h) PROVE Sole'
  BY <1>12 DEF StopSetStatus, Goto, Answer
<1>13. ASSUME NEW h \in Handlers, StartAccess(h) PROVE Sole'
  BY <1>13 DEF StartAccess, Goto, Answer
<1>14. ASSUME NEW h \in Handlers, StartLaunchFails(h) PROVE Sole'
  BY <1>14 DEF StartLaunchFails, Goto, Answer
<1>15. ASSUME NEW h \in Handlers, NEW p \in Pids, StartLaunch(h, p) PROVE Sole'
  BY <1>15 DEF StartLaunch, Goto, Live, FreshPid
<1>16. ASSUME NEW h \in Handlers, StartSettle(h) PROVE Sole'
  BY <1>16 DEF StartSettle, Goto, Answer, Live
<1>17. ASSUME NEW h \in Handlers, MonitorStartTest(h) PROVE Sole'
  BY <1>17 DEF MonitorStartTest, Goto
<1>18. ASSUME NEW h \in Handlers, NEW t \in Threads, MonitorStartCreate(h, t) PROVE Sole'
  BY <1>18 DEF MonitorStartCreate, Goto
<1>19. ASSUME NEW h \in Handlers, MonitorStartFails(h) PROVE Sole'
  BY <1>19 DEF MonitorStartFails, Goto
<1>20. ASSUME NEW h \in Handlers, MonitorStartList(h) PROVE Sole'
  BY <1>20 DEF MonitorStartList, Goto
<1>21. ASSUME NEW h \in Handlers, ApplySetStatus(h) PROVE Sole'
  BY <1>21 DEF ApplySetStatus, Goto, Answer
<1>22. ASSUME ShutdownSnapshot PROVE Sole'
  BY <1>22 DEF ShutdownSnapshot, Goto
<1>23. ASSUME ShutdownNext PROVE Sole'
  BY <1>23 DEF ShutdownNext, Goto
<1>24. ASSUME ShutdownDone PROVE Sole'
  BY <1>24 DEF ShutdownDone, Goto
<1>25. ASSUME NEW t \in Threads, MonitorConnect(t) PROVE Sole'
  BY <1>25 DEF MonitorConnect
<1>26. ASSUME NEW t \in Threads, MonitorCheck(t) PROVE Sole'
  BY <1>26 DEF MonitorCheck
<1>27. ASSUME NEW t \in Threads, MonitorMark(t) PROVE Sole'
  BY <1>27 DEF MonitorMark
<1>28. ASSUME NEW t \in Threads, PollReturns(t) PROVE Sole'
  BY <1>28 DEF PollReturns
<1>29. ASSUME NEW p \in Pids, OpenvpnReady(p) PROVE Sole'
  BY <1>29 DEF OpenvpnReady
<1>30. ASSUME NEW p \in Pids, OpenvpnCrash(p) PROVE Sole'
  BY <1>30 DEF OpenvpnCrash, Dies, Corpse, Live
<1>31. ASSUME NEW p \in Pids, OpenvpnExit(p) PROVE Sole'
  BY <1>31 DEF OpenvpnExit, Dies, Corpse, Live
<1>32. ASSUME NEW c \in Configs, WebDelete(c) PROVE Sole'
  BY <1>32 DEF WebDelete
<1>33. ASSUME NEW left \in SUBSET {p \in Pids : Live(p)}, CoreEnd(left) PROVE Sole'
  BY <1>33 DEF CoreEnd, Live
<1>34. ASSUME CoreStart PROVE Sole'
  BY <1>34 DEF CoreStart
<1>35. CASE UNCHANGED vars
  BY <1>35 DEF vars
<1>36. ASSUME NEW a \in Actors, StopStep(a) PROVE Sole'
  BY ONLY <1>36, <1>5, <1>6, <1>7, <1>8, <1>9, <1>10, <1>11 DEF StopStep
<1>37. ASSUME NEW h \in Handlers, HandlerStep(h) PROVE Sole'
  BY ONLY <1>37, <1>36, <1>4, <1>12, <1>13, <1>14, <1>15, <1>16, <1>17, <1>18, <1>19, <1>20, <1>21
  DEF HandlerStep, Actors
<1>38. CASE MainStep
  BY ONLY <1>38, <1>36, <1>22, <1>23, <1>24 DEF MainStep, Actors
<1>39. ASSUME NEW t \in Threads, MonitorStep(t) PROVE Sole'
  BY ONLY <1>39, <1>25, <1>26, <1>27, <1>28 DEF MonitorStep, MonitorPollCut
<1>40. CASE Environment
  BY ONLY <1>40, <1>1, <1>2, <1>3, <1>28, <1>29, <1>30, <1>31, <1>32, <1>33, <1>34
  DEF Environment, MonitorPolled
<1>. QED  BY ONLY [Next]_vars, <1>35, <1>37, <1>38, <1>39, <1>40 DEF Next


-----------------------------------------------------------------------------
(* The refinement.                                                          *)

\* A daemon that has just started promises what Servers starts with.
LEMMA PromisedInit == Init => Promised!Init
<1>. SUFFICES ASSUME Init PROVE Promised!Init
  OBVIOUS
<1>1. \A h \in Handlers : pc[h] = "idle" /\ op[h] = "nothing" /\ arg[h] = None
  BY ActorAssumption DEF Init, All, AtRest, Actors
<1>2. Phase = [h \in Handlers |-> "idle"]
  BY <1>1, PhaseHere DEF Phase
<1>3. Alive = [c \in Configs |-> {}]
  BY DEF Init, All, Alive, Serves, Live
<1>. QED  BY <1>1, <1>2, <1>3 DEF Init, All, Promised!Init, Asked, About

\* The death of one process ends one server, or none.
LEMMA DeathEnds ==
    ASSUME Inv, NEW p \in Pids, Dies(p)
    PROVE  UNCHANGED Alive \/ \E c \in Configs : Alive[c] # {} /\ Alive' = [Alive EXCEPT ![c] = {}]
<1>. USE DEF Inv, Serving, TypeInv, TypeOK, ProcessType
<1>1. \A q \in Pids, c \in Configs : Serves(q, c)' <=> (Serves(q, c) /\ q # p)
  BY DEF Dies, Serves, Live, Corpse
<1>2. CASE \A c \in Configs : ~Serves(p, c)
  BY <1>1, <1>2 DEF Alive
<1>3. ASSUME NEW c \in Configs, Serves(p, c)
      PROVE  Alive[c] # {} /\ Alive' = [Alive EXCEPT ![c] = {}]
  <2>1. \A q \in Pids : Serves(q, c) => q = p
    BY <1>3 DEF Served, Serves, Live
  <2>2. \A d \in Configs \ {c} : ~Serves(p, d)
    BY <1>3 DEF Serves
  <2>3. \A d \in Configs : Alive'[d] = IF d = c THEN {} ELSE Alive[d]
    BY <1>1, <2>1, <2>2 DEF Alive
  <2>4. Alive' = [Alive EXCEPT ![c] = {}]
    BY <2>3 DEF Alive
  <2>. QED  BY <1>3, <2>4 DEF Alive
<1>. QED  BY <1>2, <1>3

\* Every step of the daemon, of OpenVPN and of the web tier is a step of Servers or none.
LEMMA PromisedStep ==
    ASSUME Serialised, Inv, [Next]_vars
    PROVE  [Promised!Next]_(Promised!vars)
<1>. USE ActorAssumption, NoneAssumption, Serialised
     DEF Inv, Serving, TypeInv, TypeOK, LocalsType, Actors, WellFormed, HandlersFit,
         BusyPC, StopPC, ApplyPC, MainPC, LaunchedPC, coreVars, actorVars, monVars, procVars,
         Promised!vars, Promised!requestVars
<1>1. ASSUME NEW h \in Handlers, NEW o \in {"apply", "stop"}, NEW c \in Configs, Receive(h, o, c)
       PROVE  [Promised!Next]_(Promised!vars)
  <2>1. Phase' = [Phase EXCEPT ![h] = "working"] /\ Phase[h] = "idle"
    <3>1. pc'[h] \in {"access", "readpid"}
      BY <1>1 DEF Receive
    <3>2. \A g \in Handlers \ {h} : pc'[g] = pc[g] /\ res'[g] = res[g]
      BY <1>1 DEF Receive
    <3>. QED  BY <1>1, <3>1, <3>2, PhaseMoves, PhaseHere DEF Receive
  <2>2. Asked' = [Asked EXCEPT ![h] = o] /\ About' = [About EXCEPT ![h] = c]
    BY <1>1 DEF Receive, Asked, About
  <2>3. \A g \in Handlers : About[g] # c
    BY <1>1 DEF Receive, About, Forgotten, Busy
  <2>4. UNCHANGED <<Alive, status>>
    BY <1>1, AliveStays DEF Receive
  <2>. QED  BY <2>1, <2>2, <2>3, <2>4 DEF Promised!Next, Promised!Ask, Promised!Turn
<1>2. ASSUME ReceiveOther PROVE [Promised!Next]_(Promised!vars)
  <2>1. UNCHANGED <<Phase, Asked, About>>
    BY <1>2, PhaseStays DEF ReceiveOther, Goto, AfterAccept
  <2>2. UNCHANGED <<Alive, status>>
    BY <1>2, AliveStays DEF ReceiveOther, Goto, AfterAccept
  <2>. QED  BY <2>1, <2>2
<1>3. ASSUME RequestShutdown PROVE [Promised!Next]_(Promised!vars)
  <2>1. UNCHANGED <<Phase, Asked, About>>
    BY <1>3, PhaseStays DEF RequestShutdown
  <2>2. UNCHANGED <<Alive, status>>
    BY <1>3, AliveStays DEF RequestShutdown
  <2>. QED  BY <2>1, <2>2
<1>4. ASSUME NEW h \in Handlers, Reply(h) PROVE [Promised!Next]_(Promised!vars)
  <2>1. Phase' = [Phase EXCEPT ![h] = "idle"] /\ Phase[h] \in {"ok", "error"}
    BY <1>4, PhaseMoves, PhaseHere DEF Reply, Goto
  <2>2. Asked' = [Asked EXCEPT ![h] = "nothing"] /\ About' = [About EXCEPT ![h] = None]
    BY <1>4 DEF Reply, Asked, About
  <2>3. UNCHANGED <<Alive, status>>
    BY <1>4, AliveStays DEF Reply
  <2>. QED  BY <2>1, <2>2, <2>3 DEF Promised!Next, Promised!Done, Promised!Turn
<1>5. ASSUME NEW a \in Actors, StopReadPid(a) PROVE [Promised!Next]_(Promised!vars)
  <2>1. UNCHANGED <<Phase, Asked, About>>
    BY <1>5, PhaseStays DEF StopReadPid, Goto
  <2>2. UNCHANGED <<Alive, status>>
    BY <1>5, AliveStays DEF StopReadPid, Goto
  <2>. QED  BY <2>1, <2>2
<1>6. ASSUME NEW a \in Actors, StopTerm(a) PROVE [Promised!Next]_(Promised!vars)
  <2>1. UNCHANGED <<Alive, status, Asked, About>>
    BY <1>6, AliveStays DEF StopTerm, Asked, About
  <2>2. CASE a \in Handlers /\ op[a] = "stop" /\ proc[pid[a]] = "gone"
    <3>1. Phase' = [Phase EXCEPT ![a] = "error"] /\ Phase[a] = "working"
      BY <1>6, <2>2, PhaseMoves, PhaseHere DEF StopTerm, Answer, Goto
    <3>2. arg[a] \in Configs /\ Alive[arg[a]] = {}
      BY <1>6, <2>2 DEF StopTerm, Cleared, Alive, Serves, Live, LocalsFit, Busy
    <3>3. Promised!StopAnswers(a, "error")
      BY <2>1, <2>2, <3>1, <3>2 DEF Promised!StopAnswers, Promised!Turn, Asked, About
    <3>. QED  BY <2>2, <3>3 DEF Promised!Next
  <2>3. CASE ~(a \in Handlers /\ op[a] = "stop" /\ proc[pid[a]] = "gone")
    <3>1. UNCHANGED Phase
      BY <1>6, <2>3, PhaseStays DEF StopTerm, Answer, Goto, AfterStop
    <3>. QED  BY <2>1, <3>1
  <2>. QED  BY <2>2, <2>3
<1>7. ASSUME NEW a \in Actors, StopWait(a) PROVE [Promised!Next]_(Promised!vars)
  <2>1. UNCHANGED <<Phase, Asked, About, status>>
    BY <1>7, PhaseStays DEF StopWait, Goto
  <2>2. UNCHANGED Alive \/ \E c \in Configs : Alive[c] # {} /\ Alive' = [Alive EXCEPT ![c] = {}]
    BY <1>7, DeathEnds, AliveStays DEF StopWait, Goto, LocalsFit
  <2>. QED  BY <2>1, <2>2 DEF Promised!Next, Promised!End
<1>8. ASSUME NEW a \in Actors, MonitorStopTest(a) PROVE [Promised!Next]_(Promised!vars)
  <2>1. UNCHANGED <<Phase, Asked, About>>
    BY <1>8, PhaseStays DEF MonitorStopTest, Goto, AfterStop
  <2>2. UNCHANGED <<Alive, status>>
    BY <1>8, AliveStays DEF MonitorStopTest, Goto, AfterStop
  <2>. QED  BY <2>1, <2>2
<1>9. ASSUME NEW a \in Actors, MonitorStopClear(a) PROVE [Promised!Next]_(Promised!vars)
  <2>1. UNCHANGED <<Phase, Asked, About>>
    BY <1>9, PhaseStays DEF MonitorStopClear, Goto
  <2>2. UNCHANGED <<Alive, status>>
    BY <1>9, AliveStays DEF MonitorStopClear, Goto
  <2>. QED  BY <2>1, <2>2
<1>10. ASSUME NEW a \in Actors, MonitorStopJoin(a) PROVE [Promised!Next]_(Promised!vars)
  <2>1. UNCHANGED <<Phase, Asked, About>>
    BY <1>10, PhaseStays DEF MonitorStopJoin, Goto
  <2>2. UNCHANGED <<Alive, status>>
    BY <1>10, AliveStays DEF MonitorStopJoin, Goto
  <2>. QED  BY <2>1, <2>2
<1>11. ASSUME NEW a \in Actors, MonitorStopUnlist(a) PROVE [Promised!Next]_(Promised!vars)
  <2>1. UNCHANGED <<Phase, Asked, About>>
    BY <1>11, PhaseStays DEF MonitorStopUnlist, Goto, AfterStop
  <2>2. UNCHANGED <<Alive, status>>
    BY <1>11, AliveStays DEF MonitorStopUnlist, Goto, AfterStop
  <2>. QED  BY <2>1, <2>2
<1>12. ASSUME NEW h \in Handlers, StopSetStatus(h) PROVE [Promised!Next]_(Promised!vars)
  <2>1. Phase' = [Phase EXCEPT ![h] = "ok"] /\ Phase[h] = "working"
    BY <1>12, PhaseMoves, PhaseHere DEF StopSetStatus, Answer, Goto
  <2>2. UNCHANGED <<Alive, Asked, About>>
    BY <1>12, AliveStays DEF StopSetStatus, Asked, About
  <2>3. arg[h] \in Configs /\ Alive[arg[h]] = {} /\ op[h] = "stop"
    BY <1>12 DEF StopSetStatus, Cleared, Alive, LocalsFit, Busy
  <2>4. Promised!MayMark(arg[h], "stopped")
    BY <1>12 DEF StopSetStatus, Promised!MayMark
  <2>5. Promised!StopAnswers(h, "ok")
    BY <2>1, <2>2, <2>3, <2>4 DEF Promised!StopAnswers, Promised!Turn, Asked, About
  <2>. QED  BY <2>5 DEF Promised!Next
<1>13. ASSUME NEW h \in Handlers, StartAccess(h) PROVE [Promised!Next]_(Promised!vars)
  <2>1. UNCHANGED <<Alive, status, Asked, About>>
    BY <1>13, AliveStays DEF StartAccess, Asked, About
  <2>2. CASE Goto(h, "readpid") /\ UNCHANGED res
    BY <1>13, <2>1, <2>2, PhaseStays DEF StartAccess, Goto
  <2>3. CASE Answer(h, "error")
    <3>1. Phase' = [Phase EXCEPT ![h] = "error"] /\ Phase[h] = "working" /\ op[h] = "apply"
      BY <1>13, <2>3, PhaseMoves, PhaseHere DEF StartAccess, Answer, Goto
    <3>. QED  BY <2>1, <3>1 DEF Promised!Next, Promised!ApplyFails, Promised!Turn, Asked
  <2>. QED  BY <1>13, <2>2, <2>3 DEF StartAccess
<1>14. ASSUME NEW h \in Handlers, StartLaunchFails(h) PROVE [Promised!Next]_(Promised!vars)
  <2>1. UNCHANGED <<Alive, status, Asked, About>>
    BY <1>14, AliveStays DEF StartLaunchFails, Asked, About
  <2>2. Phase' = [Phase EXCEPT ![h] = "error"] /\ Phase[h] = "working" /\ op[h] = "apply"
    BY <1>14, PhaseMoves, PhaseHere DEF StartLaunchFails, Answer, Goto
  <2>. QED  BY <2>1, <2>2 DEF Promised!Next, Promised!ApplyFails, Promised!Turn, Asked
<1>15. ASSUME NEW h \in Handlers, NEW p \in Pids, StartLaunch(h, p) PROVE [Promised!Next]_(Promised!vars)
  <2>1. UNCHANGED <<status, Asked, About>>
    BY <1>15 DEF StartLaunch, Asked, About
  <2>2. Phase' = [Phase EXCEPT ![h] = "launched"] /\ Phase[h] = "working" /\ op[h] = "apply"
    BY <1>15, PhaseMoves, PhaseHere DEF StartLaunch, Goto
  <2>3. /\ arg[h] \in Configs /\ status[arg[h]] # "none"
        /\ \A q \in Pids : ~Serves(q, arg[h])
        /\ \A c \in Configs : ~Serves(p, c)
    BY <1>15 DEF StartLaunch, Cleared, LocalsFit, Busy, FreshPid, Serves
  <2>4. \A q \in Pids, c \in Configs :
          Serves(q, c)' <=> Serves(q, c) \/ (q = p /\ c = arg[h])
    BY <1>15, <2>3 DEF StartLaunch, Serves, Live, ProcessType
  <2>5. Alive' = [Alive EXCEPT ![arg[h]] = {p}]
    <3>1. \A c \in Configs : Alive'[c] = IF c = arg[h] THEN {p} ELSE Alive[c]
      BY <2>3, <2>4 DEF Alive
    <3>2. Alive' = [c \in Configs |-> Alive'[c]] /\ Alive = [c \in Configs |-> Alive[c]]
      BY DEF Alive
    <3>. QED  BY ONLY <3>1, <3>2
  <2>6. Promised!Launch(h, p)
    BY <2>1, <2>2, <2>3, <2>5 DEF Promised!Launch, Promised!Turn, Asked, About, Alive
  <2>. QED  BY <2>6 DEF Promised!Next
<1>16. ASSUME NEW h \in Handlers, StartSettle(h) PROVE [Promised!Next]_(Promised!vars)
  <2>1. UNCHANGED <<status, Asked, About>>
    BY <1>16 DEF StartSettle, Asked, About
  <2>2. UNCHANGED Alive
    BY <1>16 DEF StartSettle, Alive, Serves, Live, ProcessType
  <2>3. CASE proc[pid[h]] = "zombie"
    <3>1. Phase' = [Phase EXCEPT ![h] = "error"] /\ Phase[h] = "launched" /\ op[h] = "apply"
      BY <1>16, <2>3, PhaseMoves, PhaseHere DEF StartSettle, Answer, Goto
    <3>2. arg[h] \in Configs /\ Alive[arg[h]] = {}
      BY <1>16, <2>3 DEF StartSettle, Sole, Alive, Serves, Live, LocalsFit, Busy
    <3>. QED  BY <2>1, <2>2, <3>1, <3>2
              DEF Promised!Next, Promised!ApplyFails, Promised!Turn, Asked, About
  <2>4. CASE proc[pid[h]] # "zombie"
    <3>1. UNCHANGED Phase
      BY <1>16, <2>4, PhaseStays DEF StartSettle, Goto
    <3>. QED  BY <2>1, <2>2, <3>1
  <2>. QED  BY <2>3, <2>4
<1>17. ASSUME NEW h \in Handlers, MonitorStartTest(h) PROVE [Promised!Next]_(Promised!vars)
  <2>1. UNCHANGED <<Phase, Asked, About>>
    BY <1>17, PhaseStays DEF MonitorStartTest, Goto
  <2>2. UNCHANGED <<Alive, status>>
    BY <1>17, AliveStays DEF MonitorStartTest, Goto
  <2>. QED  BY <2>1, <2>2
<1>18. ASSUME NEW h \in Handlers, NEW t \in Threads, MonitorStartCreate(h, t) PROVE [Promised!Next]_(Promised!vars)
  <2>1. UNCHANGED <<Phase, Asked, About>>
    BY <1>18, PhaseStays DEF MonitorStartCreate, Goto
  <2>2. UNCHANGED <<Alive, status>>
    BY <1>18, AliveStays DEF MonitorStartCreate, Goto
  <2>. QED  BY <2>1, <2>2
<1>19. ASSUME NEW h \in Handlers, MonitorStartFails(h) PROVE [Promised!Next]_(Promised!vars)
  <2>1. UNCHANGED <<Phase, Asked, About>>
    BY <1>19, PhaseStays DEF MonitorStartFails, Goto
  <2>2. UNCHANGED <<Alive, status>>
    BY <1>19, AliveStays DEF MonitorStartFails, Goto
  <2>. QED  BY <2>1, <2>2
<1>20. ASSUME NEW h \in Handlers, MonitorStartList(h) PROVE [Promised!Next]_(Promised!vars)
  <2>1. UNCHANGED <<Phase, Asked, About>>
    BY <1>20, PhaseStays DEF MonitorStartList, Goto
  <2>2. UNCHANGED <<Alive, status>>
    BY <1>20, AliveStays DEF MonitorStartList, Goto
  <2>. QED  BY <2>1, <2>2
<1>21. ASSUME NEW h \in Handlers, ApplySetStatus(h) PROVE [Promised!Next]_(Promised!vars)
  <2>1. UNCHANGED <<Alive, Asked, About>>
    BY <1>21, AliveStays DEF ApplySetStatus, Asked, About
  <2>2. Phase' = [Phase EXCEPT ![h] = "ok"] /\ Phase[h] = "launched" /\ op[h] = "apply"
    BY <1>21, PhaseMoves, PhaseHere DEF ApplySetStatus, Answer, Goto
  <2>3. Promised!MayMark(arg[h], "running")
    BY <1>21 DEF ApplySetStatus, Promised!MayMark
  <2>. QED  BY <2>1, <2>2, <2>3
            DEF Promised!Next, Promised!ApplyOk, Promised!Turn, Asked, About
<1>22. ASSUME ShutdownSnapshot PROVE [Promised!Next]_(Promised!vars)
  <2>1. UNCHANGED <<Phase, Asked, About>>
    BY <1>22, PhaseStays DEF ShutdownSnapshot, Goto
  <2>2. UNCHANGED <<Alive, status>>
    BY <1>22, AliveStays DEF ShutdownSnapshot, Goto
  <2>. QED  BY <2>1, <2>2
<1>23. ASSUME ShutdownNext PROVE [Promised!Next]_(Promised!vars)
  <2>1. UNCHANGED <<Phase, Asked, About>>
    BY <1>23, PhaseStays DEF ShutdownNext, Goto
  <2>2. UNCHANGED <<Alive, status>>
    BY <1>23, AliveStays DEF ShutdownNext, Goto
  <2>. QED  BY <2>1, <2>2
<1>24. ASSUME ShutdownDone PROVE [Promised!Next]_(Promised!vars)
  <2>1. UNCHANGED <<Phase, Asked, About>>
    BY <1>24, PhaseStays DEF ShutdownDone, Goto
  <2>2. UNCHANGED <<Alive, status>>
    BY <1>24, AliveStays DEF ShutdownDone, Goto
  <2>. QED  BY <2>1, <2>2
<1>25. ASSUME NEW t \in Threads, MonitorConnect(t) PROVE [Promised!Next]_(Promised!vars)
  <2>1. UNCHANGED <<Phase, Asked, About>>
    BY <1>25, PhaseStays DEF MonitorConnect
  <2>2. UNCHANGED <<Alive, status>>
    BY <1>25, AliveStays DEF MonitorConnect
  <2>. QED  BY <2>1, <2>2
<1>26. ASSUME NEW t \in Threads, MonitorCheck(t) PROVE [Promised!Next]_(Promised!vars)
  <2>1. UNCHANGED <<Phase, Asked, About>>
    BY <1>26, PhaseStays DEF MonitorCheck
  <2>2. UNCHANGED <<Alive, status>>
    BY <1>26, AliveStays DEF MonitorCheck
  <2>. QED  BY <2>1, <2>2
<1>27. ASSUME NEW t \in Threads, MonitorMark(t) PROVE [Promised!Next]_(Promised!vars)
  <2>1. UNCHANGED <<Alive, Phase, Asked, About>>
    BY <1>27, AliveStays, PhaseStays DEF MonitorMark
  <2>2. tcfg[t] \in Configs /\ Alive[tcfg[t]] = {}
    BY <1>27 DEF MonitorMark, Marking, Marked, Alive, ConfigsFit, WatchingPC
  <2>3. UNCHANGED status \/ (status[tcfg[t]] = "running"
                             /\ status' = [status EXCEPT ![tcfg[t]] = "stopped"])
    BY <1>27, <2>2 DEF MonitorMark, ProcessType
  <2>. QED  BY <2>1, <2>2, <2>3 DEF Promised!Next, Promised!Notice
<1>28. ASSUME NEW t \in Threads, PollReturns(t) PROVE [Promised!Next]_(Promised!vars)
  <2>1. UNCHANGED <<Phase, Asked, About>>
    BY <1>28, PhaseStays DEF PollReturns
  <2>2. UNCHANGED <<Alive, status>>
    BY <1>28, AliveStays DEF PollReturns
  <2>. QED  BY <2>1, <2>2
<1>29. ASSUME NEW p \in Pids, OpenvpnReady(p) PROVE [Promised!Next]_(Promised!vars)
  <2>1. UNCHANGED <<Phase, Asked, About, status>>
    BY <1>29, PhaseStays DEF OpenvpnReady
  <2>2. UNCHANGED Alive
    BY <1>29 DEF OpenvpnReady, Alive, Serves, Live, ProcessType
  <2>. QED  BY <2>1, <2>2
<1>30. ASSUME NEW p \in Pids, OpenvpnCrash(p) PROVE [Promised!Next]_(Promised!vars)
  <2>1. UNCHANGED <<Phase, Asked, About, status>>
    BY <1>30, PhaseStays DEF OpenvpnCrash
  <2>2. UNCHANGED Alive \/ \E c \in Configs : Alive[c] # {} /\ Alive' = [Alive EXCEPT ![c] = {}]
    BY <1>30, DeathEnds, AliveStays DEF OpenvpnCrash
  <2>. QED  BY <2>1, <2>2 DEF Promised!Next, Promised!End
<1>31. ASSUME NEW p \in Pids, OpenvpnExit(p) PROVE [Promised!Next]_(Promised!vars)
  <2>1. UNCHANGED <<Phase, Asked, About, status>>
    BY <1>31, PhaseStays DEF OpenvpnExit
  <2>2. UNCHANGED Alive \/ \E c \in Configs : Alive[c] # {} /\ Alive' = [Alive EXCEPT ![c] = {}]
    BY <1>31, DeathEnds, AliveStays DEF OpenvpnExit
  <2>. QED  BY <2>1, <2>2 DEF Promised!Next, Promised!End
<1>32. ASSUME NEW c \in Configs, WebDelete(c) PROVE [Promised!Next]_(Promised!vars)
  <2>1. UNCHANGED <<Alive, Phase, Asked, About>>
    BY <1>32, AliveStays, PhaseStays DEF WebDelete
  <2>. QED  BY <1>32, <2>1 DEF WebDelete, Promised!Next, Promised!Delete
<1>33. ASSUME NEW left \in SUBSET {p \in Pids : Live(p)}, CoreEnd(left) PROVE [Promised!Next]_(Promised!vars)
  <2>. DEFINE kept == {c \in Configs : \E q \in left : Serves(q, c)}
  <2>1. /\ Phase' = [g \in Handlers |-> "idle"] /\ Asked' = [g \in Handlers |-> "nothing"]
        /\ About' = [g \in Handlers |-> None] /\ UNCHANGED status
    BY <1>33 DEF CoreEnd, All, AtRest, Phase, Asked, About
  <2>2. \A q \in Pids, c \in Configs : Serves(q, c)' <=> (Serves(q, c) /\ q \in left)
    BY <1>33 DEF CoreEnd, Serves, Live, ProcessType
  <2>3. \A q, r \in Pids, c \in Configs : Serves(q, c) /\ Serves(r, c) => q = r
    BY DEF Served, Serves, Live, ProcessType
  <2>4. \A c \in Configs : Alive'[c] = IF c \in kept THEN Alive[c] ELSE {}
    BY <2>2, <2>3 DEF Alive
  <2>5. Alive' = [c \in Configs |-> IF c \in kept THEN Alive[c] ELSE {}]
    BY <2>4 DEF Alive
  <2>6. Promised!CoreEnd(kept)
    BY <2>1, <2>5 DEF Promised!CoreEnd
  <2>. QED  BY <2>6 DEF Promised!Next
<1>34. ASSUME CoreStart PROVE [Promised!Next]_(Promised!vars)
  <2>1. UNCHANGED <<Phase, Asked, About>>
    BY <1>34, PhaseStays DEF CoreStart
  <2>2. UNCHANGED <<Alive, status>>
    BY <1>34, AliveStays DEF CoreStart
  <2>. QED  BY <2>1, <2>2
<1>35. CASE UNCHANGED vars
  BY <1>35 DEF vars, Alive, Phase, Asked, About, Serves, Live
<1>36. ASSUME NEW a \in Actors, StopStep(a) PROVE [Promised!Next]_(Promised!vars)
  BY ONLY <1>36, <1>5, <1>6, <1>7, <1>8, <1>9, <1>10, <1>11 DEF StopStep
<1>37. ASSUME NEW h \in Handlers, HandlerStep(h) PROVE [Promised!Next]_(Promised!vars)
  BY ONLY <1>37, <1>36, <1>4, <1>12, <1>13, <1>14, <1>15, <1>16, <1>17, <1>18, <1>19, <1>20, <1>21
  DEF HandlerStep, Actors
<1>38. CASE MainStep
  BY ONLY <1>38, <1>36, <1>22, <1>23, <1>24 DEF MainStep, Actors
<1>39. ASSUME NEW t \in Threads, MonitorStep(t) PROVE [Promised!Next]_(Promised!vars)
  BY ONLY <1>39, <1>25, <1>26, <1>27, <1>28 DEF MonitorStep, MonitorPollCut
<1>40. CASE Environment
  BY ONLY <1>40, <1>1, <1>2, <1>3, <1>28, <1>29, <1>30, <1>31, <1>32, <1>33, <1>34
  DEF Environment, MonitorPolled
<1>. QED  BY ONLY [Next]_vars, <1>35, <1>37, <1>38, <1>39, <1>40 DEF Next

\* All parts of the invariant hold in every reachable state.
LEMMA InvAlways == ASSUME Serialised PROVE Spec => []Inv
<1>1. Init => Forgotten /\ Sole
  BY ActorAssumption DEF Init, All, AtRest, Actors, Forgotten, Sole
<1>2. Serving /\ Forgotten /\ Sole /\ [Next]_vars => (Forgotten /\ Sole)'
  BY Serialised, ForgottenStep, SoleStep DEF Serving
<1>. QED  BY MarkingAlways, <1>1, <1>2, PTL DEF Spec, Inv

\* The daemon implements its abstract specification: at most one server for each
\* configuration, launched only for an apply request, every stop answered only when
\* the server is dead, and no live server's configuration marked stopped.
THEOREM ImplementsServers == ASSUME Serialised PROVE Spec => ServersKept
<1>1. Inv /\ [Next]_vars => [Promised!Next]_(Promised!vars)
  BY Serialised, PromisedStep
<1>. QED  BY PromisedInit, InvAlways, <1>1, PTL DEF Spec, ServersKept, Promised!Spec
=============================================================================
