-------------------------- MODULE LifecycleProofs --------------------------
(***************************************************************************)
(* Proofs about Lifecycle, for any sets of configurations, handlers,        *)
(* monitor threads and processes and any capacity of running_configs.       *)
(***************************************************************************)
EXTENDS Lifecycle, TLAPS

-----------------------------------------------------------------------------
(* The inductive invariant, in named parts.                                 *)

\* What the locals of a thread hold while the thread is at a place.
HandlersFit ==
    \A h \in Handlers :
        /\ pc[h] \in BusyPC \union {"idle"}
        /\ Busy(h) => op[h] \in {"apply", "stop"}
        /\ pc[h] \in ApplyPC => op[h] = "apply"
        /\ pc[h] = "dbstop" => op[h] = "stop"
MainFits ==
    /\ pc[Main] \in MainPC \union StopPC
    /\ pc[Main] \in StopPC \union {"next"} => op[Main] = "shutdown"
LocalsFit ==
    \A a \in Actors :
        /\ Busy(a) => arg[a] \in Configs
        /\ pc[a] \in {"term", "wait", "settle"} => pid[a] \in Pids
ConfigsFit ==
    /\ \A t \in Threads : thread[t] \in WatchingPC => tcfg[t] \in Configs
    /\ \A p \in Pids : Live(p) => pcfg[p] \in Configs
DownIsIdle == core = "down" => pc = AtRest

WellFormed == HandlersFit /\ MainFits /\ LocalsFit /\ ConfigsFit /\ DownIsIdle
TypeInv == TypeOK /\ WellFormed

\* What Serialised buys: one busy thread per configuration, and a shutdown that
\* runs alone.
Exclusive ==
    /\ \A a, b \in Actors : Busy(a) /\ Busy(b) /\ arg[a] = arg[b] => a = b
    /\ pc[Main] \in StopPC \union {"next", "done"} => \A h \in Handlers : pc[h] = "idle"

\* A thread that still watches is the one its slot names, and either the slot's
\* flag is set or somebody waits for the thread to leave.
Watched ==
    /\ \A t \in Threads : thread[t] \in WatchingPC =>
         /\ handle[tcfg[t]] = t
         /\ \/ running[tcfg[t]]
            \/ \E a \in Actors : pc[a] = "join" /\ arg[a] = tcfg[t] /\ thr[a] = t
    /\ \A h \in Handlers : pc[h] = "mcreate" => ~running[arg[h]]

\* A server whose pid file is written is the one the file names; before that the
\* handler that forked it waits for it, and it is alone.
Served ==
    /\ \A p \in Pids : proc[p] = "up" => pidfile[pcfg[p]] = p
    /\ \A p \in Pids : proc[p] = "boot" =>
         \/ core = "down"
         \/ \E h \in Handlers : pc[h] = "settle" /\ pid[h] = p /\ arg[h] = pcfg[p]
    /\ \A p, q \in Pids : proc[p] = "boot" /\ Serves(q, pcfg[p]) => q = p

\* From the pid file's reading to the kill, no server but the one read; from the
\* kill to the fork or to the answer, no server.
StopsOk(h) == pc[h] = "reply" /\ op[h] = "stop" /\ res[h] = "ok"
Cleared ==
    /\ \A a \in Actors : pc[a] \in {"term", "wait"} =>
         \A q \in Pids : Serves(q, arg[a]) => q = pid[a]
    /\ \A h \in Handlers :
         pc[h] \in {"mtest", "mclear", "join", "unlist", "launch", "dbstop"} \/ StopsOk(h) =>
           \A q \in Pids : ~Serves(q, arg[h])

\* After the flag is cleared, or was found clear, it stays so until the answer.
Unflagged ==
    \A h \in Handlers :
        pc[h] \in {"join", "unlist", "dbstop"} \/ StopsOk(h) => ~running[arg[h]]
-----------------------------------------------------------------------------
(* Types.                                                                   *)

\* Taking a configuration out of running_configs (monitor_stop) leaves a list of
\* configurations that is no longer than before.
LEMMA UnlistedType ==
    ASSUME TypeOK, NEW c \in Configs
    PROVE  Unlisted(c) \in Seq(Configs) /\ Len(Unlisted(c)) <= MaxRunning
<1>1. CASE Positions(c) = {}
  BY <1>1 DEF Unlisted, TypeOK, ListType
<1>2. CASE Positions(c) # {}
  <2>1. Len(listed) \in Nat /\ Len(listed) >= 1
    BY <1>2 DEF Positions, TypeOK, ListType
  <2>2. Unlisted(c) \in [1 .. Len(listed) - 1 -> Configs]
    BY <1>2, <2>1 DEF Unlisted, TypeOK, ListType
  <2>3. Unlisted(c) \in Seq(Configs) /\ Len(Unlisted(c)) = Len(listed) - 1
    BY <2>1, <2>2
  <2>. QED  BY <2>1, <2>3, BoundAssumption DEF TypeOK, ListType
<1>. QED  BY <1>1, <1>2

\* The running_configs of a fresh daemon is a list of configurations.
LEMMA EmptyList == <<>> \in Seq(Configs) /\ Len(<<>>) = 0
OBVIOUS

\* A fresh daemon satisfies the types and the fit of the locals.
LEMMA TypeInit == Init => TypeInv
<1>. SUFFICES ASSUME Init PROVE TypeInv
  OBVIOUS
<1>. USE ActorAssumption, BoundAssumption DEF Init, All, AtRest, Actors, BusyPC, StopPC, ApplyPC,
         MainPC, WatchingPC
<1>1. DaemonType
  <2>1. snap \in Seq(Configs)
    BY EmptyList
  <2>2. shut \in BOOLEAN
    OBVIOUS
  <2>3. core \in {"up", "down"} /\ at \in Nat \ {0}
    OBVIOUS
  <2>. QED  BY <2>1, <2>2, <2>3 DEF DaemonType
<1>2. LocalsType
  BY DEF LocalsType
<1>3. MonitorType
  BY DEF MonitorType
<1>4. ListType
  BY DEF ListType
<1>5. ProcessType
  BY DEF ProcessType
<1>6. WellFormed
  BY DEF WellFormed, HandlersFit, MainFits, LocalsFit, ConfigsFit, DownIsIdle, Busy, Live
<1>. QED  BY <1>1, <1>2, <1>3, <1>4, <1>5, <1>6 DEF TypeInv, TypeOK

\* Every step of the daemon, of OpenVPN and of the web tier keeps the types.
LEMMA TypeOKStep == TypeInv /\ [Next]_vars => TypeOK'
<1>. SUFFICES ASSUME TypeInv, [Next]_vars PROVE TypeOK'
  OBVIOUS
<1>. USE BoundAssumption
     DEF TypeInv, TypeOK, DaemonType, LocalsType, MonitorType, ListType, ProcessType,
         WellFormed, LocalsFit, Actors, Busy, BusyPC, StopPC, ApplyPC, MainPC,
         WatchingPC, coreVars, actorVars, monVars, procVars
<1>1. ASSUME NEW h \in Handlers, NEW o \in {"apply", "stop"}, NEW c \in Configs, Receive(h, o, c) PROVE TypeOK'
  BY <1>1 DEF Receive, AfterAccept
<1>2. ASSUME ReceiveOther PROVE TypeOK'
  BY <1>2 DEF ReceiveOther, Goto, AfterAccept
<1>3. ASSUME RequestShutdown PROVE TypeOK'
  BY <1>3 DEF RequestShutdown
<1>4. ASSUME NEW h \in Handlers, Reply(h) PROVE TypeOK'
  BY <1>4 DEF Reply, Goto
<1>5. ASSUME NEW a \in Actors, StopReadPid(a) PROVE TypeOK'
  BY <1>5 DEF StopReadPid, Goto
<1>6. ASSUME NEW a \in Actors, StopTerm(a) PROVE TypeOK'
  BY <1>6 DEF StopTerm, Goto, AfterStop, Answer
<1>7. ASSUME NEW a \in Actors, StopWait(a) PROVE TypeOK'
  <2>1. LocalsType'
    BY <1>7 DEF StopWait, Goto
  <2>2. ProcessType'
    <3>1. pid[a] \in Pids
      BY <1>7 DEF StopWait
    <3>2. CASE Live(pid[a])
      <4>1. Corpse(pid[a]) \in {"zombie", "gone"}
        BY DEF Corpse
      <4>2. /\ proc' = [proc EXCEPT ![pid[a]] = Corpse(pid[a])]
            /\ pcfg' = [pcfg EXCEPT ![pid[a]] = None]
            /\ UNCHANGED <<child, pidfile, status>>
        BY <1>7, <3>2 DEF StopWait, Dies
      <4>3. proc' \in [Pids -> {"boot", "up", "zombie", "gone"}]
        BY <3>1, <4>1, <4>2
      <4>4. pcfg' \in [Pids -> Configs \union {None}]
        BY <3>1, <4>2
      <4>. QED  BY <4>2, <4>3, <4>4
    <3>3. CASE ~Live(pid[a])
      BY <1>7, <3>3 DEF StopWait
    <3>. QED  BY <3>2, <3>3
  <2>3. DaemonType' /\ MonitorType' /\ ListType'
    BY <1>7 DEF StopWait
  <2>. QED  BY <2>1, <2>2, <2>3
<1>8. ASSUME NEW a \in Actors, MonitorStopTest(a) PROVE TypeOK'
  BY <1>8 DEF MonitorStopTest, Goto, AfterStop
<1>9. ASSUME NEW a \in Actors, MonitorStopClear(a) PROVE TypeOK'
  BY <1>9 DEF MonitorStopClear, Goto
<1>10. ASSUME NEW a \in Actors, MonitorStopJoin(a) PROVE TypeOK'
  BY <1>10 DEF MonitorStopJoin, Goto
<1>11. ASSUME NEW a \in Actors, MonitorStopUnlist(a) PROVE TypeOK'
  BY <1>11, UnlistedType DEF MonitorStopUnlist, Goto, AfterStop
<1>12. ASSUME NEW h \in Handlers, StopSetStatus(h) PROVE TypeOK'
  BY <1>12 DEF StopSetStatus, Goto, Answer
<1>13. ASSUME NEW h \in Handlers, StartAccess(h) PROVE TypeOK'
  BY <1>13 DEF StartAccess, Goto, Answer
<1>14. ASSUME NEW h \in Handlers, StartLaunchFails(h) PROVE TypeOK'
  BY <1>14 DEF StartLaunchFails, Goto, Answer
<1>15. ASSUME NEW h \in Handlers, NEW p \in Pids, StartLaunch(h, p) PROVE TypeOK'
  BY <1>15 DEF StartLaunch, Goto, Live, FreshPid
<1>16. ASSUME NEW h \in Handlers, StartSettle(h) PROVE TypeOK'
  <2>1. CASE proc[pid[h]] = "zombie"
    <3>1. proc' \in [Pids -> {"boot", "up", "zombie", "gone"}]
      BY <1>16, <2>1 DEF StartSettle
    <3>2. pc' = [pc EXCEPT ![h] = "reply"] /\ res' = [res EXCEPT ![h] = "error"]
      BY <1>16, <2>1 DEF StartSettle, Goto, Answer
    <3>. QED  BY <1>16, <3>1, <3>2 DEF StartSettle
  <2>2. CASE proc[pid[h]] # "zombie"
    BY <1>16, <2>2 DEF StartSettle, Goto
  <2>. QED  BY <2>1, <2>2
<1>17. ASSUME NEW h \in Handlers, MonitorStartTest(h) PROVE TypeOK'
  BY <1>17 DEF MonitorStartTest, Goto
<1>18. ASSUME NEW h \in Handlers, NEW t \in Threads, MonitorStartCreate(h, t) PROVE TypeOK'
  BY <1>18 DEF MonitorStartCreate, Goto
<1>19. ASSUME NEW h \in Handlers, MonitorStartFails(h) PROVE TypeOK'
  BY <1>19 DEF MonitorStartFails, Goto
<1>20. ASSUME NEW h \in Handlers, MonitorStartList(h) PROVE TypeOK'
  BY <1>20 DEF MonitorStartList, Goto
<1>21. ASSUME NEW h \in Handlers, ApplySetStatus(h) PROVE TypeOK'
  BY <1>21 DEF ApplySetStatus, Goto, Answer
<1>22. ASSUME ShutdownSnapshot PROVE TypeOK'
  BY <1>22 DEF ShutdownSnapshot, Goto
<1>23. ASSUME ShutdownNext PROVE TypeOK'
  BY <1>23 DEF ShutdownNext, Goto
<1>24. ASSUME ShutdownDone PROVE TypeOK'
  BY <1>24 DEF ShutdownDone, Goto
<1>25. ASSUME NEW t \in Threads, MonitorConnect(t) PROVE TypeOK'
  BY <1>25 DEF MonitorConnect
<1>26. ASSUME NEW t \in Threads, MonitorCheck(t) PROVE TypeOK'
  BY <1>26 DEF MonitorCheck
<1>27. ASSUME NEW t \in Threads, MonitorMark(t) PROVE TypeOK'
  BY <1>27 DEF MonitorMark
<1>28. ASSUME NEW t \in Threads, PollReturns(t) PROVE TypeOK'
  BY <1>28 DEF PollReturns
<1>29. ASSUME NEW p \in Pids, OpenvpnReady(p) PROVE TypeOK'
  BY <1>29 DEF OpenvpnReady
<1>30. ASSUME NEW p \in Pids, OpenvpnCrash(p) PROVE TypeOK'
  BY <1>30 DEF OpenvpnCrash, Dies, Corpse, Live
<1>31. ASSUME NEW p \in Pids, OpenvpnExit(p) PROVE TypeOK'
  BY <1>31 DEF OpenvpnExit, Dies, Corpse, Live
<1>32. ASSUME NEW c \in Configs, WebDelete(c) PROVE TypeOK'
  BY <1>32 DEF WebDelete
<1>33. ASSUME NEW left \in SUBSET {p \in Pids : Live(p)}, CoreEnd(left) PROVE TypeOK'
  <2>1. snap' \in Seq(Configs) /\ listed' \in Seq(Configs) /\ Len(listed') = 0
    BY <1>33, EmptyList DEF CoreEnd
  <2>2. LocalsType'
    BY <1>33 DEF CoreEnd, All, AtRest
  <2>3. MonitorType'
    <3>1. running' = [c \in Configs |-> FALSE]
      BY <1>33 DEF CoreEnd, All
    <3>2. running' \in [Configs -> BOOLEAN]
      BY ONLY <3>1, Zenon
    <3>. QED  BY <1>33, <3>2 DEF CoreEnd, All
  <2>4. child' \in [Pids -> BOOLEAN]
    <3>1. child' = [p \in Pids |-> FALSE]
      BY <1>33 DEF CoreEnd, All
    <3>. QED  BY ONLY <3>1, Zenon
  <2>5. ProcessType'
    BY <1>33, <2>4 DEF CoreEnd
  <2>6. shut' \in BOOLEAN
    BY <1>33 DEF CoreEnd
  <2>7. core' \in {"up", "down"} /\ at' \in Nat \ {0}
    BY <1>33 DEF CoreEnd
  <2>. QED  BY <2>1, <2>2, <2>3, <2>5, <2>6, <2>7
<1>34. ASSUME CoreStart PROVE TypeOK'
  BY <1>34 DEF CoreStart
<1>35. CASE UNCHANGED vars
  BY <1>35 DEF vars
<1>36. ASSUME NEW a \in Actors, StopStep(a) PROVE TypeOK'
  BY ONLY <1>36, <1>5, <1>6, <1>7, <1>8, <1>9, <1>10, <1>11 DEF StopStep
<1>37. ASSUME NEW h \in Handlers, HandlerStep(h) PROVE TypeOK'
  BY ONLY <1>37, <1>36, <1>4, <1>12, <1>13, <1>14, <1>15, <1>16, <1>17, <1>18, <1>19, <1>20, <1>21
  DEF HandlerStep, Actors
<1>38. CASE MainStep
  BY ONLY <1>38, <1>36, <1>22, <1>23, <1>24 DEF MainStep, Actors
<1>39. ASSUME NEW t \in Threads, MonitorStep(t) PROVE TypeOK'
  BY ONLY <1>39, <1>25, <1>26, <1>27, <1>28 DEF MonitorStep, MonitorPollCut
<1>40. CASE Environment
  BY ONLY <1>40, <1>1, <1>2, <1>3, <1>28, <1>29, <1>30, <1>31, <1>32, <1>33, <1>34
  DEF Environment, MonitorPolled
<1>. QED  BY ONLY [Next]_vars, <1>35, <1>37, <1>38, <1>39, <1>40 DEF Next

\* Every step keeps the locals of each thread in agreement with where it is.
LEMMA WellFormedStep == TypeInv /\ [Next]_vars => WellFormed'
<1>. SUFFICES ASSUME TypeInv, [Next]_vars PROVE WellFormed'
  OBVIOUS
<1>. USE ActorAssumption
     DEF TypeInv, TypeOK, DaemonType, LocalsType, MonitorType, ProcessType,
         WellFormed, HandlersFit, MainFits, LocalsFit, ConfigsFit, DownIsIdle, Actors,
         Busy, Live, BusyPC, StopPC, ApplyPC, MainPC, WatchingPC, AtRest,
         coreVars, actorVars, monVars, procVars
<1>1. ASSUME NEW h \in Handlers, NEW o \in {"apply", "stop"}, NEW c \in Configs, Receive(h, o, c) PROVE WellFormed'
  BY <1>1 DEF Receive, AfterAccept
<1>2. ASSUME ReceiveOther PROVE WellFormed'
  BY <1>2 DEF ReceiveOther, Goto, AfterAccept
<1>3. ASSUME RequestShutdown PROVE WellFormed'
  BY <1>3 DEF RequestShutdown
<1>4. ASSUME NEW h \in Handlers, Reply(h) PROVE WellFormed'
  BY <1>4 DEF Reply, Goto
<1>5. ASSUME NEW a \in Actors, StopReadPid(a) PROVE WellFormed'
  BY <1>5 DEF StopReadPid, Goto
<1>6. ASSUME NEW a \in Actors, StopTerm(a) PROVE WellFormed'
  BY <1>6 DEF StopTerm, Goto, AfterStop, Answer
<1>7. ASSUME NEW a \in Actors, StopWait(a) PROVE WellFormed'
  BY <1>7 DEF StopWait, Goto, Dies, Corpse, Live
<1>8. ASSUME NEW a \in Actors, MonitorStopTest(a) PROVE WellFormed'
  BY <1>8 DEF MonitorStopTest, Goto, AfterStop
<1>9. ASSUME NEW a \in Actors, MonitorStopClear(a) PROVE WellFormed'
  BY <1>9 DEF MonitorStopClear, Goto
<1>10. ASSUME NEW a \in Actors, MonitorStopJoin(a) PROVE WellFormed'
  BY <1>10 DEF MonitorStopJoin, Goto
<1>11. ASSUME NEW a \in Actors, MonitorStopUnlist(a) PROVE WellFormed'
  BY <1>11 DEF MonitorStopUnlist, Goto, AfterStop
<1>12. ASSUME NEW h \in Handlers, StopSetStatus(h) PROVE WellFormed'
  BY <1>12 DEF StopSetStatus, Goto, Answer
<1>13. ASSUME NEW h \in Handlers, StartAccess(h) PROVE WellFormed'
  BY <1>13 DEF StartAccess, Goto, Answer
<1>14. ASSUME NEW h \in Handlers, StartLaunchFails(h) PROVE WellFormed'
  BY <1>14 DEF StartLaunchFails, Goto, Answer
<1>15. ASSUME NEW h \in Handlers, NEW p \in Pids, StartLaunch(h, p) PROVE WellFormed'
  BY <1>15 DEF StartLaunch, Goto, Live, FreshPid
<1>16. ASSUME NEW h \in Handlers, StartSettle(h) PROVE WellFormed'
  BY <1>16 DEF StartSettle, Goto, Answer, Live
<1>17. ASSUME NEW h \in Handlers, MonitorStartTest(h) PROVE WellFormed'
  BY <1>17 DEF MonitorStartTest, Goto
<1>18. ASSUME NEW h \in Handlers, NEW t \in Threads, MonitorStartCreate(h, t) PROVE WellFormed'
  BY <1>18 DEF MonitorStartCreate, Goto
<1>19. ASSUME NEW h \in Handlers, MonitorStartFails(h) PROVE WellFormed'
  BY <1>19 DEF MonitorStartFails, Goto
<1>20. ASSUME NEW h \in Handlers, MonitorStartList(h) PROVE WellFormed'
  BY <1>20 DEF MonitorStartList, Goto
<1>21. ASSUME NEW h \in Handlers, ApplySetStatus(h) PROVE WellFormed'
  BY <1>21 DEF ApplySetStatus, Goto, Answer
<1>22. ASSUME ShutdownSnapshot PROVE WellFormed'
  BY <1>22 DEF ShutdownSnapshot, Goto
<1>23. ASSUME ShutdownNext PROVE WellFormed'
  BY <1>23 DEF ShutdownNext, Goto
<1>24. ASSUME ShutdownDone PROVE WellFormed'
  BY <1>24 DEF ShutdownDone, Goto
<1>25. ASSUME NEW t \in Threads, MonitorConnect(t) PROVE WellFormed'
  BY <1>25 DEF MonitorConnect
<1>26. ASSUME NEW t \in Threads, MonitorCheck(t) PROVE WellFormed'
  BY <1>26 DEF MonitorCheck
<1>27. ASSUME NEW t \in Threads, MonitorMark(t) PROVE WellFormed'
  BY <1>27 DEF MonitorMark
<1>28. ASSUME NEW t \in Threads, PollReturns(t) PROVE WellFormed'
  BY <1>28 DEF PollReturns
<1>29. ASSUME NEW p \in Pids, OpenvpnReady(p) PROVE WellFormed'
  BY <1>29 DEF OpenvpnReady
<1>30. ASSUME NEW p \in Pids, OpenvpnCrash(p) PROVE WellFormed'
  BY <1>30 DEF OpenvpnCrash, Dies, Corpse, Live
<1>31. ASSUME NEW p \in Pids, OpenvpnExit(p) PROVE WellFormed'
  BY <1>31 DEF OpenvpnExit, Dies, Corpse, Live
<1>32. ASSUME NEW c \in Configs, WebDelete(c) PROVE WellFormed'
  BY <1>32 DEF WebDelete
<1>33. ASSUME NEW left \in SUBSET {p \in Pids : Live(p)}, CoreEnd(left) PROVE WellFormed'
  BY <1>33 DEF CoreEnd, Live, All
<1>34. ASSUME CoreStart PROVE WellFormed'
  BY <1>34 DEF CoreStart
<1>35. CASE UNCHANGED vars
  BY <1>35 DEF vars
<1>36. ASSUME NEW a \in Actors, StopStep(a) PROVE WellFormed'
  BY ONLY <1>36, <1>5, <1>6, <1>7, <1>8, <1>9, <1>10, <1>11 DEF StopStep
<1>37. ASSUME NEW h \in Handlers, HandlerStep(h) PROVE WellFormed'
  BY ONLY <1>37, <1>36, <1>4, <1>12, <1>13, <1>14, <1>15, <1>16, <1>17, <1>18, <1>19, <1>20, <1>21
  DEF HandlerStep, Actors
<1>38. CASE MainStep
  BY ONLY <1>38, <1>36, <1>22, <1>23, <1>24 DEF MainStep, Actors
<1>39. ASSUME NEW t \in Threads, MonitorStep(t) PROVE WellFormed'
  BY ONLY <1>39, <1>25, <1>26, <1>27, <1>28 DEF MonitorStep, MonitorPollCut
<1>40. CASE Environment
  BY ONLY <1>40, <1>1, <1>2, <1>3, <1>28, <1>29, <1>30, <1>31, <1>32, <1>33, <1>34
  DEF Environment, MonitorPolled
<1>. QED  BY ONLY [Next]_vars, <1>35, <1>37, <1>38, <1>39, <1>40 DEF Next

\* Types and the fit of the locals hold in every reachable state.
LEMMA Typing == Spec => []TypeInv
<1>1. TypeInv /\ [Next]_vars => TypeInv'
  BY TypeOKStep, WellFormedStep DEF TypeInv
<1>. QED  BY TypeInit, <1>1, PTL DEF Spec

\* Every variable keeps its type, and running_configs stays within its array of
\* MaxRunning entries, whatever overlaps and fails.
THEOREM TypeCorrect == Spec => []TypeOK
<1>1. TypeInv => TypeOK
  BY DEF TypeInv
<1>. QED  BY Typing, <1>1, PTL

-----------------------------------------------------------------------------
(* One busy thread per configuration.                                       *)
\* If requests for one configuration are admitted one at a time, they stay so.
LEMMA ExclusiveStep == Serialised /\ TypeInv /\ Exclusive /\ [Next]_vars => Exclusive'
<1>. SUFFICES ASSUME Serialised, TypeInv, Exclusive, [Next]_vars PROVE Exclusive'
  OBVIOUS
<1>. USE ActorAssumption
     DEF TypeInv, TypeOK, LocalsType, MonitorType, ProcessType,
         WellFormed, HandlersFit, MainFits, LocalsFit, ConfigsFit, DownIsIdle, Actors,
         Busy, BusyPC, StopPC, ApplyPC, MainPC, AtRest, coreVars, actorVars, monVars, procVars, Exclusive
<1>1. ASSUME NEW h \in Handlers, NEW o \in {"apply", "stop"}, NEW c \in Configs, Receive(h, o, c) PROVE Exclusive'
  BY <1>1 DEF Receive, AfterAccept
<1>2. ASSUME ReceiveOther PROVE Exclusive'
  BY <1>2 DEF ReceiveOther, Goto, AfterAccept
<1>3. ASSUME RequestShutdown PROVE Exclusive'
  BY <1>3 DEF RequestShutdown
<1>4. ASSUME NEW h \in Handlers, Reply(h) PROVE Exclusive'
  BY <1>4 DEF Reply, Goto
<1>5. ASSUME NEW a \in Actors, StopReadPid(a) PROVE Exclusive'
  BY <1>5 DEF StopReadPid, Goto
<1>6. ASSUME NEW a \in Actors, StopTerm(a) PROVE Exclusive'
  BY <1>6 DEF StopTerm, Goto, AfterStop, Answer
<1>7. ASSUME NEW a \in Actors, StopWait(a) PROVE Exclusive'
  BY <1>7 DEF StopWait, Goto, Dies, Corpse, Live
<1>8. ASSUME NEW a \in Actors, MonitorStopTest(a) PROVE Exclusive'
  BY <1>8 DEF MonitorStopTest, Goto, AfterStop
<1>9. ASSUME NEW a \in Actors, MonitorStopClear(a) PROVE Exclusive'
  BY <1>9 DEF MonitorStopClear, Goto
<1>10. ASSUME NEW a \in Actors, MonitorStopJoin(a) PROVE Exclusive'
  BY <1>10 DEF MonitorStopJoin, Goto
<1>11. ASSUME NEW a \in Actors, MonitorStopUnlist(a) PROVE Exclusive'
  BY <1>11 DEF MonitorStopUnlist, Goto, AfterStop
<1>12. ASSUME NEW h \in Handlers, StopSetStatus(h) PROVE Exclusive'
  BY <1>12 DEF StopSetStatus, Goto, Answer
<1>13. ASSUME NEW h \in Handlers, StartAccess(h) PROVE Exclusive'
  BY <1>13 DEF StartAccess, Goto, Answer
<1>14. ASSUME NEW h \in Handlers, StartLaunchFails(h) PROVE Exclusive'
  BY <1>14 DEF StartLaunchFails, Goto, Answer
<1>15. ASSUME NEW h \in Handlers, NEW p \in Pids, StartLaunch(h, p) PROVE Exclusive'
  BY <1>15 DEF StartLaunch, Goto, Live, FreshPid
<1>16. ASSUME NEW h \in Handlers, StartSettle(h) PROVE Exclusive'
  BY <1>16 DEF StartSettle, Goto, Answer, Live
<1>17. ASSUME NEW h \in Handlers, MonitorStartTest(h) PROVE Exclusive'
  BY <1>17 DEF MonitorStartTest, Goto
<1>18. ASSUME NEW h \in Handlers, NEW t \in Threads, MonitorStartCreate(h, t) PROVE Exclusive'
  BY <1>18 DEF MonitorStartCreate, Goto
<1>19. ASSUME NEW h \in Handlers, MonitorStartFails(h) PROVE Exclusive'
  BY <1>19 DEF MonitorStartFails, Goto
<1>20. ASSUME NEW h \in Handlers, MonitorStartList(h) PROVE Exclusive'
  BY <1>20 DEF MonitorStartList, Goto
<1>21. ASSUME NEW h \in Handlers, ApplySetStatus(h) PROVE Exclusive'
  BY <1>21 DEF ApplySetStatus, Goto, Answer
<1>22. ASSUME ShutdownSnapshot PROVE Exclusive'
  BY <1>22 DEF ShutdownSnapshot, Goto
<1>23. ASSUME ShutdownNext PROVE Exclusive'
  BY <1>23 DEF ShutdownNext, Goto
<1>24. ASSUME ShutdownDone PROVE Exclusive'
  BY <1>24 DEF ShutdownDone, Goto
<1>25. ASSUME NEW t \in Threads, MonitorConnect(t) PROVE Exclusive'
  BY <1>25 DEF MonitorConnect
<1>26. ASSUME NEW t \in Threads, MonitorCheck(t) PROVE Exclusive'
  BY <1>26 DEF MonitorCheck
<1>27. ASSUME NEW t \in Threads, MonitorMark(t) PROVE Exclusive'
  BY <1>27 DEF MonitorMark
<1>28. ASSUME NEW t \in Threads, PollReturns(t) PROVE Exclusive'
  BY <1>28 DEF PollReturns
<1>29. ASSUME NEW p \in Pids, OpenvpnReady(p) PROVE Exclusive'
  BY <1>29 DEF OpenvpnReady
<1>30. ASSUME NEW p \in Pids, OpenvpnCrash(p) PROVE Exclusive'
  BY <1>30 DEF OpenvpnCrash, Dies, Corpse, Live
<1>31. ASSUME NEW p \in Pids, OpenvpnExit(p) PROVE Exclusive'
  BY <1>31 DEF OpenvpnExit, Dies, Corpse, Live
<1>32. ASSUME NEW c \in Configs, WebDelete(c) PROVE Exclusive'
  BY <1>32 DEF WebDelete
<1>33. ASSUME NEW left \in SUBSET {p \in Pids : Live(p)}, CoreEnd(left) PROVE Exclusive'
  BY <1>33 DEF CoreEnd, Live
<1>34. ASSUME CoreStart PROVE Exclusive'
  BY <1>34 DEF CoreStart
<1>35. CASE UNCHANGED vars
  BY <1>35 DEF vars
<1>36. ASSUME NEW a \in Actors, StopStep(a) PROVE Exclusive'
  BY ONLY <1>36, <1>5, <1>6, <1>7, <1>8, <1>9, <1>10, <1>11 DEF StopStep
<1>37. ASSUME NEW h \in Handlers, HandlerStep(h) PROVE Exclusive'
  BY ONLY <1>37, <1>36, <1>4, <1>12, <1>13, <1>14, <1>15, <1>16, <1>17, <1>18, <1>19, <1>20, <1>21
  DEF HandlerStep, Actors
<1>38. CASE MainStep
  BY ONLY <1>38, <1>36, <1>22, <1>23, <1>24 DEF MainStep, Actors
<1>39. ASSUME NEW t \in Threads, MonitorStep(t) PROVE Exclusive'
  BY ONLY <1>39, <1>25, <1>26, <1>27, <1>28 DEF MonitorStep, MonitorPollCut
<1>40. CASE Environment
  BY ONLY <1>40, <1>1, <1>2, <1>3, <1>28, <1>29, <1>30, <1>31, <1>32, <1>33, <1>34
  DEF Environment, MonitorPolled
<1>. QED  BY ONLY [Next]_vars, <1>35, <1>37, <1>38, <1>39, <1>40 DEF Next

-----------------------------------------------------------------------------
(* Monitor threads.                                                         *)
\* monitor_start and monitor_stop keep each watching thread owned by its slot.
LEMMA WatchedStep == Serialised /\ TypeInv /\ Exclusive /\ Watched /\ [Next]_vars => Watched'
<1>. SUFFICES ASSUME Serialised, TypeInv, Exclusive, Watched, [Next]_vars PROVE Watched'
  OBVIOUS
<1>. USE ActorAssumption
     DEF TypeInv, TypeOK, LocalsType, MonitorType, ProcessType,
         WellFormed, HandlersFit, MainFits, LocalsFit, ConfigsFit, DownIsIdle, Actors,
         Busy, BusyPC, StopPC, ApplyPC, MainPC, AtRest, coreVars, actorVars, monVars, procVars,
         Exclusive, Watched, WatchingPC
<1>1. ASSUME NEW h \in Handlers, NEW o \in {"apply", "stop"}, NEW c \in Configs, Receive(h, o, c) PROVE Watched'
  BY <1>1 DEF Receive, AfterAccept
<1>2. ASSUME ReceiveOther PROVE Watched'
  BY <1>2 DEF ReceiveOther, Goto, AfterAccept
<1>3. ASSUME RequestShutdown PROVE Watched'
  BY <1>3 DEF RequestShutdown
<1>4. ASSUME NEW h \in Handlers, Reply(h) PROVE Watched'
  BY <1>4 DEF Reply, Goto
<1>5. ASSUME NEW a \in Actors, StopReadPid(a) PROVE Watched'
  BY <1>5 DEF StopReadPid, Goto
<1>6. ASSUME NEW a \in Actors, StopTerm(a) PROVE Watched'
  BY <1>6 DEF StopTerm, Goto, AfterStop, Answer
<1>7. ASSUME NEW a \in Actors, StopWait(a) PROVE Watched'
  BY <1>7 DEF StopWait, Goto, Dies, Corpse, Live
<1>8. ASSUME NEW a \in Actors, MonitorStopTest(a) PROVE Watched'
  BY <1>8 DEF MonitorStopTest, Goto, AfterStop
<1>9. ASSUME NEW a \in Actors, MonitorStopClear(a) PROVE Watched'
  BY <1>9 DEF MonitorStopClear, Goto
<1>10. ASSUME NEW a \in Actors, MonitorStopJoin(a) PROVE Watched'
  BY <1>10 DEF MonitorStopJoin, Goto
<1>11. ASSUME NEW a \in Actors, MonitorStopUnlist(a) PROVE Watched'
  BY <1>11 DEF MonitorStopUnlist, Goto, AfterStop
<1>12. ASSUME NEW h \in Handlers, StopSetStatus(h) PROVE Watched'
  BY <1>12 DEF StopSetStatus, Goto, Answer
<1>13. ASSUME NEW h \in Handlers, StartAccess(h) PROVE Watched'
  BY <1>13 DEF StartAccess, Goto, Answer
<1>14. ASSUME NEW h \in Handlers, StartLaunchFails(h) PROVE Watched'
  BY <1>14 DEF StartLaunchFails, Goto, Answer
<1>15. ASSUME NEW h \in Handlers, NEW p \in Pids, StartLaunch(h, p) PROVE Watched'
  BY <1>15 DEF StartLaunch, Goto, Live, FreshPid
<1>16. ASSUME NEW h \in Handlers, StartSettle(h) PROVE Watched'
  BY <1>16 DEF StartSettle, Goto, Answer, Live
<1>17. ASSUME NEW h \in Handlers, MonitorStartTest(h) PROVE Watched'
  BY <1>17 DEF MonitorStartTest, Goto
<1>18. ASSUME NEW h \in Handlers, NEW t \in Threads, MonitorStartCreate(h, t) PROVE Watched'
  BY <1>18 DEF MonitorStartCreate, Goto
<1>19. ASSUME NEW h \in Handlers, MonitorStartFails(h) PROVE Watched'
  BY <1>19 DEF MonitorStartFails, Goto
<1>20. ASSUME NEW h \in Handlers, MonitorStartList(h) PROVE Watched'
  BY <1>20 DEF MonitorStartList, Goto
<1>21. ASSUME NEW h \in Handlers, ApplySetStatus(h) PROVE Watched'
  BY <1>21 DEF ApplySetStatus, Goto, Answer
<1>22. ASSUME ShutdownSnapshot PROVE Watched'
  BY <1>22 DEF ShutdownSnapshot, Goto
<1>23. ASSUME ShutdownNext PROVE Watched'
  BY <1>23 DEF ShutdownNext, Goto
<1>24. ASSUME ShutdownDone PROVE Watched'
  BY <1>24 DEF ShutdownDone, Goto
<1>25. ASSUME NEW t \in Threads, MonitorConnect(t) PROVE Watched'
  BY <1>25 DEF MonitorConnect
<1>26. ASSUME NEW t \in Threads, MonitorCheck(t) PROVE Watched'
  BY <1>26 DEF MonitorCheck
<1>27. ASSUME NEW t \in Threads, MonitorMark(t) PROVE Watched'
  BY <1>27 DEF MonitorMark
<1>28. ASSUME NEW t \in Threads, PollReturns(t) PROVE Watched'
  BY <1>28 DEF PollReturns
<1>29. ASSUME NEW p \in Pids, OpenvpnReady(p) PROVE Watched'
  BY <1>29 DEF OpenvpnReady
<1>30. ASSUME NEW p \in Pids, OpenvpnCrash(p) PROVE Watched'
  BY <1>30 DEF OpenvpnCrash, Dies, Corpse, Live
<1>31. ASSUME NEW p \in Pids, OpenvpnExit(p) PROVE Watched'
  BY <1>31 DEF OpenvpnExit, Dies, Corpse, Live
<1>32. ASSUME NEW c \in Configs, WebDelete(c) PROVE Watched'
  BY <1>32 DEF WebDelete
<1>33. ASSUME NEW left \in SUBSET {p \in Pids : Live(p)}, CoreEnd(left) PROVE Watched'
  BY <1>33 DEF CoreEnd, All
<1>34. ASSUME CoreStart PROVE Watched'
  BY <1>34 DEF CoreStart
<1>35. CASE UNCHANGED vars
  BY <1>35 DEF vars
<1>36. ASSUME NEW a \in Actors, StopStep(a) PROVE Watched'
  BY ONLY <1>36, <1>5, <1>6, <1>7, <1>8, <1>9, <1>10, <1>11 DEF StopStep
<1>37. ASSUME NEW h \in Handlers, HandlerStep(h) PROVE Watched'
  BY ONLY <1>37, <1>36, <1>4, <1>12, <1>13, <1>14, <1>15, <1>16, <1>17, <1>18, <1>19, <1>20, <1>21
  DEF HandlerStep, Actors
<1>38. CASE MainStep
  BY ONLY <1>38, <1>36, <1>22, <1>23, <1>24 DEF MainStep, Actors
<1>39. ASSUME NEW t \in Threads, MonitorStep(t) PROVE Watched'
  BY ONLY <1>39, <1>25, <1>26, <1>27, <1>28 DEF MonitorStep, MonitorPollCut
<1>40. CASE Environment
  BY ONLY <1>40, <1>1, <1>2, <1>3, <1>28, <1>29, <1>30, <1>31, <1>32, <1>33, <1>34
  DEF Environment, MonitorPolled
<1>. QED  BY ONLY [Next]_vars, <1>35, <1>37, <1>38, <1>39, <1>40 DEF Next

\* A watching thread is always owned by its slot.
LEMMA Watching == ASSUME Serialised PROVE Spec => [](TypeInv /\ Exclusive /\ Watched)
<1>1. Init => Exclusive /\ Watched
  BY ActorAssumption DEF Init, Exclusive, Watched, All, AtRest, Actors, Busy, BusyPC, StopPC,
     ApplyPC, WatchingPC
<1>2. TypeInv /\ Exclusive /\ Watched /\ [Next]_vars
        => (TypeInv /\ Exclusive /\ Watched)'
  BY TypeOKStep, WellFormedStep, ExclusiveStep, WatchedStep DEF TypeInv
<1>. QED  BY TypeInit, <1>1, <1>2, PTL DEF Spec

\* A configuration is never watched by two monitor threads, if requests for one
\* configuration do not overlap.
THEOREM MonitorUnique == ASSUME Serialised PROVE Spec => []OneMonitor
<1>1. TypeInv /\ Watched => OneMonitor
  BY DEF Watched, OneMonitor, Watches
<1>. QED  BY Watching, <1>1, PTL

-----------------------------------------------------------------------------
(* Servers.                                                                  *)
\* Every live server stays named by its pid file or awaited by the handler that
\* forked it.
LEMMA ServedStep == Serialised /\ TypeInv /\ Exclusive /\ Served /\ Cleared /\ [Next]_vars => Served'
<1>. SUFFICES ASSUME Serialised, TypeInv, Exclusive, Served, Cleared, [Next]_vars PROVE Served'
  OBVIOUS
<1>. USE ActorAssumption
     DEF TypeInv, TypeOK, LocalsType, MonitorType, ProcessType,
         WellFormed, HandlersFit, MainFits, LocalsFit, ConfigsFit, DownIsIdle, Actors,
         Busy, BusyPC, StopPC, ApplyPC, MainPC, AtRest, coreVars, actorVars, monVars, procVars,
         Exclusive, Served, Cleared, Serves, Live
<1>1. ASSUME NEW h \in Handlers, NEW o \in {"apply", "stop"}, NEW c \in Configs, Receive(h, o, c) PROVE Served'
  BY <1>1 DEF Receive, AfterAccept
<1>2. ASSUME ReceiveOther PROVE Served'
  BY <1>2 DEF ReceiveOther, Goto, AfterAccept
<1>3. ASSUME RequestShutdown PROVE Served'
  BY <1>3 DEF RequestShutdown
<1>4. ASSUME NEW h \in Handlers, Reply(h) PROVE Served'
  BY <1>4 DEF Reply, Goto
<1>5. ASSUME NEW a \in Actors, StopReadPid(a) PROVE Served'
  BY <1>5 DEF StopReadPid, Goto
<1>6. ASSUME NEW a \in Actors, StopTerm(a) PROVE Served'
  BY <1>6 DEF StopTerm, Goto, AfterStop, Answer
<1>7. ASSUME NEW a \in Actors, StopWait(a) PROVE Served'
  BY <1>7 DEF StopWait, Goto, Dies, Corpse, Live
<1>8. ASSUME NEW a \in Actors, MonitorStopTest(a) PROVE Served'
  BY <1>8 DEF MonitorStopTest, Goto, AfterStop
<1>9. ASSUME NEW a \in Actors, MonitorStopClear(a) PROVE Served'
  BY <1>9 DEF MonitorStopClear, Goto
<1>10. ASSUME NEW a \in Actors, MonitorStopJoin(a) PROVE Served'
  BY <1>10 DEF MonitorStopJoin, Goto
<1>11. ASSUME NEW a \in Actors, MonitorStopUnlist(a) PROVE Served'
  BY <1>11 DEF MonitorStopUnlist, Goto, AfterStop
<1>12. ASSUME NEW h \in Handlers, StopSetStatus(h) PROVE Served'
  BY <1>12 DEF StopSetStatus, Goto, Answer
<1>13. ASSUME NEW h \in Handlers, StartAccess(h) PROVE Served'
  BY <1>13 DEF StartAccess, Goto, Answer
<1>14. ASSUME NEW h \in Handlers, StartLaunchFails(h) PROVE Served'
  BY <1>14 DEF StartLaunchFails, Goto, Answer
<1>15. ASSUME NEW h \in Handlers, NEW p \in Pids, StartLaunch(h, p) PROVE Served'
  BY <1>15 DEF StartLaunch, Goto, Live, FreshPid
<1>16. ASSUME NEW h \in Handlers, StartSettle(h) PROVE Served'
  BY <1>16 DEF StartSettle, Goto, Answer, Live
<1>17. ASSUME NEW h \in Handlers, MonitorStartTest(h) PROVE Served'
  BY <1>17 DEF MonitorStartTest, Goto
<1>18. ASSUME NEW h \in Handlers, NEW t \in Threads, MonitorStartCreate(h, t) PROVE Served'
  BY <1>18 DEF MonitorStartCreate, Goto
<1>19. ASSUME NEW h \in Handlers, MonitorStartFails(h) PROVE Served'
  BY <1>19 DEF MonitorStartFails, Goto
<1>20. ASSUME NEW h \in Handlers, MonitorStartList(h) PROVE Served'
  BY <1>20 DEF MonitorStartList, Goto
<1>21. ASSUME NEW h \in Handlers, ApplySetStatus(h) PROVE Served'
  BY <1>21 DEF ApplySetStatus, Goto, Answer
<1>22. ASSUME ShutdownSnapshot PROVE Served'
  BY <1>22 DEF ShutdownSnapshot, Goto
<1>23. ASSUME ShutdownNext PROVE Served'
  BY <1>23 DEF ShutdownNext, Goto
<1>24. ASSUME ShutdownDone PROVE Served'
  BY <1>24 DEF ShutdownDone, Goto
<1>25. ASSUME NEW t \in Threads, MonitorConnect(t) PROVE Served'
  BY <1>25 DEF MonitorConnect
<1>26. ASSUME NEW t \in Threads, MonitorCheck(t) PROVE Served'
  BY <1>26 DEF MonitorCheck
<1>27. ASSUME NEW t \in Threads, MonitorMark(t) PROVE Served'
  BY <1>27 DEF MonitorMark
<1>28. ASSUME NEW t \in Threads, PollReturns(t) PROVE Served'
  BY <1>28 DEF PollReturns
<1>29. ASSUME NEW p \in Pids, OpenvpnReady(p) PROVE Served'
  BY <1>29 DEF OpenvpnReady
<1>30. ASSUME NEW p \in Pids, OpenvpnCrash(p) PROVE Served'
  BY <1>30 DEF OpenvpnCrash, Dies, Corpse, Live
<1>31. ASSUME NEW p \in Pids, OpenvpnExit(p) PROVE Served'
  BY <1>31 DEF OpenvpnExit, Dies, Corpse, Live
<1>32. ASSUME NEW c \in Configs, WebDelete(c) PROVE Served'
  BY <1>32 DEF WebDelete
<1>33. ASSUME NEW left \in SUBSET {p \in Pids : Live(p)}, CoreEnd(left) PROVE Served'
  BY <1>33 DEF CoreEnd, Live
<1>34. ASSUME CoreStart PROVE Served'
  BY <1>34 DEF CoreStart
<1>35. CASE UNCHANGED vars
  BY <1>35 DEF vars
<1>36. ASSUME NEW a \in Actors, StopStep(a) PROVE Served'
  BY ONLY <1>36, <1>5, <1>6, <1>7, <1>8, <1>9, <1>10, <1>11 DEF StopStep
<1>37. ASSUME NEW h \in Handlers, HandlerStep(h) PROVE Served'
  BY ONLY <1>37, <1>36, <1>4, <1>12, <1>13, <1>14, <1>15, <1>16, <1>17, <1>18, <1>19, <1>20, <1>21
  DEF HandlerStep, Actors
<1>38. CASE MainStep
  BY ONLY <1>38, <1>36, <1>22, <1>23, <1>24 DEF MainStep, Actors
<1>39. ASSUME NEW t \in Threads, MonitorStep(t) PROVE Served'
  BY ONLY <1>39, <1>25, <1>26, <1>27, <1>28 DEF MonitorStep, MonitorPollCut
<1>40. CASE Environment
  BY ONLY <1>40, <1>1, <1>2, <1>3, <1>28, <1>29, <1>30, <1>31, <1>32, <1>33, <1>34
  DEF Environment, MonitorPolled
<1>. QED  BY ONLY [Next]_vars, <1>35, <1>37, <1>38, <1>39, <1>40 DEF Next

-----------------------------------------------------------------------------
(* Between the pid file and the answer.                                     *)
\* Between reading the pid file and forking or answering, stop_openvpn leaves no
\* server it does not know of.
LEMMA ClearedStep == Serialised /\ TypeInv /\ Exclusive /\ Served /\ Cleared /\ [Next]_vars => Cleared'
<1>. SUFFICES ASSUME Serialised, TypeInv, Exclusive, Served, Cleared, [Next]_vars PROVE Cleared'
  OBVIOUS
<1>. USE ActorAssumption
     DEF TypeInv, TypeOK, LocalsType, MonitorType, ProcessType,
         WellFormed, HandlersFit, MainFits, LocalsFit, ConfigsFit, DownIsIdle, Actors,
         Busy, BusyPC, StopPC, ApplyPC, MainPC, AtRest, coreVars, actorVars, monVars, procVars,
         Exclusive, Served, Cleared, StopsOk, Serves, Live
<1>1. ASSUME NEW h \in Handlers, NEW o \in {"apply", "stop"}, NEW c \in Configs, Receive(h, o, c) PROVE Cleared'
  BY <1>1 DEF Receive, AfterAccept
<1>2. ASSUME ReceiveOther PROVE Cleared'
  BY <1>2 DEF ReceiveOther, Goto, AfterAccept
<1>3. ASSUME RequestShutdown PROVE Cleared'
  BY <1>3 DEF RequestShutdown
<1>4. ASSUME NEW h \in Handlers, Reply(h) PROVE Cleared'
  BY <1>4 DEF Reply, Goto
<1>5. ASSUME NEW a \in Actors, StopReadPid(a) PROVE Cleared'
  <2>1. \A q \in Pids : Serves(q, arg[a]) => pidfile[arg[a]] = q
    <3>1. core # "down"
      BY <1>5 DEF StopReadPid
    <3>2. \A h \in Handlers : pc[h] = "settle" => arg[h] # arg[a]
      BY <1>5 DEF StopReadPid
    <3>. QED  BY <3>1, <3>2
  <2>2. \A q \in Pids : Serves(q, arg[a]) => pidfile[arg[a]] # None
    BY <2>1, NoneAssumption
  <2>. QED  BY <1>5, <2>1, <2>2 DEF StopReadPid, Goto
<1>6. ASSUME NEW a \in Actors, StopTerm(a) PROVE Cleared'
  BY <1>6 DEF StopTerm, Goto, AfterStop, Answer
<1>7. ASSUME NEW a \in Actors, StopWait(a) PROVE Cleared'
  BY <1>7 DEF StopWait, Goto, Dies, Corpse, Live
<1>8. ASSUME NEW a \in Actors, MonitorStopTest(a) PROVE Cleared'
  BY <1>8 DEF MonitorStopTest, Goto, AfterStop
<1>9. ASSUME NEW a \in Actors, MonitorStopClear(a) PROVE Cleared'
  BY <1>9 DEF MonitorStopClear, Goto
<1>10. ASSUME NEW a \in Actors, MonitorStopJoin(a) PROVE Cleared'
  BY <1>10 DEF MonitorStopJoin, Goto
<1>11. ASSUME NEW a \in Actors, MonitorStopUnlist(a) PROVE Cleared'
  BY <1>11 DEF MonitorStopUnlist, Goto, AfterStop
<1>12. ASSUME NEW h \in Handlers, StopSetStatus(h) PROVE Cleared'
  BY <1>12 DEF StopSetStatus, Goto, Answer
<1>13. ASSUME NEW h \in Handlers, StartAccess(h) PROVE Cleared'
  BY <1>13 DEF StartAccess, Goto, Answer
<1>14. ASSUME NEW h \in Handlers, StartLaunchFails(h) PROVE Cleared'
  BY <1>14 DEF StartLaunchFails, Goto, Answer
<1>15. ASSUME NEW h \in Handlers, NEW p \in Pids, StartLaunch(h, p) PROVE Cleared'
  BY <1>15 DEF StartLaunch, Goto, Live, FreshPid
<1>16. ASSUME NEW h \in Handlers, StartSettle(h) PROVE Cleared'
  BY <1>16 DEF StartSettle, Goto, Answer, Live
<1>17. ASSUME NEW h \in Handlers, MonitorStartTest(h) PROVE Cleared'
  BY <1>17 DEF MonitorStartTest, Goto
<1>18. ASSUME NEW h \in Handlers, NEW t \in Threads, MonitorStartCreate(h, t) PROVE Cleared'
  BY <1>18 DEF MonitorStartCreate, Goto
<1>19. ASSUME NEW h \in Handlers, MonitorStartFails(h) PROVE Cleared'
  BY <1>19 DEF MonitorStartFails, Goto
<1>20. ASSUME NEW h \in Handlers, MonitorStartList(h) PROVE Cleared'
  BY <1>20 DEF MonitorStartList, Goto
<1>21. ASSUME NEW h \in Handlers, ApplySetStatus(h) PROVE Cleared'
  BY <1>21 DEF ApplySetStatus, Goto, Answer
<1>22. ASSUME ShutdownSnapshot PROVE Cleared'
  BY <1>22 DEF ShutdownSnapshot, Goto
<1>23. ASSUME ShutdownNext PROVE Cleared'
  BY <1>23 DEF ShutdownNext, Goto
<1>24. ASSUME ShutdownDone PROVE Cleared'
  BY <1>24 DEF ShutdownDone, Goto
<1>25. ASSUME NEW t \in Threads, MonitorConnect(t) PROVE Cleared'
  BY <1>25 DEF MonitorConnect
<1>26. ASSUME NEW t \in Threads, MonitorCheck(t) PROVE Cleared'
  BY <1>26 DEF MonitorCheck
<1>27. ASSUME NEW t \in Threads, MonitorMark(t) PROVE Cleared'
  BY <1>27 DEF MonitorMark
<1>28. ASSUME NEW t \in Threads, PollReturns(t) PROVE Cleared'
  BY <1>28 DEF PollReturns
<1>29. ASSUME NEW p \in Pids, OpenvpnReady(p) PROVE Cleared'
  BY <1>29 DEF OpenvpnReady
<1>30. ASSUME NEW p \in Pids, OpenvpnCrash(p) PROVE Cleared'
  BY <1>30 DEF OpenvpnCrash, Dies, Corpse, Live
<1>31. ASSUME NEW p \in Pids, OpenvpnExit(p) PROVE Cleared'
  BY <1>31 DEF OpenvpnExit, Dies, Corpse, Live
<1>32. ASSUME NEW c \in Configs, WebDelete(c) PROVE Cleared'
  BY <1>32 DEF WebDelete
<1>33. ASSUME NEW left \in SUBSET {p \in Pids : Live(p)}, CoreEnd(left) PROVE Cleared'
  BY <1>33 DEF CoreEnd, Live
<1>34. ASSUME CoreStart PROVE Cleared'
  BY <1>34 DEF CoreStart
<1>35. CASE UNCHANGED vars
  BY <1>35 DEF vars
<1>36. ASSUME NEW a \in Actors, StopStep(a) PROVE Cleared'
  BY ONLY <1>36, <1>5, <1>6, <1>7, <1>8, <1>9, <1>10, <1>11 DEF StopStep
<1>37. ASSUME NEW h \in Handlers, HandlerStep(h) PROVE Cleared'
  BY ONLY <1>37, <1>36, <1>4, <1>12, <1>13, <1>14, <1>15, <1>16, <1>17, <1>18, <1>19, <1>20, <1>21
  DEF HandlerStep, Actors
<1>38. CASE MainStep
  BY ONLY <1>38, <1>36, <1>22, <1>23, <1>24 DEF MainStep, Actors
<1>39. ASSUME NEW t \in Threads, MonitorStep(t) PROVE Cleared'
  BY ONLY <1>39, <1>25, <1>26, <1>27, <1>28 DEF MonitorStep, MonitorPollCut
<1>40. CASE Environment
  BY ONLY <1>40, <1>1, <1>2, <1>3, <1>28, <1>29, <1>30, <1>31, <1>32, <1>33, <1>34
  DEF Environment, MonitorPolled
<1>. QED  BY ONLY [Next]_vars, <1>35, <1>37, <1>38, <1>39, <1>40 DEF Next

-----------------------------------------------------------------------------
(* The running flag.                                                        *)
\* From the join in monitor_stop to the answer, nobody sets the running flag again.
LEMMA UnflaggedStep == Serialised /\ TypeInv /\ Exclusive /\ Unflagged /\ [Next]_vars => Unflagged'
<1>. SUFFICES ASSUME Serialised, TypeInv, Exclusive, Unflagged, [Next]_vars PROVE Unflagged'
  OBVIOUS
<1>. USE ActorAssumption
     DEF TypeInv, TypeOK, LocalsType, MonitorType, ProcessType,
         WellFormed, HandlersFit, MainFits, LocalsFit, ConfigsFit, DownIsIdle, Actors,
         Busy, BusyPC, StopPC, ApplyPC, MainPC, AtRest, coreVars, actorVars, monVars, procVars,
         Exclusive, Unflagged, StopsOk
<1>1. ASSUME NEW h \in Handlers, NEW o \in {"apply", "stop"}, NEW c \in Configs, Receive(h, o, c) PROVE Unflagged'
  BY <1>1 DEF Receive, AfterAccept
<1>2. ASSUME ReceiveOther PROVE Unflagged'
  BY <1>2 DEF ReceiveOther, Goto, AfterAccept
<1>3. ASSUME RequestShutdown PROVE Unflagged'
  BY <1>3 DEF RequestShutdown
<1>4. ASSUME NEW h \in Handlers, Reply(h) PROVE Unflagged'
  BY <1>4 DEF Reply, Goto
<1>5. ASSUME NEW a \in Actors, StopReadPid(a) PROVE Unflagged'
  BY <1>5 DEF StopReadPid, Goto
<1>6. ASSUME NEW a \in Actors, StopTerm(a) PROVE Unflagged'
  BY <1>6 DEF StopTerm, Goto, AfterStop, Answer
<1>7. ASSUME NEW a \in Actors, StopWait(a) PROVE Unflagged'
  BY <1>7 DEF StopWait, Goto, Dies, Corpse, Live
<1>8. ASSUME NEW a \in Actors, MonitorStopTest(a) PROVE Unflagged'
  BY <1>8 DEF MonitorStopTest, Goto, AfterStop
<1>9. ASSUME NEW a \in Actors, MonitorStopClear(a) PROVE Unflagged'
  BY <1>9 DEF MonitorStopClear, Goto
<1>10. ASSUME NEW a \in Actors, MonitorStopJoin(a) PROVE Unflagged'
  BY <1>10 DEF MonitorStopJoin, Goto
<1>11. ASSUME NEW a \in Actors, MonitorStopUnlist(a) PROVE Unflagged'
  BY <1>11 DEF MonitorStopUnlist, Goto, AfterStop
<1>12. ASSUME NEW h \in Handlers, StopSetStatus(h) PROVE Unflagged'
  BY <1>12 DEF StopSetStatus, Goto, Answer
<1>13. ASSUME NEW h \in Handlers, StartAccess(h) PROVE Unflagged'
  BY <1>13 DEF StartAccess, Goto, Answer
<1>14. ASSUME NEW h \in Handlers, StartLaunchFails(h) PROVE Unflagged'
  BY <1>14 DEF StartLaunchFails, Goto, Answer
<1>15. ASSUME NEW h \in Handlers, NEW p \in Pids, StartLaunch(h, p) PROVE Unflagged'
  BY <1>15 DEF StartLaunch, Goto, Live, FreshPid
<1>16. ASSUME NEW h \in Handlers, StartSettle(h) PROVE Unflagged'
  BY <1>16 DEF StartSettle, Goto, Answer, Live
<1>17. ASSUME NEW h \in Handlers, MonitorStartTest(h) PROVE Unflagged'
  BY <1>17 DEF MonitorStartTest, Goto
<1>18. ASSUME NEW h \in Handlers, NEW t \in Threads, MonitorStartCreate(h, t) PROVE Unflagged'
  BY <1>18 DEF MonitorStartCreate, Goto
<1>19. ASSUME NEW h \in Handlers, MonitorStartFails(h) PROVE Unflagged'
  BY <1>19 DEF MonitorStartFails, Goto
<1>20. ASSUME NEW h \in Handlers, MonitorStartList(h) PROVE Unflagged'
  BY <1>20 DEF MonitorStartList, Goto
<1>21. ASSUME NEW h \in Handlers, ApplySetStatus(h) PROVE Unflagged'
  BY <1>21 DEF ApplySetStatus, Goto, Answer
<1>22. ASSUME ShutdownSnapshot PROVE Unflagged'
  BY <1>22 DEF ShutdownSnapshot, Goto
<1>23. ASSUME ShutdownNext PROVE Unflagged'
  BY <1>23 DEF ShutdownNext, Goto
<1>24. ASSUME ShutdownDone PROVE Unflagged'
  BY <1>24 DEF ShutdownDone, Goto
<1>25. ASSUME NEW t \in Threads, MonitorConnect(t) PROVE Unflagged'
  BY <1>25 DEF MonitorConnect
<1>26. ASSUME NEW t \in Threads, MonitorCheck(t) PROVE Unflagged'
  BY <1>26 DEF MonitorCheck
<1>27. ASSUME NEW t \in Threads, MonitorMark(t) PROVE Unflagged'
  BY <1>27 DEF MonitorMark
<1>28. ASSUME NEW t \in Threads, PollReturns(t) PROVE Unflagged'
  BY <1>28 DEF PollReturns
<1>29. ASSUME NEW p \in Pids, OpenvpnReady(p) PROVE Unflagged'
  BY <1>29 DEF OpenvpnReady
<1>30. ASSUME NEW p \in Pids, OpenvpnCrash(p) PROVE Unflagged'
  BY <1>30 DEF OpenvpnCrash, Dies, Corpse, Live
<1>31. ASSUME NEW p \in Pids, OpenvpnExit(p) PROVE Unflagged'
  BY <1>31 DEF OpenvpnExit, Dies, Corpse, Live
<1>32. ASSUME NEW c \in Configs, WebDelete(c) PROVE Unflagged'
  BY <1>32 DEF WebDelete
<1>33. ASSUME NEW left \in SUBSET {p \in Pids : Live(p)}, CoreEnd(left) PROVE Unflagged'
  BY <1>33 DEF CoreEnd, Live
<1>34. ASSUME CoreStart PROVE Unflagged'
  BY <1>34 DEF CoreStart
<1>35. CASE UNCHANGED vars
  BY <1>35 DEF vars
<1>36. ASSUME NEW a \in Actors, StopStep(a) PROVE Unflagged'
  BY ONLY <1>36, <1>5, <1>6, <1>7, <1>8, <1>9, <1>10, <1>11 DEF StopStep
<1>37. ASSUME NEW h \in Handlers, HandlerStep(h) PROVE Unflagged'
  BY ONLY <1>37, <1>36, <1>4, <1>12, <1>13, <1>14, <1>15, <1>16, <1>17, <1>18, <1>19, <1>20, <1>21
  DEF HandlerStep, Actors
<1>38. CASE MainStep
  BY ONLY <1>38, <1>36, <1>22, <1>23, <1>24 DEF MainStep, Actors
<1>39. ASSUME NEW t \in Threads, MonitorStep(t) PROVE Unflagged'
  BY ONLY <1>39, <1>25, <1>26, <1>27, <1>28 DEF MonitorStep, MonitorPollCut
<1>40. CASE Environment
  BY ONLY <1>40, <1>1, <1>2, <1>3, <1>28, <1>29, <1>30, <1>31, <1>32, <1>33, <1>34
  DEF Environment, MonitorPolled
<1>. QED  BY ONLY [Next]_vars, <1>35, <1>37, <1>38, <1>39, <1>40 DEF Next

\* The inductive invariant.
Serving == TypeInv /\ Exclusive /\ Watched /\ Served /\ Cleared /\ Unflagged

\* All parts of the inductive invariant hold in every reachable state.
LEMMA ServingAlways == ASSUME Serialised PROVE Spec => []Serving
<1>1. Init => Served /\ Cleared /\ Unflagged
  BY ActorAssumption DEF Init, Served, Cleared, Unflagged, StopsOk, Serves, Live, All, AtRest, Actors
<1>2. Serving /\ [Next]_vars => (Served /\ Cleared /\ Unflagged)'
  BY ServedStep, ClearedStep, UnflaggedStep DEF Serving
<1>. QED  BY Watching, <1>1, <1>2, PTL DEF Spec, Serving

\* A configuration never has two servers alive, if requests for one configuration
\* do not overlap; deaths and restarts of the daemon are included.
THEOREM ServerUnique == ASSUME Serialised PROVE Spec => []OneServer
<1>1. Serving => OneServer
  BY DEF Serving, TypeInv, TypeOK, ProcessType, Served, OneServer, Serves, Live
<1>. QED  BY ServingAlways, <1>1, PTL

\* An ok from stop_config means that the server, the monitor and the flag are gone.
THEOREM StopsForSure == ASSUME Serialised PROVE Spec => []StopOkMeansStopped
<1>1. Serving => StopOkMeansStopped
  BY DEF Serving, Exclusive, Watched, Cleared, Unflagged, StopsOk, StopOkMeansStopped, Serves,
     Watches, Busy, BusyPC, StopPC, Actors
<1>. QED  BY ServingAlways, <1>1, PTL
=============================================================================
