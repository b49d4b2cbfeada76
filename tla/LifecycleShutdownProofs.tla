------------------------ MODULE LifecycleShutdownProofs ------------------------
(***************************************************************************)
(* Proofs about Lifecycle: what is in running_configs, that the orderly     *)
(* shutdown, which goes by it, stops every server, that pthread_join never  *)
(* waits for a live server, and that a live server has its monitor, for any *)
(* configurations, threads and processes.  Requests for one configuration   *)
(* do not overlap; each theorem states what else it needs.                  *)
(***************************************************************************)
EXTENDS LifecycleStatusProofs, FiniteSetTheorems

-----------------------------------------------------------------------------
(* The inductive invariant, on top of Serving, Marking and Sole.            *)

\* The flag of a configuration while monitor_stop and monitor_start are on it.
Flags ==
    /\ \A a \in Actors : pc[a] = "mclear" => running[arg[a]]
    /\ \A a \in Actors : pc[a] \in {"join", "unlist"} => ~running[arg[a]]
    /\ \A h \in Handlers : pc[h] = "list" => running[arg[h]]

\* running_configs has no entry twice, and those of the configurations that should
\* be in it.
Distinct(s) == \A i, j \in 1 .. Len(s) : s[i] = s[j] => i = j
In(s, c) == \E i \in 1 .. Len(s) : s[i] = c
Exact == Distinct(listed) /\ \A c \in Configs : In(listed, c) <=> ShouldBeListed(c)

\* A server that this daemon started is monitored, or its handler has still to call
\* monitor_start.
Covered ==
    \A p \in Pids : Live(p) /\ child[p] =>
        \/ running[pcfg[p]]
        \/ \E h \in Handlers : arg[h] = pcfg[p] /\ pc[h] \in {"settle", "mcheck", "mcreate"}

\* During monitor_stop_all: no server once the signals are sent; none for what the
\* loop has passed; and every server of this daemon is one of the snapshot's.
ShuttingPC == StopPC \union {"next", "done"}
Halted ==
    pc[Main] \in {"mtest", "mclear", "join", "unlist"} => \A q \in Pids : ~Serves(q, arg[Main])
Swept ==
    pc[Main] \in ShuttingPC => \A j \in 1 .. Len(snap) : j < at =>
        \/ \A q \in Pids : ~Serves(q, snap[j])
        \/ pc[Main] \in {"readpid", "term", "wait"} /\ arg[Main] = snap[j]
Snapped ==
    pc[Main] \in ShuttingPC => \A p \in Pids : Live(p) /\ child[p] => In(snap, pcfg[p])

\* A running configuration's monitor thread is the one its slot names, and at work for
\* as long as a server of the configuration lives.
Attended ==
    \A c \in Configs, p \in Pids : running[c] /\ Serves(p, c) =>
        handle[c] \in Threads /\ Watches(handle[c], c)

Listing == Flags /\ Exact
Sweeping == Covered /\ Halted /\ Swept /\ Snapped

-----------------------------------------------------------------------------
(* Lists without repetition.                                                *)

\* What monitor_start appends is one entry more.
LEMMA Append1 ==
    ASSUME NEW s \in Seq(Configs), NEW c \in Configs, Distinct(s), ~In(s, c)
    PROVE  /\ Distinct(Append(s, c))
           /\ \A d \in Configs : In(Append(s, c), d) <=> d = c \/ In(s, d)
<1>. DEFINE t == Append(s, c)
<1>1. /\ Len(t) = Len(s) + 1 /\ t[Len(s) + 1] = c /\ Len(s) \in Nat
      /\ \A i \in 1 .. Len(s) : t[i] = s[i]
  OBVIOUS
<1>. HIDE DEF t
<1>2. Distinct(t)
  BY <1>1 DEF Distinct, In
<1>3. \A d \in Configs : In(t, d) <=> d = c \/ In(s, d)
  <2>. SUFFICES ASSUME NEW d \in Configs PROVE In(t, d) <=> d = c \/ In(s, d)
    OBVIOUS
  <2>1. ASSUME In(t, d) PROVE d = c \/ In(s, d)
    BY <1>1, <2>1 DEF In
  <2>2. ASSUME In(s, d) PROVE In(t, d)
    <3>1. PICK i \in 1 .. Len(s) : s[i] = d
      BY <2>2 DEF In
    <3>2. i \in 1 .. Len(t) /\ t[i] = d
      BY <1>1, <3>1
    <3>. QED  BY <3>2 DEF In
  <2>3. ASSUME d = c PROVE In(t, d)
    <3>1. Len(s) + 1 \in 1 .. Len(t)
      BY <1>1
    <3>. QED  BY <1>1, <2>3, <3>1 DEF In
  <2>. QED  BY <2>1, <2>2, <2>3
<1>. QED  BY <1>2, <1>3 DEF t

\* Moving the last entry into the place of the one taken out loses and doubles none.
LEMMA UnlistedRest ==
    ASSUME listed \in Seq(Configs), NEW c \in Configs, Distinct(listed)
    PROVE  /\ Distinct(Unlisted(c))
           /\ \A d \in Configs : In(Unlisted(c), d) <=> d # c /\ In(listed, d)
<1>1. CASE Positions(c) = {}
  BY <1>1 DEF Unlisted, Positions, In
<1>2. CASE Positions(c) # {}
  <2>. DEFINE n == Len(listed)
  <2>1. n \in Nat
    OBVIOUS
  <2>2. PICK k \in 1 .. n : listed[k] = c /\ Positions(c) = {k}
    BY <1>2 DEF Positions, Distinct
  <2>3. First(Positions(c)) = k
    BY <2>2 DEF First
  <2>. DEFINE t == Unlisted(c)
  <2>4. t = [j \in 1 .. n - 1 |-> IF j = k THEN listed[n] ELSE listed[j]]
    BY <1>2, <2>3 DEF Unlisted
  <2>5. Len(t) = n - 1
    BY <2>1, <2>2, <2>4
  <2>6. \A j \in 1 .. n - 1 : t[j] = IF j = k THEN listed[n] ELSE listed[j]
    BY <2>4
  <2>. HIDE DEF t, n
  <2>7. Distinct(t)
    BY <2>1, <2>2, <2>5, <2>6 DEF Distinct, n
  <2>8. \A d \in Configs : In(t, d) <=> d # c /\ In(listed, d)
    <3>. SUFFICES ASSUME NEW d \in Configs PROVE In(t, d) <=> d # c /\ In(listed, d)
      OBVIOUS
    <3>1. ASSUME In(t, d) PROVE d # c /\ In(listed, d)
      <4>1. PICK j \in 1 .. n - 1 : t[j] = d
        BY <2>5, <3>1 DEF In
      <4>2. CASE j = k
        BY <2>1, <2>2, <2>6, <4>1, <4>2 DEF In, Distinct, n
      <4>3. CASE j # k
        BY <2>1, <2>2, <2>6, <4>1, <4>3 DEF In, Distinct, n
      <4>. QED  BY <4>2, <4>3
    <3>2. ASSUME d # c, In(listed, d) PROVE In(t, d)
      <4>1. PICK i \in 1 .. n : listed[i] = d
        BY <3>2 DEF In, n
      <4>2. i # k
        BY <2>2, <3>2, <4>1
      <4>3. CASE i = n
        <5>1. k \in 1 .. n - 1 /\ t[k] = d
          BY <2>1, <2>2, <2>6, <4>1, <4>2, <4>3
        <5>. QED  BY <2>5, <5>1 DEF In
      <4>4. CASE i # n
        <5>1. i \in 1 .. n - 1 /\ t[i] = d
          BY <2>1, <2>6, <4>1, <4>2, <4>4
        <5>. QED  BY <2>5, <5>1 DEF In
      <4>. QED  BY <4>3, <4>4
    <3>. QED  BY <3>1, <3>2
  <2>. QED  BY <2>7, <2>8 DEF t
<1>. QED  BY <1>1, <1>2

\* An array as long as there are configurations has room for one that it lacks.
LEMMA HasRoom ==
    ASSUME IsFiniteSet(Configs), Cardinality(Configs) <= MaxRunning,
           NEW s \in Seq(Configs), NEW c \in Configs, Distinct(s), ~In(s, c)
    PROVE  Len(s) < MaxRunning
<1>. DEFINE T == Configs \ {c}
<1>1. /\ IsFiniteSet(T) /\ Cardinality(T) = Cardinality(Configs) - 1
  BY FS_RemoveElement
<1>2. Cardinality(Configs) \in Nat /\ Len(s) \in Nat
  BY FS_CardinalityType
<1>3. s \in [1 .. Len(s) -> T]
  BY DEF In
<1>4. s \in Injection(1 .. Len(s), T)
  BY <1>3 DEF Distinct, Injection, IsInjective
<1>5. Cardinality(1 .. Len(s)) <= Cardinality(T)
  BY <1>1, <1>4, FS_Injection
<1>6. Cardinality(1 .. Len(s)) = Len(s)
  <2>1. Len(s) \in Int /\ 1 \in Int
    BY <1>2
  <2>2. Cardinality(1 .. Len(s)) = IF 1 > Len(s) THEN 0 ELSE Len(s) - 1 + 1
    BY ONLY <2>1, FS_Interval
  <2>. QED  BY <1>2, <2>2
<1>. QED  BY <1>1, <1>2, <1>5, <1>6, BoundAssumption

-----------------------------------------------------------------------------
(* What is in running_configs.                                              *)

\* Nobody else sets or clears the flag of a configuration that a request is on.
LEMMA FlagsStep ==
    ASSUME Serialised, TypeInv, Exclusive, NotYet, Flags, [Next]_vars
    PROVE  Flags'
<1>. USE ActorAssumption, NoneAssumption, Serialised
     DEF TypeInv, TypeOK, LocalsType, MonitorType, ProcessType,
         WellFormed, HandlersFit, MainFits, LocalsFit, ConfigsFit, DownIsIdle, Actors,
         Busy, BusyPC, StopPC, ApplyPC, MainPC, AtRest, coreVars, actorVars, monVars,
         procVars, Live,
         Exclusive, NotYet, Flags
<1>1. ASSUME NEW h \in Handlers, NEW o \in {"apply", "stop"}, NEW c \in Configs, Receive(h, o, c)
       PROVE  Flags'
  BY <1>1 DEF Receive, AfterAccept
<1>2. ASSUME ReceiveOther PROVE Flags'
  BY <1>2 DEF ReceiveOther, Goto, AfterAccept
<1>3. ASSUME RequestShutdown PROVE Flags'
  BY <1>3 DEF RequestShutdown
<1>4. ASSUME NEW h \in Handlers, Reply(h) PROVE Flags'
  BY <1>4 DEF Reply, Goto
<1>5. ASSUME NEW a \in Actors, StopReadPid(a) PROVE Flags'
  BY <1>5 DEF StopReadPid, Goto
<1>6. ASSUME NEW a \in Actors, StopTerm(a) PROVE Flags'
  BY <1>6 DEF StopTerm, Goto, AfterStop, Answer
<1>7. ASSUME NEW a \in Actors, StopWait(a) PROVE Flags'
  BY <1>7 DEF StopWait, Goto, Dies, Corpse, Live
<1>8. ASSUME NEW a \in Actors, MonitorStopTest(a) PROVE Flags'
  BY <1>8 DEF MonitorStopTest, Goto, AfterStop
<1>9. ASSUME NEW a \in Actors, MonitorStopClear(a) PROVE Flags'
  BY <1>9 DEF MonitorStopClear, Goto
<1>10. ASSUME NEW a \in Actors, MonitorStopJoin(a) PROVE Flags'
  BY <1>10 DEF MonitorStopJoin, Goto
<1>11. ASSUME NEW a \in Actors, MonitorStopUnlist(a) PROVE Flags'
  BY <1>11 DEF MonitorStopUnlist, Goto, AfterStop
<1>12. ASSUME NEW h \in Handlers, StopSetStatus(h) PROVE Flags'
  BY <1>12 DEF StopSetStatus, Goto, Answer
<1>13. ASSUME NEW h \in Handlers, StartAccess(h) PROVE Flags'
  BY <1>13 DEF StartAccess, Goto, Answer
<1>14. ASSUME NEW h \in Handlers, StartLaunchFails(h) PROVE Flags'
  BY <1>14 DEF StartLaunchFails, Goto, Answer
<1>15. ASSUME NEW h \in Handlers, NEW p \in Pids, StartLaunch(h, p) PROVE Flags'
  BY <1>15 DEF StartLaunch, Goto, Live, FreshPid
<1>16. ASSUME NEW h \in Handlers, StartSettle(h) PROVE Flags'
  BY <1>16 DEF StartSettle, Goto, Answer, Live
<1>17. ASSUME NEW h \in Handlers, MonitorStartTest(h) PROVE Flags'
  BY <1>17 DEF MonitorStartTest, Goto
<1>18. ASSUME NEW h \in Handlers, NEW t \in Threads, MonitorStartCreate(h, t) PROVE Flags'
  BY <1>18 DEF MonitorStartCreate, Goto
<1>19. ASSUME NEW h \in Handlers, MonitorStartFails(h) PROVE Flags'
  BY <1>19 DEF MonitorStartFails, Goto
<1>20. ASSUME NEW h \in Handlers, MonitorStartList(h) PROVE Flags'
  BY <1>20 DEF MonitorStartList, Goto
<1>21. ASSUME NEW h \in Handlers, ApplySetStatus(h) PROVE Flags'
  BY <1>21 DEF ApplySetStatus, Goto, Answer
<1>22. ASSUME ShutdownSnapshot PROVE Flags'
  BY <1>22 DEF ShutdownSnapshot, Goto
<1>23. ASSUME ShutdownNext PROVE Flags'
  BY <1>23 DEF ShutdownNext, Goto
<1>24. ASSUME ShutdownDone PROVE Flags'
  BY <1>24 DEF ShutdownDone, Goto
<1>25. ASSUME NEW t \in Threads, MonitorConnect(t) PROVE Flags'
  BY <1>25 DEF MonitorConnect
<1>26. ASSUME NEW t \in Threads, MonitorCheck(t) PROVE Flags'
  BY <1>26 DEF MonitorCheck
<1>27. ASSUME NEW t \in Threads, MonitorMark(t) PROVE Flags'
  BY <1>27 DEF MonitorMark
<1>28. ASSUME NEW t \in Threads, PollReturns(t) PROVE Flags'
  BY <1>28 DEF PollReturns
<1>29. ASSUME NEW p \in Pids, OpenvpnReady(p) PROVE Flags'
  BY <1>29 DEF OpenvpnReady
<1>30. ASSUME NEW p \in Pids, OpenvpnCrash(p) PROVE Flags'
  BY <1>30 DEF OpenvpnCrash, Dies, Corpse, Live
<1>31. ASSUME NEW p \in Pids, OpenvpnExit(p) PROVE Flags'
  BY <1>31 DEF OpenvpnExit, Dies, Corpse, Live
<1>32. ASSUME NEW c \in Configs, WebDelete(c) PROVE Flags'
  BY <1>32 DEF WebDelete
<1>33. ASSUME NEW left \in SUBSET {p \in Pids : Live(p)}, CoreEnd(left) PROVE Flags'
  BY <1>33 DEF CoreEnd, All
<1>34. ASSUME CoreStart PROVE Flags'
  BY <1>34 DEF CoreStart
<1>35. CASE UNCHANGED vars
  BY <1>35 DEF vars
<1>36. ASSUME NEW a \in Actors, StopStep(a) PROVE Flags'
  BY ONLY <1>36, <1>5, <1>6, <1>7, <1>8, <1>9, <1>10, <1>11 DEF StopStep
<1>37. ASSUME NEW h \in Handlers, HandlerStep(h) PROVE Flags'
  BY ONLY <1>37, <1>36, <1>4, <1>12, <1>13, <1>14, <1>15, <1>16, <1>17, <1>18, <1>19, <1>20, <1>21
  DEF HandlerStep, Actors
<1>38. CASE MainStep
  BY ONLY <1>38, <1>36, <1>22, <1>23, <1>24 DEF MainStep, Actors
<1>39. ASSUME NEW t \in Threads, MonitorStep(t) PROVE Flags'
  BY ONLY <1>39, <1>25, <1>26, <1>27, <1>28 DEF MonitorStep, MonitorPollCut
<1>40. CASE Environment
  BY ONLY <1>40, <1>1, <1>2, <1>3, <1>28, <1>29, <1>30, <1>31, <1>32, <1>33, <1>34
  DEF Environment, MonitorPolled
<1>. QED  BY ONLY [Next]_vars, <1>35, <1>37, <1>38, <1>39, <1>40 DEF Next

\* An entry comes with monitor_start and goes with monitor_stop.
LEMMA ExactStep ==
    ASSUME Serialised, IsFiniteSet(Configs), Cardinality(Configs) <= MaxRunning, TypeInv, Exclusive, NotYet, Flags, Exact, [Next]_vars
    PROVE  Exact'
<1>. USE ActorAssumption, NoneAssumption, Serialised
     DEF TypeInv, TypeOK, LocalsType, MonitorType, ProcessType,
         WellFormed, HandlersFit, MainFits, LocalsFit, ConfigsFit, DownIsIdle, Actors,
         Busy, BusyPC, StopPC, ApplyPC, MainPC, AtRest, coreVars, actorVars, monVars,
         procVars, Live,
         Exclusive, NotYet, Flags, Exact, ShouldBeListed
<1>1. ASSUME NEW h \in Handlers, NEW o \in {"apply", "stop"}, NEW c \in Configs, Receive(h, o, c)
       PROVE  Exact'
  BY <1>1 DEF Receive, AfterAccept
<1>2. ASSUME ReceiveOther PROVE Exact'
  BY <1>2 DEF ReceiveOther, Goto, AfterAccept
<1>3. ASSUME RequestShutdown PROVE Exact'
  BY <1>3 DEF RequestShutdown
<1>4. ASSUME NEW h \in Handlers, Reply(h) PROVE Exact'
  BY <1>4 DEF Reply, Goto
<1>5. ASSUME NEW a \in Actors, StopReadPid(a) PROVE Exact'
  BY <1>5 DEF StopReadPid, Goto
<1>6. ASSUME NEW a \in Actors, StopTerm(a) PROVE Exact'
  BY <1>6 DEF StopTerm, Goto, AfterStop, Answer
<1>7. ASSUME NEW a \in Actors, StopWait(a) PROVE Exact'
  BY <1>7 DEF StopWait, Goto, Dies, Corpse, Live
<1>8. ASSUME NEW a \in Actors, MonitorStopTest(a) PROVE Exact'
  BY <1>8 DEF MonitorStopTest, Goto, AfterStop
<1>9. ASSUME NEW a \in Actors, MonitorStopClear(a) PROVE Exact'
  BY <1>9 DEF MonitorStopClear, Goto
<1>10. ASSUME NEW a \in Actors, MonitorStopJoin(a) PROVE Exact'
  BY <1>10 DEF MonitorStopJoin, Goto
<1>11. ASSUME NEW a \in Actors, MonitorStopUnlist(a) PROVE Exact'
  <2>1. arg[a] \in Configs /\ listed' = Unlisted(arg[a])
    BY <1>11 DEF MonitorStopUnlist
  <2>2. Distinct(listed') /\ \A d \in Configs : In(listed', d) <=> d # arg[a] /\ In(listed, d)
    BY <2>1, UnlistedRest DEF ListType
  <2>3. \A d \in Configs : ShouldBeListed(d)' <=> d # arg[a] /\ ShouldBeListed(d)
    BY <1>11 DEF MonitorStopUnlist, Goto, AfterStop
  <2>. QED  BY <2>2, <2>3
<1>12. ASSUME NEW h \in Handlers, StopSetStatus(h) PROVE Exact'
  BY <1>12 DEF StopSetStatus, Goto, Answer
<1>13. ASSUME NEW h \in Handlers, StartAccess(h) PROVE Exact'
  BY <1>13 DEF StartAccess, Goto, Answer
<1>14. ASSUME NEW h \in Handlers, StartLaunchFails(h) PROVE Exact'
  BY <1>14 DEF StartLaunchFails, Goto, Answer
<1>15. ASSUME NEW h \in Handlers, NEW p \in Pids, StartLaunch(h, p) PROVE Exact'
  BY <1>15 DEF StartLaunch, Goto, Live, FreshPid
<1>16. ASSUME NEW h \in Handlers, StartSettle(h) PROVE Exact'
  BY <1>16 DEF StartSettle, Goto, Answer, Live
<1>17. ASSUME NEW h \in Handlers, MonitorStartTest(h) PROVE Exact'
  BY <1>17 DEF MonitorStartTest, Goto
<1>18. ASSUME NEW h \in Handlers, NEW t \in Threads, MonitorStartCreate(h, t) PROVE Exact'
  BY <1>18 DEF MonitorStartCreate, Goto
<1>19. ASSUME NEW h \in Handlers, MonitorStartFails(h) PROVE Exact'
  BY <1>19 DEF MonitorStartFails, Goto
<1>20. ASSUME NEW h \in Handlers, MonitorStartList(h) PROVE Exact'
  <2>1. arg[h] \in Configs /\ pc[h] = "list"
    BY <1>20 DEF MonitorStartList
  <2>2. ~ShouldBeListed(arg[h])
    BY <2>1
  <2>3. Distinct(listed) /\ ~In(listed, arg[h])
    BY <2>1, <2>2
  <2>4. Len(listed) < MaxRunning
    BY <2>1, <2>3, HasRoom DEF ListType
  <2>5. listed' = Append(listed, arg[h])
    BY <1>20, <2>4 DEF MonitorStartList
  <2>6. Distinct(listed') /\ \A d \in Configs : In(listed', d) <=> d = arg[h] \/ In(listed, d)
    BY <2>1, <2>3, <2>5, Append1 DEF ListType
  <2>7. \A d \in Configs : ShouldBeListed(d)' <=> d = arg[h] \/ ShouldBeListed(d)
    BY <1>20 DEF MonitorStartList, Goto
  <2>. QED  BY <2>6, <2>7
<1>21. ASSUME NEW h \in Handlers, ApplySetStatus(h) PROVE Exact'
  BY <1>21 DEF ApplySetStatus, Goto, Answer
<1>22. ASSUME ShutdownSnapshot PROVE Exact'
  BY <1>22 DEF ShutdownSnapshot, Goto
<1>23. ASSUME ShutdownNext PROVE Exact'
  BY <1>23 DEF ShutdownNext, Goto
<1>24. ASSUME ShutdownDone PROVE Exact'
  BY <1>24 DEF ShutdownDone, Goto
<1>25. ASSUME NEW t \in Threads, MonitorConnect(t) PROVE Exact'
  BY <1>25 DEF MonitorConnect
<1>26. ASSUME NEW t \in Threads, MonitorCheck(t) PROVE Exact'
  BY <1>26 DEF MonitorCheck
<1>27. ASSUME NEW t \in Threads, MonitorMark(t) PROVE Exact'
  BY <1>27 DEF MonitorMark
<1>28. ASSUME NEW t \in Threads, PollReturns(t) PROVE Exact'
  BY <1>28 DEF PollReturns
<1>29. ASSUME NEW p \in Pids, OpenvpnReady(p) PROVE Exact'
  BY <1>29 DEF OpenvpnReady
<1>30. ASSUME NEW p \in Pids, OpenvpnCrash(p) PROVE Exact'
  BY <1>30 DEF OpenvpnCrash, Dies, Corpse, Live
<1>31. ASSUME NEW p \in Pids, OpenvpnExit(p) PROVE Exact'
  BY <1>31 DEF OpenvpnExit, Dies, Corpse, Live
<1>32. ASSUME NEW c \in Configs, WebDelete(c) PROVE Exact'
  BY <1>32 DEF WebDelete
<1>33. ASSUME NEW left \in SUBSET {p \in Pids : Live(p)}, CoreEnd(left) PROVE Exact'
  <2>1. listed' = <<>> /\ \A c \in Configs : ~ShouldBeListed(c)'
    BY <1>33 DEF CoreEnd, All
  <2>. QED  BY <2>1 DEF Distinct, In
<1>34. ASSUME CoreStart PROVE Exact'
  BY <1>34 DEF CoreStart
<1>35. CASE UNCHANGED vars
  BY <1>35 DEF vars
<1>36. ASSUME NEW a \in Actors, StopStep(a) PROVE Exact'
  BY ONLY <1>36, <1>5, <1>6, <1>7, <1>8, <1>9, <1>10, <1>11 DEF StopStep
<1>37. ASSUME NEW h \in Handlers, HandlerStep(h) PROVE Exact'
  BY ONLY <1>37, <1>36, <1>4, <1>12, <1>13, <1>14, <1>15, <1>16, <1>17, <1>18, <1>19, <1>20, <1>21
  DEF HandlerStep, Actors
<1>38. CASE MainStep
  BY ONLY <1>38, <1>36, <1>22, <1>23, <1>24 DEF MainStep, Actors
<1>39. ASSUME NEW t \in Threads, MonitorStep(t) PROVE Exact'
  BY ONLY <1>39, <1>25, <1>26, <1>27, <1>28 DEF MonitorStep, MonitorPollCut
<1>40. CASE Environment
  BY ONLY <1>40, <1>1, <1>2, <1>3, <1>28, <1>29, <1>30, <1>31, <1>32, <1>33, <1>34
  DEF Environment, MonitorPolled
<1>. QED  BY ONLY [Next]_vars, <1>35, <1>37, <1>38, <1>39, <1>40 DEF Next

\* Flags and list fit in every reachable state.
LEMMA ListingAlways ==
    ASSUME Serialised, IsFiniteSet(Configs), Cardinality(Configs) <= MaxRunning
    PROVE  Spec => [](Inv /\ Listing)
<1>1. Init => Listing
  <2>. SUFFICES ASSUME Init PROVE Listing
    OBVIOUS
  <2>1. Len(listed) = 0
    BY EmptyList DEF Init
  <2>2. Flags
    BY ActorAssumption DEF Init, Flags, AtRest, Actors
  <2>3. \A c \in Configs : ~ShouldBeListed(c)
    BY ActorAssumption DEF Init, ShouldBeListed, All, AtRest, Actors
  <2>. QED  BY <2>1, <2>2, <2>3 DEF Listing, Exact, Distinct, In
<1>2. Inv /\ Listing /\ [Next]_vars => Listing'
  BY FlagsStep, ExactStep, Serialised DEF Inv, Serving, Marking, Listing
<1>. QED  BY InvAlways, <1>1, <1>2, PTL DEF Spec

\* running_configs holds each monitored configuration once and no other, if it is as
\* long as there are configurations and requests for one of them do not overlap.
THEOREM ListIsExact ==
    ASSUME Serialised, IsFiniteSet(Configs), Cardinality(Configs) <= MaxRunning
    PROVE  Spec => []ListedExactly
<1>1. Inv /\ Listing => ListedExactly
  <2>. SUFFICES ASSUME Exact, NEW c \in Configs
                PROVE  Cardinality(Positions(c)) = IF ShouldBeListed(c) THEN 1 ELSE 0
    BY DEF Listing, ListedExactly
  <2>1. CASE ShouldBeListed(c)
    <3>1. PICK i \in 1 .. Len(listed) : listed[i] = c
      BY <2>1 DEF Exact, In
    <3>2. Positions(c) = {i}
      BY <3>1 DEF Positions, Exact, Distinct
    <3>. QED  BY <2>1, <3>2, FS_Singleton
  <2>2. CASE ~ShouldBeListed(c)
    <3>1. Positions(c) = {}
      BY <2>2 DEF Positions, Exact, In
    <3>. QED  BY <2>2, <3>1, FS_EmptySet
  <2>. QED  BY <2>1, <2>2
<1>. QED  BY ListingAlways, <1>1, PTL

-----------------------------------------------------------------------------
(* The orderly shutdown.                                                    *)

\* Only a stop clears a flag, and it has killed the server before.
LEMMA CoveredStep ==
    ASSUME Serialised, ~ThreadFail, TypeInv, Exclusive, Served, Cleared, Forked, NotYet, Sole, Halted, Covered, [Next]_vars
    PROVE  Covered'
<1>. USE ActorAssumption, NoneAssumption, Serialised, ~ThreadFail
     DEF TypeInv, TypeOK, LocalsType, MonitorType, ProcessType,
         WellFormed, HandlersFit, MainFits, LocalsFit, ConfigsFit, DownIsIdle, Actors,
         Busy, BusyPC, StopPC, ApplyPC, MainPC, AtRest, coreVars, actorVars, monVars,
         procVars, Live,
         Exclusive, Served, Cleared, Forked, NotYet, Sole, Halted, Serves, Covered
<1>1. ASSUME NEW h \in Handlers, NEW o \in {"apply", "stop"}, NEW c \in Configs, Receive(h, o, c)
       PROVE  Covered'
  BY <1>1 DEF Receive, AfterAccept
<1>2. ASSUME ReceiveOther PROVE Covered'
  BY <1>2 DEF ReceiveOther, Goto, AfterAccept
<1>3. ASSUME RequestShutdown PROVE Covered'
  BY <1>3 DEF RequestShutdown
<1>4. ASSUME NEW h \in Handlers, Reply(h) PROVE Covered'
  BY <1>4 DEF Reply, Goto
<1>5. ASSUME NEW a \in Actors, StopReadPid(a) PROVE Covered'
  BY <1>5 DEF StopReadPid, Goto
<1>6. ASSUME NEW a \in Actors, StopTerm(a) PROVE Covered'
  BY <1>6 DEF StopTerm, Goto, AfterStop, Answer
<1>7. ASSUME NEW a \in Actors, StopWait(a) PROVE Covered'
  BY <1>7 DEF StopWait, Goto, Dies, Corpse, Live
<1>8. ASSUME NEW a \in Actors, MonitorStopTest(a) PROVE Covered'
  BY <1>8 DEF MonitorStopTest, Goto, AfterStop
<1>9. ASSUME NEW a \in Actors, MonitorStopClear(a) PROVE Covered'
  BY <1>9 DEF MonitorStopClear, Goto
<1>10. ASSUME NEW a \in Actors, MonitorStopJoin(a) PROVE Covered'
  BY <1>10 DEF MonitorStopJoin, Goto
<1>11. ASSUME NEW a \in Actors, MonitorStopUnlist(a) PROVE Covered'
  BY <1>11 DEF MonitorStopUnlist, Goto, AfterStop
<1>12. ASSUME NEW h \in Handlers, StopSetStatus(h) PROVE Covered'
  BY <1>12 DEF StopSetStatus, Goto, Answer
<1>13. ASSUME NEW h \in Handlers, StartAccess(h) PROVE Covered'
  BY <1>13 DEF StartAccess, Goto, Answer
<1>14. ASSUME NEW h \in Handlers, StartLaunchFails(h) PROVE Covered'
  BY <1>14 DEF StartLaunchFails, Goto, Answer
<1>15. ASSUME NEW h \in Handlers, NEW p \in Pids, StartLaunch(h, p) PROVE Covered'
  BY <1>15 DEF StartLaunch, Goto, Live, FreshPid
<1>16. ASSUME NEW h \in Handlers, StartSettle(h) PROVE Covered'
  BY <1>16 DEF StartSettle, Goto, Answer, Live
<1>17. ASSUME NEW h \in Handlers, MonitorStartTest(h) PROVE Covered'
  BY <1>17 DEF MonitorStartTest, Goto
<1>18. ASSUME NEW h \in Handlers, NEW t \in Threads, MonitorStartCreate(h, t) PROVE Covered'
  BY <1>18 DEF MonitorStartCreate, Goto
<1>19. ASSUME NEW h \in Handlers, MonitorStartFails(h) PROVE Covered'
  BY <1>19 DEF MonitorStartFails, Goto
<1>20. ASSUME NEW h \in Handlers, MonitorStartList(h) PROVE Covered'
  BY <1>20 DEF MonitorStartList, Goto
<1>21. ASSUME NEW h \in Handlers, ApplySetStatus(h) PROVE Covered'
  BY <1>21 DEF ApplySetStatus, Goto, Answer
<1>22. ASSUME ShutdownSnapshot PROVE Covered'
  BY <1>22 DEF ShutdownSnapshot, Goto
<1>23. ASSUME ShutdownNext PROVE Covered'
  BY <1>23 DEF ShutdownNext, Goto
<1>24. ASSUME ShutdownDone PROVE Covered'
  BY <1>24 DEF ShutdownDone, Goto
<1>25. ASSUME NEW t \in Threads, MonitorConnect(t) PROVE Covered'
  BY <1>25 DEF MonitorConnect
<1>26. ASSUME NEW t \in Threads, MonitorCheck(t) PROVE Covered'
  BY <1>26 DEF MonitorCheck
<1>27. ASSUME NEW t \in Threads, MonitorMark(t) PROVE Covered'
  BY <1>27 DEF MonitorMark
<1>28. ASSUME NEW t \in Threads, PollReturns(t) PROVE Covered'
  BY <1>28 DEF PollReturns
<1>29. ASSUME NEW p \in Pids, OpenvpnReady(p) PROVE Covered'
  BY <1>29 DEF OpenvpnReady
<1>30. ASSUME NEW p \in Pids, OpenvpnCrash(p) PROVE Covered'
  BY <1>30 DEF OpenvpnCrash, Dies, Corpse, Live
<1>31. ASSUME NEW p \in Pids, OpenvpnExit(p) PROVE Covered'
  BY <1>31 DEF OpenvpnExit, Dies, Corpse, Live
<1>32. ASSUME NEW c \in Configs, WebDelete(c) PROVE Covered'
  BY <1>32 DEF WebDelete
<1>33. ASSUME NEW left \in SUBSET {p \in Pids : Live(p)}, CoreEnd(left) PROVE Covered'
  BY <1>33 DEF CoreEnd, All
<1>34. ASSUME CoreStart PROVE Covered'
  BY <1>34 DEF CoreStart
<1>35. CASE UNCHANGED vars
  BY <1>35 DEF vars
<1>36. ASSUME NEW a \in Actors, StopStep(a) PROVE Covered'
  BY ONLY <1>36, <1>5, <1>6, <1>7, <1>8, <1>9, <1>10, <1>11 DEF StopStep
<1>37. ASSUME NEW h \in Handlers, HandlerStep(h) PROVE Covered'
  BY ONLY <1>37, <1>36, <1>4, <1>12, <1>13, <1>14, <1>15, <1>16, <1>17, <1>18, <1>19, <1>20, <1>21
  DEF HandlerStep, Actors
<1>38. CASE MainStep
  BY ONLY <1>38, <1>36, <1>22, <1>23, <1>24 DEF MainStep, Actors
<1>39. ASSUME NEW t \in Threads, MonitorStep(t) PROVE Covered'
  BY ONLY <1>39, <1>25, <1>26, <1>27, <1>28 DEF MonitorStep, MonitorPollCut
<1>40. CASE Environment
  BY ONLY <1>40, <1>1, <1>2, <1>3, <1>28, <1>29, <1>30, <1>31, <1>32, <1>33, <1>34
  DEF Environment, MonitorPolled
<1>. QED  BY ONLY [Next]_vars, <1>35, <1>37, <1>38, <1>39, <1>40 DEF Next

\* The main thread alone is at work, and it has sent its signal.
LEMMA HaltedStep ==
    ASSUME Serialised, TypeInv, Exclusive, Served, Cleared, Swept, Halted, [Next]_vars
    PROVE  Halted'
<1>. USE ActorAssumption, NoneAssumption, Serialised
     DEF TypeInv, TypeOK, LocalsType, MonitorType, ProcessType,
         WellFormed, HandlersFit, MainFits, LocalsFit, ConfigsFit, DownIsIdle, Actors,
         Busy, BusyPC, StopPC, ApplyPC, MainPC, AtRest, coreVars, actorVars, monVars,
         procVars, Live,
         DaemonType, Exclusive, Served, Cleared, Serves, ShuttingPC, Swept, Halted
<1>1. ASSUME NEW h \in Handlers, NEW o \in {"apply", "stop"}, NEW c \in Configs, Receive(h, o, c)
       PROVE  Halted'
  BY <1>1 DEF Receive, AfterAccept
<1>2. ASSUME ReceiveOther PROVE Halted'
  BY <1>2 DEF ReceiveOther, Goto, AfterAccept
<1>3. ASSUME RequestShutdown PROVE Halted'
  BY <1>3 DEF RequestShutdown
<1>4. ASSUME NEW h \in Handlers, Reply(h) PROVE Halted'
  BY <1>4 DEF Reply, Goto
<1>5. ASSUME NEW a \in Actors, StopReadPid(a) PROVE Halted'
  BY <1>5 DEF StopReadPid, Goto
<1>6. ASSUME NEW a \in Actors, StopTerm(a) PROVE Halted'
  BY <1>6 DEF StopTerm, Goto, AfterStop, Answer
<1>7. ASSUME NEW a \in Actors, StopWait(a) PROVE Halted'
  BY <1>7 DEF StopWait, Goto, Dies, Corpse, Live
<1>8. ASSUME NEW a \in Actors, MonitorStopTest(a) PROVE Halted'
  BY <1>8 DEF MonitorStopTest, Goto, AfterStop
<1>9. ASSUME NEW a \in Actors, MonitorStopClear(a) PROVE Halted'
  BY <1>9 DEF MonitorStopClear, Goto
<1>10. ASSUME NEW a \in Actors, MonitorStopJoin(a) PROVE Halted'
  BY <1>10 DEF MonitorStopJoin, Goto
<1>11. ASSUME NEW a \in Actors, MonitorStopUnlist(a) PROVE Halted'
  BY <1>11 DEF MonitorStopUnlist, Goto, AfterStop
<1>12. ASSUME NEW h \in Handlers, StopSetStatus(h) PROVE Halted'
  BY <1>12 DEF StopSetStatus, Goto, Answer
<1>13. ASSUME NEW h \in Handlers, StartAccess(h) PROVE Halted'
  BY <1>13 DEF StartAccess, Goto, Answer
<1>14. ASSUME NEW h \in Handlers, StartLaunchFails(h) PROVE Halted'
  BY <1>14 DEF StartLaunchFails, Goto, Answer
<1>15. ASSUME NEW h \in Handlers, NEW p \in Pids, StartLaunch(h, p) PROVE Halted'
  BY <1>15 DEF StartLaunch, Goto, Live, FreshPid
<1>16. ASSUME NEW h \in Handlers, StartSettle(h) PROVE Halted'
  BY <1>16 DEF StartSettle, Goto, Answer, Live
<1>17. ASSUME NEW h \in Handlers, MonitorStartTest(h) PROVE Halted'
  BY <1>17 DEF MonitorStartTest, Goto
<1>18. ASSUME NEW h \in Handlers, NEW t \in Threads, MonitorStartCreate(h, t) PROVE Halted'
  BY <1>18 DEF MonitorStartCreate, Goto
<1>19. ASSUME NEW h \in Handlers, MonitorStartFails(h) PROVE Halted'
  BY <1>19 DEF MonitorStartFails, Goto
<1>20. ASSUME NEW h \in Handlers, MonitorStartList(h) PROVE Halted'
  BY <1>20 DEF MonitorStartList, Goto
<1>21. ASSUME NEW h \in Handlers, ApplySetStatus(h) PROVE Halted'
  BY <1>21 DEF ApplySetStatus, Goto, Answer
<1>22. ASSUME ShutdownSnapshot PROVE Halted'
  BY <1>22 DEF ShutdownSnapshot, Goto
<1>23. ASSUME ShutdownNext PROVE Halted'
  <2>1. CASE at > Len(snap) /\ at <= 2 * Len(snap)
    <3>1. /\ at - Len(snap) \in 1 .. Len(snap) /\ at - Len(snap) < at
          /\ pc[Main] = "next" /\ arg' = [arg EXCEPT ![Main] = snap[at - Len(snap)]]
      BY <1>23, <2>1 DEF ShutdownNext
    <3>2. \A q \in Pids : ~Serves(q, snap[at - Len(snap)])
      BY <3>1
    <3>3. arg'[Main] = snap[at - Len(snap)] /\ UNCHANGED <<proc, pcfg>>
      BY <1>23, <3>1 DEF ShutdownNext
    <3>. QED  BY <3>2, <3>3
  <2>2. CASE ~(at > Len(snap) /\ at <= 2 * Len(snap))
    BY <1>23, <2>2 DEF ShutdownNext, Goto
  <2>. QED  BY <2>1, <2>2
<1>24. ASSUME ShutdownDone PROVE Halted'
  BY <1>24 DEF ShutdownDone, Goto
<1>25. ASSUME NEW t \in Threads, MonitorConnect(t) PROVE Halted'
  BY <1>25 DEF MonitorConnect
<1>26. ASSUME NEW t \in Threads, MonitorCheck(t) PROVE Halted'
  BY <1>26 DEF MonitorCheck
<1>27. ASSUME NEW t \in Threads, MonitorMark(t) PROVE Halted'
  BY <1>27 DEF MonitorMark
<1>28. ASSUME NEW t \in Threads, PollReturns(t) PROVE Halted'
  BY <1>28 DEF PollReturns
<1>29. ASSUME NEW p \in Pids, OpenvpnReady(p) PROVE Halted'
  BY <1>29 DEF OpenvpnReady
<1>30. ASSUME NEW p \in Pids, OpenvpnCrash(p) PROVE Halted'
  BY <1>30 DEF OpenvpnCrash, Dies, Corpse, Live
<1>31. ASSUME NEW p \in Pids, OpenvpnExit(p) PROVE Halted'
  BY <1>31 DEF OpenvpnExit, Dies, Corpse, Live
<1>32. ASSUME NEW c \in Configs, WebDelete(c) PROVE Halted'
  BY <1>32 DEF WebDelete
<1>33. ASSUME NEW left \in SUBSET {p \in Pids : Live(p)}, CoreEnd(left) PROVE Halted'
  BY <1>33 DEF CoreEnd, All
<1>34. ASSUME CoreStart PROVE Halted'
  BY <1>34 DEF CoreStart
<1>35. CASE UNCHANGED vars
  BY <1>35 DEF vars
<1>36. ASSUME NEW a \in Actors, StopStep(a) PROVE Halted'
  BY ONLY <1>36, <1>5, <1>6, <1>7, <1>8, <1>9, <1>10, <1>11 DEF StopStep
<1>37. ASSUME NEW h \in Handlers, HandlerStep(h) PROVE Halted'
  BY ONLY <1>37, <1>36, <1>4, <1>12, <1>13, <1>14, <1>15, <1>16, <1>17, <1>18, <1>19, <1>20, <1>21
  DEF HandlerStep, Actors
<1>38. CASE MainStep
  BY ONLY <1>38, <1>36, <1>22, <1>23, <1>24 DEF MainStep, Actors
<1>39. ASSUME NEW t \in Threads, MonitorStep(t) PROVE Halted'
  BY ONLY <1>39, <1>25, <1>26, <1>27, <1>28 DEF MonitorStep, MonitorPollCut
<1>40. CASE Environment
  BY ONLY <1>40, <1>1, <1>2, <1>3, <1>28, <1>29, <1>30, <1>31, <1>32, <1>33, <1>34
  DEF Environment, MonitorPolled
<1>. QED  BY ONLY [Next]_vars, <1>35, <1>37, <1>38, <1>39, <1>40 DEF Next

\* The loop goes on only when the server it is at is dead.
LEMMA SweptStep ==
    ASSUME Serialised, TypeInv, Exclusive, Served, Cleared, Halted, Swept, [Next]_vars
    PROVE  Swept'
<1>. USE ActorAssumption, NoneAssumption, Serialised
     DEF TypeInv, TypeOK, LocalsType, MonitorType, ProcessType,
         WellFormed, HandlersFit, MainFits, LocalsFit, ConfigsFit, DownIsIdle, Actors,
         Busy, BusyPC, StopPC, ApplyPC, MainPC, AtRest, coreVars, actorVars, monVars,
         procVars, Live,
         DaemonType, Exclusive, Served, Cleared, Serves, ShuttingPC, Halted, Swept
<1>1. ASSUME NEW h \in Handlers, NEW o \in {"apply", "stop"}, NEW c \in Configs, Receive(h, o, c)
       PROVE  Swept'
  BY <1>1 DEF Receive, AfterAccept
<1>2. ASSUME ReceiveOther PROVE Swept'
  BY <1>2 DEF ReceiveOther, Goto, AfterAccept
<1>3. ASSUME RequestShutdown PROVE Swept'
  BY <1>3 DEF RequestShutdown
<1>4. ASSUME NEW h \in Handlers, Reply(h) PROVE Swept'
  BY <1>4 DEF Reply, Goto
<1>5. ASSUME NEW a \in Actors, StopReadPid(a) PROVE Swept'
  BY <1>5 DEF StopReadPid, Goto
<1>6. ASSUME NEW a \in Actors, StopTerm(a) PROVE Swept'
  BY <1>6 DEF StopTerm, Goto, AfterStop, Answer
<1>7. ASSUME NEW a \in Actors, StopWait(a) PROVE Swept'
  BY <1>7 DEF StopWait, Goto, Dies, Corpse, Live
<1>8. ASSUME NEW a \in Actors, MonitorStopTest(a) PROVE Swept'
  BY <1>8 DEF MonitorStopTest, Goto, AfterStop
<1>9. ASSUME NEW a \in Actors, MonitorStopClear(a) PROVE Swept'
  BY <1>9 DEF MonitorStopClear, Goto
<1>10. ASSUME NEW a \in Actors, MonitorStopJoin(a) PROVE Swept'
  BY <1>10 DEF MonitorStopJoin, Goto
<1>11. ASSUME NEW a \in Actors, MonitorStopUnlist(a) PROVE Swept'
  BY <1>11 DEF MonitorStopUnlist, Goto, AfterStop
<1>12. ASSUME NEW h \in Handlers, StopSetStatus(h) PROVE Swept'
  BY <1>12 DEF StopSetStatus, Goto, Answer
<1>13. ASSUME NEW h \in Handlers, StartAccess(h) PROVE Swept'
  BY <1>13 DEF StartAccess, Goto, Answer
<1>14. ASSUME NEW h \in Handlers, StartLaunchFails(h) PROVE Swept'
  BY <1>14 DEF StartLaunchFails, Goto, Answer
<1>15. ASSUME NEW h \in Handlers, NEW p \in Pids, StartLaunch(h, p) PROVE Swept'
  BY <1>15 DEF StartLaunch, Goto, Live, FreshPid
<1>16. ASSUME NEW h \in Handlers, StartSettle(h) PROVE Swept'
  BY <1>16 DEF StartSettle, Goto, Answer, Live
<1>17. ASSUME NEW h \in Handlers, MonitorStartTest(h) PROVE Swept'
  BY <1>17 DEF MonitorStartTest, Goto
<1>18. ASSUME NEW h \in Handlers, NEW t \in Threads, MonitorStartCreate(h, t) PROVE Swept'
  BY <1>18 DEF MonitorStartCreate, Goto
<1>19. ASSUME NEW h \in Handlers, MonitorStartFails(h) PROVE Swept'
  BY <1>19 DEF MonitorStartFails, Goto
<1>20. ASSUME NEW h \in Handlers, MonitorStartList(h) PROVE Swept'
  BY <1>20 DEF MonitorStartList, Goto
<1>21. ASSUME NEW h \in Handlers, ApplySetStatus(h) PROVE Swept'
  BY <1>21 DEF ApplySetStatus, Goto, Answer
<1>22. ASSUME ShutdownSnapshot PROVE Swept'
  BY <1>22 DEF ShutdownSnapshot, Goto
<1>23. ASSUME ShutdownNext PROVE Swept'
  BY <1>23 DEF ShutdownNext, Goto
<1>24. ASSUME ShutdownDone PROVE Swept'
  BY <1>24 DEF ShutdownDone, Goto
<1>25. ASSUME NEW t \in Threads, MonitorConnect(t) PROVE Swept'
  BY <1>25 DEF MonitorConnect
<1>26. ASSUME NEW t \in Threads, MonitorCheck(t) PROVE Swept'
  BY <1>26 DEF MonitorCheck
<1>27. ASSUME NEW t \in Threads, MonitorMark(t) PROVE Swept'
  BY <1>27 DEF MonitorMark
<1>28. ASSUME NEW t \in Threads, PollReturns(t) PROVE Swept'
  BY <1>28 DEF PollReturns
<1>29. ASSUME NEW p \in Pids, OpenvpnReady(p) PROVE Swept'
  BY <1>29 DEF OpenvpnReady
<1>30. ASSUME NEW p \in Pids, OpenvpnCrash(p) PROVE Swept'
  BY <1>30 DEF OpenvpnCrash, Dies, Corpse, Live
<1>31. ASSUME NEW p \in Pids, OpenvpnExit(p) PROVE Swept'
  BY <1>31 DEF OpenvpnExit, Dies, Corpse, Live
<1>32. ASSUME NEW c \in Configs, WebDelete(c) PROVE Swept'
  BY <1>32 DEF WebDelete
<1>33. ASSUME NEW left \in SUBSET {p \in Pids : Live(p)}, CoreEnd(left) PROVE Swept'
  BY <1>33 DEF CoreEnd, All
<1>34. ASSUME CoreStart PROVE Swept'
  BY <1>34 DEF CoreStart
<1>35. CASE UNCHANGED vars
  BY <1>35 DEF vars
<1>36. ASSUME NEW a \in Actors, StopStep(a) PROVE Swept'
  BY ONLY <1>36, <1>5, <1>6, <1>7, <1>8, <1>9, <1>10, <1>11 DEF StopStep
<1>37. ASSUME NEW h \in Handlers, HandlerStep(h) PROVE Swept'
  BY ONLY <1>37, <1>36, <1>4, <1>12, <1>13, <1>14, <1>15, <1>16, <1>17, <1>18, <1>19, <1>20, <1>21
  DEF HandlerStep, Actors
<1>38. CASE MainStep
  BY ONLY <1>38, <1>36, <1>22, <1>23, <1>24 DEF MainStep, Actors
<1>39. ASSUME NEW t \in Threads, MonitorStep(t) PROVE Swept'
  BY ONLY <1>39, <1>25, <1>26, <1>27, <1>28 DEF MonitorStep, MonitorPollCut
<1>40. CASE Environment
  BY ONLY <1>40, <1>1, <1>2, <1>3, <1>28, <1>29, <1>30, <1>31, <1>32, <1>33, <1>34
  DEF Environment, MonitorPolled
<1>. QED  BY ONLY [Next]_vars, <1>35, <1>37, <1>38, <1>39, <1>40 DEF Next

\* What the snapshot misses has no server, and nobody launches one any more.
LEMMA SnappedStep ==
    ASSUME Serialised, TypeInv, Exclusive, Listing, Covered, Snapped, [Next]_vars
    PROVE  Snapped'
<1>. USE ActorAssumption, NoneAssumption, Serialised
     DEF TypeInv, TypeOK, LocalsType, MonitorType, ProcessType,
         WellFormed, HandlersFit, MainFits, LocalsFit, ConfigsFit, DownIsIdle, Actors,
         Busy, BusyPC, StopPC, ApplyPC, MainPC, AtRest, coreVars, actorVars, monVars,
         procVars, Live,
         Exclusive, ShuttingPC, Snapped
<1>1. ASSUME NEW h \in Handlers, NEW o \in {"apply", "stop"}, NEW c \in Configs, Receive(h, o, c)
       PROVE  Snapped'
  BY <1>1 DEF Receive, AfterAccept
<1>2. ASSUME ReceiveOther PROVE Snapped'
  BY <1>2 DEF ReceiveOther, Goto, AfterAccept
<1>3. ASSUME RequestShutdown PROVE Snapped'
  BY <1>3 DEF RequestShutdown
<1>4. ASSUME NEW h \in Handlers, Reply(h) PROVE Snapped'
  BY <1>4 DEF Reply, Goto
<1>5. ASSUME NEW a \in Actors, StopReadPid(a) PROVE Snapped'
  BY <1>5 DEF StopReadPid, Goto
<1>6. ASSUME NEW a \in Actors, StopTerm(a) PROVE Snapped'
  BY <1>6 DEF StopTerm, Goto, AfterStop, Answer
<1>7. ASSUME NEW a \in Actors, StopWait(a) PROVE Snapped'
  BY <1>7 DEF StopWait, Goto, Dies, Corpse, Live
<1>8. ASSUME NEW a \in Actors, MonitorStopTest(a) PROVE Snapped'
  BY <1>8 DEF MonitorStopTest, Goto, AfterStop
<1>9. ASSUME NEW a \in Actors, MonitorStopClear(a) PROVE Snapped'
  BY <1>9 DEF MonitorStopClear, Goto
<1>10. ASSUME NEW a \in Actors, MonitorStopJoin(a) PROVE Snapped'
  BY <1>10 DEF MonitorStopJoin, Goto
<1>11. ASSUME NEW a \in Actors, MonitorStopUnlist(a) PROVE Snapped'
  BY <1>11 DEF MonitorStopUnlist, Goto, AfterStop
<1>12. ASSUME NEW h \in Handlers, StopSetStatus(h) PROVE Snapped'
  BY <1>12 DEF StopSetStatus, Goto, Answer
<1>13. ASSUME NEW h \in Handlers, StartAccess(h) PROVE Snapped'
  BY <1>13 DEF StartAccess, Goto, Answer
<1>14. ASSUME NEW h \in Handlers, StartLaunchFails(h) PROVE Snapped'
  BY <1>14 DEF StartLaunchFails, Goto, Answer
<1>15. ASSUME NEW h \in Handlers, NEW p \in Pids, StartLaunch(h, p) PROVE Snapped'
  BY <1>15 DEF StartLaunch, Goto, Live, FreshPid
<1>16. ASSUME NEW h \in Handlers, StartSettle(h) PROVE Snapped'
  BY <1>16 DEF StartSettle, Goto, Answer, Live
<1>17. ASSUME NEW h \in Handlers, MonitorStartTest(h) PROVE Snapped'
  BY <1>17 DEF MonitorStartTest, Goto
<1>18. ASSUME NEW h \in Handlers, NEW t \in Threads, MonitorStartCreate(h, t) PROVE Snapped'
  BY <1>18 DEF MonitorStartCreate, Goto
<1>19. ASSUME NEW h \in Handlers, MonitorStartFails(h) PROVE Snapped'
  BY <1>19 DEF MonitorStartFails, Goto
<1>20. ASSUME NEW h \in Handlers, MonitorStartList(h) PROVE Snapped'
  BY <1>20 DEF MonitorStartList, Goto
<1>21. ASSUME NEW h \in Handlers, ApplySetStatus(h) PROVE Snapped'
  BY <1>21 DEF ApplySetStatus, Goto, Answer
<1>22. ASSUME ShutdownSnapshot PROVE Snapped'
  <2>. SUFFICES ASSUME NEW p \in Pids, Live(p), child[p] PROVE In(listed, pcfg[p])
    BY <1>22 DEF ShutdownSnapshot
  <2>1. \A h \in Handlers : pc[h] = "idle"
    BY <1>22 DEF ShutdownSnapshot
  <2>2. running[pcfg[p]] /\ pcfg[p] \in Configs
    BY <2>1 DEF Covered
  <2>3. ShouldBeListed(pcfg[p])
    BY <2>1, <2>2 DEF ShouldBeListed
  <2>. QED  BY <2>2, <2>3 DEF Listing, Exact
<1>23. ASSUME ShutdownNext PROVE Snapped'
  BY <1>23 DEF ShutdownNext, Goto
<1>24. ASSUME ShutdownDone PROVE Snapped'
  BY <1>24 DEF ShutdownDone, Goto
<1>25. ASSUME NEW t \in Threads, MonitorConnect(t) PROVE Snapped'
  BY <1>25 DEF MonitorConnect
<1>26. ASSUME NEW t \in Threads, MonitorCheck(t) PROVE Snapped'
  BY <1>26 DEF MonitorCheck
<1>27. ASSUME NEW t \in Threads, MonitorMark(t) PROVE Snapped'
  BY <1>27 DEF MonitorMark
<1>28. ASSUME NEW t \in Threads, PollReturns(t) PROVE Snapped'
  BY <1>28 DEF PollReturns
<1>29. ASSUME NEW p \in Pids, OpenvpnReady(p) PROVE Snapped'
  BY <1>29 DEF OpenvpnReady
<1>30. ASSUME NEW p \in Pids, OpenvpnCrash(p) PROVE Snapped'
  BY <1>30 DEF OpenvpnCrash, Dies, Corpse, Live
<1>31. ASSUME NEW p \in Pids, OpenvpnExit(p) PROVE Snapped'
  BY <1>31 DEF OpenvpnExit, Dies, Corpse, Live
<1>32. ASSUME NEW c \in Configs, WebDelete(c) PROVE Snapped'
  BY <1>32 DEF WebDelete
<1>33. ASSUME NEW left \in SUBSET {p \in Pids : Live(p)}, CoreEnd(left) PROVE Snapped'
  BY <1>33 DEF CoreEnd, All
<1>34. ASSUME CoreStart PROVE Snapped'
  BY <1>34 DEF CoreStart
<1>35. CASE UNCHANGED vars
  BY <1>35 DEF vars
<1>36. ASSUME NEW a \in Actors, StopStep(a) PROVE Snapped'
  BY ONLY <1>36, <1>5, <1>6, <1>7, <1>8, <1>9, <1>10, <1>11 DEF StopStep
<1>37. ASSUME NEW h \in Handlers, HandlerStep(h) PROVE Snapped'
  BY ONLY <1>37, <1>36, <1>4, <1>12, <1>13, <1>14, <1>15, <1>16, <1>17, <1>18, <1>19, <1>20, <1>21
  DEF HandlerStep, Actors
<1>38. CASE MainStep
  BY ONLY <1>38, <1>36, <1>22, <1>23, <1>24 DEF MainStep, Actors
<1>39. ASSUME NEW t \in Threads, MonitorStep(t) PROVE Snapped'
  BY ONLY <1>39, <1>25, <1>26, <1>27, <1>28 DEF MonitorStep, MonitorPollCut
<1>40. CASE Environment
  BY ONLY <1>40, <1>1, <1>2, <1>3, <1>28, <1>29, <1>30, <1>31, <1>32, <1>33, <1>34
  DEF Environment, MonitorPolled
<1>. QED  BY ONLY [Next]_vars, <1>35, <1>37, <1>38, <1>39, <1>40 DEF Next

\* The main thread returns from monitor_stop_all only after its second loop.
LEMMA ThroughStep ==
    ASSUME Serialised, TypeInv, (pc[Main] = "done" => at > Len(snap)), [Next]_vars
    PROVE  (pc[Main] = "done" => at > Len(snap))'
<1>. USE ActorAssumption, NoneAssumption, Serialised
     DEF TypeInv, TypeOK, LocalsType, MonitorType, ProcessType,
         WellFormed, HandlersFit, MainFits, LocalsFit, ConfigsFit, DownIsIdle, Actors,
         Busy, BusyPC, StopPC, ApplyPC, MainPC, AtRest, coreVars, actorVars, monVars,
         procVars, Live,
         DaemonType
<1>1. ASSUME NEW h \in Handlers, NEW o \in {"apply", "stop"}, NEW c \in Configs, Receive(h, o, c)
       PROVE  (pc[Main] = "done" => at > Len(snap))'
  BY <1>1 DEF Receive, AfterAccept
<1>2. ASSUME ReceiveOther PROVE (pc[Main] = "done" => at > Len(snap))'
  BY <1>2 DEF ReceiveOther, Goto, AfterAccept
<1>3. ASSUME RequestShutdown PROVE (pc[Main] = "done" => at > Len(snap))'
  BY <1>3 DEF RequestShutdown
<1>4. ASSUME NEW h \in Handlers, Reply(h) PROVE (pc[Main] = "done" => at > Len(snap))'
  BY <1>4 DEF Reply, Goto
<1>5. ASSUME NEW a \in Actors, StopReadPid(a) PROVE (pc[Main] = "done" => at > Len(snap))'
  BY <1>5 DEF StopReadPid, Goto
<1>6. ASSUME NEW a \in Actors, StopTerm(a) PROVE (pc[Main] = "done" => at > Len(snap))'
  BY <1>6 DEF StopTerm, Goto, AfterStop, Answer
<1>7. ASSUME NEW a \in Actors, StopWait(a) PROVE (pc[Main] = "done" => at > Len(snap))'
  BY <1>7 DEF StopWait, Goto, Dies, Corpse, Live
<1>8. ASSUME NEW a \in Actors, MonitorStopTest(a) PROVE (pc[Main] = "done" => at > Len(snap))'
  BY <1>8 DEF MonitorStopTest, Goto, AfterStop
<1>9. ASSUME NEW a \in Actors, MonitorStopClear(a) PROVE (pc[Main] = "done" => at > Len(snap))'
  BY <1>9 DEF MonitorStopClear, Goto
<1>10. ASSUME NEW a \in Actors, MonitorStopJoin(a) PROVE (pc[Main] = "done" => at > Len(snap))'
  BY <1>10 DEF MonitorStopJoin, Goto
<1>11. ASSUME NEW a \in Actors, MonitorStopUnlist(a)
       PROVE  (pc[Main] = "done" => at > Len(snap))'
  BY <1>11 DEF MonitorStopUnlist, Goto, AfterStop
<1>12. ASSUME NEW h \in Handlers, StopSetStatus(h) PROVE (pc[Main] = "done" => at > Len(snap))'
  BY <1>12 DEF StopSetStatus, Goto, Answer
<1>13. ASSUME NEW h \in Handlers, StartAccess(h) PROVE (pc[Main] = "done" => at > Len(snap))'
  BY <1>13 DEF StartAccess, Goto, Answer
<1>14. ASSUME NEW h \in Handlers, StartLaunchFails(h)
       PROVE  (pc[Main] = "done" => at > Len(snap))'
  BY <1>14 DEF StartLaunchFails, Goto, Answer
<1>15. ASSUME NEW h \in Handlers, NEW p \in Pids, StartLaunch(h, p)
       PROVE  (pc[Main] = "done" => at > Len(snap))'
  BY <1>15 DEF StartLaunch, Goto, Live, FreshPid
<1>16. ASSUME NEW h \in Handlers, StartSettle(h) PROVE (pc[Main] = "done" => at > Len(snap))'
  BY <1>16 DEF StartSettle, Goto, Answer, Live
<1>17. ASSUME NEW h \in Handlers, MonitorStartTest(h)
       PROVE  (pc[Main] = "done" => at > Len(snap))'
  BY <1>17 DEF MonitorStartTest, Goto
<1>18. ASSUME NEW h \in Handlers, NEW t \in Threads, MonitorStartCreate(h, t)
       PROVE  (pc[Main] = "done" => at > Len(snap))'
  BY <1>18 DEF MonitorStartCreate, Goto
<1>19. ASSUME NEW h \in Handlers, MonitorStartFails(h)
       PROVE  (pc[Main] = "done" => at > Len(snap))'
  BY <1>19 DEF MonitorStartFails, Goto
<1>20. ASSUME NEW h \in Handlers, MonitorStartList(h)
       PROVE  (pc[Main] = "done" => at > Len(snap))'
  BY <1>20 DEF MonitorStartList, Goto
<1>21. ASSUME NEW h \in Handlers, ApplySetStatus(h)
       PROVE  (pc[Main] = "done" => at > Len(snap))'
  BY <1>21 DEF ApplySetStatus, Goto, Answer
<1>22. ASSUME ShutdownSnapshot PROVE (pc[Main] = "done" => at > Len(snap))'
  BY <1>22 DEF ShutdownSnapshot, Goto
<1>23. ASSUME ShutdownNext PROVE (pc[Main] = "done" => at > Len(snap))'
  BY <1>23 DEF ShutdownNext, Goto
<1>24. ASSUME ShutdownDone PROVE (pc[Main] = "done" => at > Len(snap))'
  BY <1>24 DEF ShutdownDone, Goto
<1>25. ASSUME NEW t \in Threads, MonitorConnect(t) PROVE (pc[Main] = "done" => at > Len(snap))'
  BY <1>25 DEF MonitorConnect
<1>26. ASSUME NEW t \in Threads, MonitorCheck(t) PROVE (pc[Main] = "done" => at > Len(snap))'
  BY <1>26 DEF MonitorCheck
<1>27. ASSUME NEW t \in Threads, MonitorMark(t) PROVE (pc[Main] = "done" => at > Len(snap))'
  BY <1>27 DEF MonitorMark
<1>28. ASSUME NEW t \in Threads, PollReturns(t) PROVE (pc[Main] = "done" => at > Len(snap))'
  BY <1>28 DEF PollReturns
<1>29. ASSUME NEW p \in Pids, OpenvpnReady(p) PROVE (pc[Main] = "done" => at > Len(snap))'
  BY <1>29 DEF OpenvpnReady
<1>30. ASSUME NEW p \in Pids, OpenvpnCrash(p) PROVE (pc[Main] = "done" => at > Len(snap))'
  BY <1>30 DEF OpenvpnCrash, Dies, Corpse, Live
<1>31. ASSUME NEW p \in Pids, OpenvpnExit(p) PROVE (pc[Main] = "done" => at > Len(snap))'
  BY <1>31 DEF OpenvpnExit, Dies, Corpse, Live
<1>32. ASSUME NEW c \in Configs, WebDelete(c) PROVE (pc[Main] = "done" => at > Len(snap))'
  BY <1>32 DEF WebDelete
<1>33. ASSUME NEW left \in SUBSET {p \in Pids : Live(p)}, CoreEnd(left)
       PROVE  (pc[Main] = "done" => at > Len(snap))'
  BY <1>33 DEF CoreEnd, All
<1>34. ASSUME CoreStart PROVE (pc[Main] = "done" => at > Len(snap))'
  BY <1>34 DEF CoreStart
<1>35. CASE UNCHANGED vars
  BY <1>35 DEF vars
<1>36. ASSUME NEW a \in Actors, StopStep(a) PROVE (pc[Main] = "done" => at > Len(snap))'
  BY ONLY <1>36, <1>5, <1>6, <1>7, <1>8, <1>9, <1>10, <1>11 DEF StopStep
<1>37. ASSUME NEW h \in Handlers, HandlerStep(h) PROVE (pc[Main] = "done" => at > Len(snap))'
  BY ONLY <1>37, <1>36, <1>4, <1>12, <1>13, <1>14, <1>15, <1>16, <1>17, <1>18, <1>19, <1>20, <1>21
  DEF HandlerStep, Actors
<1>38. CASE MainStep
  BY ONLY <1>38, <1>36, <1>22, <1>23, <1>24 DEF MainStep, Actors
<1>39. ASSUME NEW t \in Threads, MonitorStep(t) PROVE (pc[Main] = "done" => at > Len(snap))'
  BY ONLY <1>39, <1>25, <1>26, <1>27, <1>28 DEF MonitorStep, MonitorPollCut
<1>40. CASE Environment
  BY ONLY <1>40, <1>1, <1>2, <1>3, <1>28, <1>29, <1>30, <1>31, <1>32, <1>33, <1>34
  DEF Environment, MonitorPolled
<1>. QED  BY ONLY [Next]_vars, <1>35, <1>37, <1>38, <1>39, <1>40 DEF Next

\* Once monitor_stop_all is through, no server this daemon started is alive, if a
\* monitor can always be created, the shutdown waits for requests in progress and
\* running_configs is as long as there are configurations.
THEOREM ShutdownIsClean ==
    ASSUME Serialised, ~ThreadFail, IsFiniteSet(Configs), Cardinality(Configs) <= MaxRunning
    PROVE  Spec => []ShutdownStopsServers
<1>. DEFINE Through == pc[Main] = "done" => at > Len(snap)
<1>1. Init => Sweeping /\ Through
  BY ActorAssumption
  DEF Init, Sweeping, Covered, Halted, Swept, Snapped, ShuttingPC, StopPC, Live, All,
      AtRest, Actors
<1>2. Inv /\ Listing /\ Sweeping /\ [Next]_vars => Sweeping'
  BY CoveredStep, HaltedStep, SweptStep, SnappedStep
  DEF Inv, Serving, Marking, Sweeping
<1>3. Inv /\ Through /\ [Next]_vars => Through'
  BY ThroughStep DEF Inv, Serving, Through
<1>4. Inv /\ Sweeping /\ Through => ShutdownStopsServers
  <2>. SUFFICES ASSUME TypeInv, Swept, Snapped, at > Len(snap), pc[Main] = "done",
                       NEW p \in Pids, Live(p), child[p]
                PROVE  FALSE
    BY DEF Inv, Serving, Sweeping, ShutdownStopsServers
  <2>1. PICK j \in 1 .. Len(snap) : snap[j] = pcfg[p]
    BY DEF Snapped, ShuttingPC, In
  <2>2. j < at
    BY DEF TypeInv, TypeOK, DaemonType
  <2>3. ~Serves(p, snap[j])
    BY <2>2 DEF Swept, ShuttingPC
  <2>. QED  BY <2>1, <2>3 DEF Serves
<1>. QED  BY ListingAlways, <1>1, <1>2, <1>3, <1>4, PTL DEF Spec

-----------------------------------------------------------------------------
(* Monitors that end, and monitors that do not.                             *)

\* pthread_join waits for the only thread that watches the configuration, and its
\* server is dead, in a handler and in the shutdown.
THEOREM JoinsReturn == ASSUME Serialised PROVE Spec => []JoinReturns
<1>. DEFINE J == Flags /\ Halted /\ Swept
<1>1. Init => J
  <2>. SUFFICES ASSUME Init PROVE J
    OBVIOUS
  <2>1. pc[Main] = "accept" /\ \A h \in Handlers : pc[h] = "idle"
    BY ActorAssumption DEF Init, AtRest, Actors
  <2>. QED  BY <2>1 DEF Flags, Halted, Swept, ShuttingPC, StopPC, Actors
<1>2. Inv /\ J /\ [Next]_vars => J'
  BY Serialised, FlagsStep, HaltedStep, SweptStep DEF Inv, Serving, Marking
<1>3. Inv /\ J => JoinReturns
  <2>. SUFFICES ASSUME TypeInv, Exclusive, Watched, Cleared, J, NEW a \in Actors, pc[a] = "join"
                PROVE  /\ ~\E p \in Pids : Serves(p, arg[a])
                       /\ \A t \in Threads : Watches(t, arg[a]) => t = thr[a]
    BY DEF Inv, Serving, JoinReturns
  <2>1. ~\E p \in Pids : Serves(p, arg[a])
    BY DEF Cleared, Halted, Actors
  <2>2. ASSUME NEW t \in Threads, Watches(t, arg[a]) PROVE t = thr[a]
    <3>1. ~running[arg[a]]
      BY DEF Flags
    <3>2. PICK b \in Actors : pc[b] = "join" /\ arg[b] = arg[a] /\ thr[b] = t
      BY <2>2, <3>1 DEF Watched, Watches
    <3>3. b = a
      BY <3>2 DEF Exclusive, Busy, BusyPC, StopPC
    <3>. QED  BY <3>2, <3>3
  <2>. QED  BY <2>1, <2>2
<1>. QED  BY InvAlways, <1>1, <1>2, <1>3, PTL DEF Spec

\* Nothing but a stop, which has killed the server, makes a monitor leave.
LEMMA AttendedStep ==
    ASSUME ~DbFail, TypeInv, NotYet, Marked, Attended, [Next]_vars
    PROVE  Attended'
<1>. USE ActorAssumption, NoneAssumption, ~DbFail
     DEF TypeInv, TypeOK, LocalsType, MonitorType, ProcessType,
         WellFormed, HandlersFit, MainFits, LocalsFit, ConfigsFit, DownIsIdle, Actors,
         Busy, BusyPC, StopPC, ApplyPC, MainPC, AtRest, coreVars, actorVars, monVars,
         procVars, Live, WatchingPC, Watches,
         NotYet, Marked, Serves, Attended
<1>1. ASSUME NEW h \in Handlers, NEW o \in {"apply", "stop"}, NEW c \in Configs, Receive(h, o, c)
       PROVE  Attended'
  BY <1>1 DEF Receive, AfterAccept
<1>2. ASSUME ReceiveOther PROVE Attended'
  BY <1>2 DEF ReceiveOther, Goto, AfterAccept
<1>3. ASSUME RequestShutdown PROVE Attended'
  BY <1>3 DEF RequestShutdown
<1>4. ASSUME NEW h \in Handlers, Reply(h) PROVE Attended'
  BY <1>4 DEF Reply, Goto
<1>5. ASSUME NEW a \in Actors, StopReadPid(a) PROVE Attended'
  BY <1>5 DEF StopReadPid, Goto
<1>6. ASSUME NEW a \in Actors, StopTerm(a) PROVE Attended'
  BY <1>6 DEF StopTerm, Goto, AfterStop, Answer
<1>7. ASSUME NEW a \in Actors, StopWait(a) PROVE Attended'
  BY <1>7 DEF StopWait, Goto, Dies, Corpse, Live
<1>8. ASSUME NEW a \in Actors, MonitorStopTest(a) PROVE Attended'
  BY <1>8 DEF MonitorStopTest, Goto, AfterStop
<1>9. ASSUME NEW a \in Actors, MonitorStopClear(a) PROVE Attended'
  BY <1>9 DEF MonitorStopClear, Goto
<1>10. ASSUME NEW a \in Actors, MonitorStopJoin(a) PROVE Attended'
  BY <1>10 DEF MonitorStopJoin, Goto
<1>11. ASSUME NEW a \in Actors, MonitorStopUnlist(a) PROVE Attended'
  BY <1>11 DEF MonitorStopUnlist, Goto, AfterStop
<1>12. ASSUME NEW h \in Handlers, StopSetStatus(h) PROVE Attended'
  BY <1>12 DEF StopSetStatus, Goto, Answer
<1>13. ASSUME NEW h \in Handlers, StartAccess(h) PROVE Attended'
  BY <1>13 DEF StartAccess, Goto, Answer
<1>14. ASSUME NEW h \in Handlers, StartLaunchFails(h) PROVE Attended'
  BY <1>14 DEF StartLaunchFails, Goto, Answer
<1>15. ASSUME NEW h \in Handlers, NEW p \in Pids, StartLaunch(h, p) PROVE Attended'
  BY <1>15 DEF StartLaunch, Goto, Live, FreshPid
<1>16. ASSUME NEW h \in Handlers, StartSettle(h) PROVE Attended'
  BY <1>16 DEF StartSettle, Goto, Answer, Live
<1>17. ASSUME NEW h \in Handlers, MonitorStartTest(h) PROVE Attended'
  BY <1>17 DEF MonitorStartTest, Goto
<1>18. ASSUME NEW h \in Handlers, NEW t \in Threads, MonitorStartCreate(h, t) PROVE Attended'
  BY <1>18 DEF MonitorStartCreate, Goto
<1>19. ASSUME NEW h \in Handlers, MonitorStartFails(h) PROVE Attended'
  BY <1>19 DEF MonitorStartFails, Goto
<1>20. ASSUME NEW h \in Handlers, MonitorStartList(h) PROVE Attended'
  BY <1>20 DEF MonitorStartList, Goto
<1>21. ASSUME NEW h \in Handlers, ApplySetStatus(h) PROVE Attended'
  BY <1>21 DEF ApplySetStatus, Goto, Answer
<1>22. ASSUME ShutdownSnapshot PROVE Attended'
  BY <1>22 DEF ShutdownSnapshot, Goto
<1>23. ASSUME ShutdownNext PROVE Attended'
  BY <1>23 DEF ShutdownNext, Goto
<1>24. ASSUME ShutdownDone PROVE Attended'
  BY <1>24 DEF ShutdownDone, Goto
<1>25. ASSUME NEW t \in Threads, MonitorConnect(t) PROVE Attended'
  BY <1>25 DEF MonitorConnect
<1>26. ASSUME NEW t \in Threads, MonitorCheck(t) PROVE Attended'
  BY <1>26 DEF MonitorCheck
<1>27. ASSUME NEW t \in Threads, MonitorMark(t) PROVE Attended'
  BY <1>27 DEF MonitorMark
<1>28. ASSUME NEW t \in Threads, PollReturns(t) PROVE Attended'
  BY <1>28 DEF PollReturns
<1>29. ASSUME NEW p \in Pids, OpenvpnReady(p) PROVE Attended'
  BY <1>29 DEF OpenvpnReady
<1>30. ASSUME NEW p \in Pids, OpenvpnCrash(p) PROVE Attended'
  BY <1>30 DEF OpenvpnCrash, Dies, Corpse, Live
<1>31. ASSUME NEW p \in Pids, OpenvpnExit(p) PROVE Attended'
  BY <1>31 DEF OpenvpnExit, Dies, Corpse, Live
<1>32. ASSUME NEW c \in Configs, WebDelete(c) PROVE Attended'
  BY <1>32 DEF WebDelete
<1>33. ASSUME NEW left \in SUBSET {p \in Pids : Live(p)}, CoreEnd(left) PROVE Attended'
  BY <1>33 DEF CoreEnd, All
<1>34. ASSUME CoreStart PROVE Attended'
  BY <1>34 DEF CoreStart
<1>35. CASE UNCHANGED vars
  BY <1>35 DEF vars
<1>36. ASSUME NEW a \in Actors, StopStep(a) PROVE Attended'
  BY ONLY <1>36, <1>5, <1>6, <1>7, <1>8, <1>9, <1>10, <1>11 DEF StopStep
<1>37. ASSUME NEW h \in Handlers, HandlerStep(h) PROVE Attended'
  BY ONLY <1>37, <1>36, <1>4, <1>12, <1>13, <1>14, <1>15, <1>16, <1>17, <1>18, <1>19, <1>20, <1>21
  DEF HandlerStep, Actors
<1>38. CASE MainStep
  BY ONLY <1>38, <1>36, <1>22, <1>23, <1>24 DEF MainStep, Actors
<1>39. ASSUME NEW t \in Threads, MonitorStep(t) PROVE Attended'
  BY ONLY <1>39, <1>25, <1>26, <1>27, <1>28 DEF MonitorStep, MonitorPollCut
<1>40. CASE Environment
  BY ONLY <1>40, <1>1, <1>2, <1>3, <1>28, <1>29, <1>30, <1>31, <1>32, <1>33, <1>34
  DEF Environment, MonitorPolled
<1>. QED  BY ONLY [Next]_vars, <1>35, <1>37, <1>38, <1>39, <1>40 DEF Next

\* No server of this daemon is left to itself once the request is answered, if
\* monitor threads can be created and the database lets them in.
THEOREM NobodyUnwatched ==
    ASSUME Serialised, ~ThreadFail, ~DbFail
    PROVE  Spec => []ServersWatched
<1>. DEFINE K == Covered /\ Halted /\ Swept /\ Attended
<1>1. Init => K
  BY ActorAssumption
  DEF Init, Covered, Halted, Swept, Attended, ShuttingPC, StopPC, Live, Serves, All, AtRest,
      Actors
<1>2. Inv /\ K /\ [Next]_vars => K'
  BY Serialised, CoveredStep, HaltedStep, SweptStep, AttendedStep DEF Inv, Serving, Marking
<1>3. Inv /\ K => ServersWatched
  <2>. SUFFICES ASSUME TypeInv, Marked, Covered, Attended,
                       NEW p \in Pids, NEW c \in Configs, Serves(p, c), child[p],
                       \A a \in Actors : Busy(a) => arg[a] # c
                PROVE  running[c] /\ \E t \in Threads : Watches(t, c) /\ thread[t] # "mark"
    BY DEF Inv, Serving, Marking, ServersWatched
  <2>1. running[c]
    BY DEF Covered, Serves, Busy, BusyPC, ApplyPC, Actors
  <2>2. handle[c] \in Threads /\ Watches(handle[c], c)
    BY <2>1 DEF Attended
  <2>3. thread[handle[c]] # "mark"
    BY <2>2 DEF Marked, Watches
  <2>. QED  BY <2>1, <2>2, <2>3
<1>. QED  BY InvAlways, <1>1, <1>2, <1>3, PTL DEF Spec
=============================================================================
