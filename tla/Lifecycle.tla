------------------------------ MODULE Lifecycle ------------------------------
(***************************************************************************)
(* The life of the OpenVPN servers that the core daemon runs: the handler   *)
(* threads that apply and stop configurations, the monitor thread of each   *)
(* running configuration, the main thread's orderly shutdown, the OpenVPN   *)
(* child processes, the pid files and the status column of vpn_config.      *)
(*                                                                         *)
(* Sources: master/openvpn.c (stop_openvpn, start_openvpn),                 *)
(* master/monitor.c (monitor_thread, monitor_start, monitor_stop,           *)
(* monitor_stop_all), master/socket_server.c (the accept loop and the       *)
(* apply_config and stop_config handlers), master/main.c.                   *)
(***************************************************************************)
EXTENDS Naturals, FiniteSets, Sequences

CONSTANTS
    Configs,      \* ids of rows of vpn_config
    Handlers,     \* handler threads that may be busy at once
    Main,         \* the main thread of the daemon
    Pids,         \* names for OpenVPN processes
    Threads,      \* names for monitor threads
    None,         \* no pid, no thread
    MaxRunning,   \* size of running_configs (32 in the code)
    Serialised,   \* TRUE: requests for one config, and the shutdown, do not overlap
    ThreadFail,   \* TRUE: pthread_create may fail for a monitor
    DbFail,       \* TRUE: the database may refuse a connection or an UPDATE
    Crashes,      \* TRUE: the daemon may be killed at any step
    GiveUps       \* TRUE: a client may close its connection before the answer

Actors == Handlers \union {Main}

ASSUME ActorAssumption == Main \notin Handlers
ASSUME NoneAssumption == None \notin Pids \union Threads \union Configs
ASSUME FlagAssumption == /\ Serialised \in BOOLEAN
                         /\ ThreadFail \in BOOLEAN
                         /\ DbFail \in BOOLEAN
                         /\ Crashes \in BOOLEAN
                         /\ GiveUps \in BOOLEAN
ASSUME BoundAssumption == MaxRunning \in Nat

VARIABLES
    core,      \* "up" while the daemon's process exists
    shut,      \* g_shutdown_requested
    snap, at,  \* monitor_stop_all: its copy of running_configs and its progress
    pc, op, arg, pid, thr, res,  \* locals of each handler and of the main thread
    running,   \* ctx->running of each config's monitor_ctx_t
    handle,    \* ctx->thread of each config's monitor_ctx_t
    listed,    \* running_configs[0 .. running_count - 1]
    thread,    \* where each monitor thread is
    tcfg,      \* the config it watches
    proc,      \* what each OpenVPN process is doing
    pcfg,      \* the config it serves
    child,     \* whether the current daemon is its parent
    pidfile,   \* /var/run/openvpn/vpn-<id>.pid
    status     \* vpn_config.status, "none" once the row is deleted

coreVars == <<core, shut, snap, at>>
actorVars == <<pc, op, arg, pid, thr, res>>
monVars == <<running, handle, listed, thread, tcfg>>
procVars == <<proc, pcfg, child, pidfile>>
vars == <<coreVars, actorVars, monVars, procVars, status>>

\* Where a thread can be: first the shared calls, then what only one kind does.
StopPC == {"readpid", "term", "wait", "mtest", "mclear", "join", "unlist"}
ApplyPC == {"access", "launch", "settle", "mcheck", "mcreate", "list", "dbrun"}
BusyPC == StopPC \union ApplyPC \union {"dbstop", "reply"}
MainPC == {"accept", "drain", "next", "done"}
WatchingPC == {"connect", "check", "poll", "mark"}

DaemonType ==
    /\ core \in {"up", "down"} /\ shut \in BOOLEAN
    /\ snap \in Seq(Configs) /\ at \in Nat \ {0}
LocalsType ==
    /\ pc \in [Actors -> BusyPC \union MainPC \union {"idle"}]
    /\ op \in [Actors -> {"apply", "stop", "shutdown", "nothing"}]
    /\ arg \in [Actors -> Configs \union {None}]
    /\ pid \in [Actors -> Pids \union {None}]
    /\ thr \in [Actors -> Threads \union {None}]
    /\ res \in [Actors -> {"ok", "error"}]
MonitorType ==
    /\ running \in [Configs -> BOOLEAN]
    /\ handle \in [Configs -> Threads \union {None}]
    /\ thread \in [Threads -> WatchingPC \union {"exited", "free"}]
    /\ tcfg \in [Threads -> Configs \union {None}]
ListType == listed \in Seq(Configs) /\ Len(listed) <= MaxRunning
ProcessType ==
    /\ proc \in [Pids -> {"boot", "up", "zombie", "gone"}]
    /\ pcfg \in [Pids -> Configs \union {None}]
    /\ child \in [Pids -> BOOLEAN]
    /\ pidfile \in [Configs -> Pids \union {None}]
    /\ status \in [Configs -> {"none", "stopped", "running"}]

\* Every variable has its type, and running_configs never outgrows its array.
TypeOK == DaemonType /\ LocalsType /\ MonitorType /\ ListType /\ ProcessType

Busy(a) == pc[a] \in BusyPC
Live(p) == proc[p] \in {"boot", "up"}
Serves(p, c) == Live(p) /\ pcfg[p] = c
Watches(t, c) == thread[t] \in WatchingPC /\ tcfg[t] = c

(***************************************************************************)
(* A dead child stays a zombie: the daemon neither handles SIGCHLD nor      *)
(* calls waitpid after start_openvpn has returned.  A process whose parent  *)
(* daemon is gone is reaped by init at once.                                *)
(***************************************************************************)
M_Corpse_Reaped(p) == "gone"
Corpse(p) == IF child[p] THEN "zombie" ELSE "gone"
Dies(p) == proc' = [proc EXCEPT ![p] = Corpse(p)] /\ pcfg' = [pcfg EXCEPT ![p] = None]

(***************************************************************************)
(* fork returns a pid that no pid file and no thread still remembers.       *)
(***************************************************************************)
FreshPid(p) == /\ ~Live(p)
               /\ \A c \in Configs : pidfile[c] # p
               /\ \A a \in Actors : pid[a] # p

All(S, v) == [x \in S |-> v]
AtRest == [a \in Actors |-> IF a = Main THEN "accept" ELSE "idle"]

Init ==
    /\ core = "up" /\ shut = FALSE /\ snap = <<>> /\ at = 1
    /\ pc = AtRest /\ op = All(Actors, "nothing") /\ arg = All(Actors, None)
    /\ pid = All(Actors, None) /\ thr = All(Actors, None) /\ res = All(Actors, "ok")
    /\ running = All(Configs, FALSE) /\ handle = All(Configs, None) /\ listed = <<>>
    /\ thread = All(Threads, "free") /\ tcfg = All(Threads, None)
    /\ proc = All(Pids, "gone") /\ pcfg = All(Pids, None) /\ child = All(Pids, FALSE)
    /\ pidfile = All(Configs, None) /\ status = All(Configs, "stopped")

Goto(a, l) == pc' = [pc EXCEPT ![a] = l]
Answer(a, r) == Goto(a, "reply") /\ res' = [res EXCEPT ![a] = r]

-----------------------------------------------------------------------------
(* The accept loop.  signal() installs the handler with SA_RESTART, so the  *)
(* loop sees the flag only after accept has returned one more connection,   *)
(* and that connection still gets its handler thread.                       *)

AfterAccept == IF shut THEN "drain" ELSE "accept"

Receive(h, o, c) ==
    /\ core = "up" /\ pc[Main] = "accept" /\ pc[h] = "idle"
    /\ Serialised => \A a \in Actors : Busy(a) => arg[a] # c
    /\ pc' = [pc EXCEPT ![h] = IF o = "apply" THEN "access" ELSE "readpid",
                        ![Main] = AfterAccept]
    /\ op' = [op EXCEPT ![h] = o]
    /\ arg' = [arg EXCEPT ![h] = c]
    /\ UNCHANGED <<coreVars, pid, thr, res, monVars, procVars, status>>

\* Any other request, or one whose handler thread could not be created.
ReceiveOther ==
    /\ core = "up" /\ pc[Main] = "accept" /\ shut
    /\ Goto(Main, AfterAccept)
    /\ UNCHANGED <<coreVars, op, arg, pid, thr, res, monVars, procVars, status>>

\* SIGTERM or SIGINT: sig_handler.
RequestShutdown ==
    /\ core = "up" /\ pc[Main] = "accept" /\ ~shut
    /\ shut' = TRUE
    /\ UNCHANGED <<core, snap, at, actorVars, monVars, procVars, status>>

Reply(h) ==
    /\ pc[h] = "reply"
    /\ Goto(h, "idle")
    /\ op' = [op EXCEPT ![h] = "nothing"]
    /\ arg' = [arg EXCEPT ![h] = None]
    /\ pid' = [pid EXCEPT ![h] = None]
    /\ thr' = [thr EXCEPT ![h] = None]
    /\ res' = [res EXCEPT ![h] = "ok"]
    /\ UNCHANGED <<coreVars, monVars, procVars, status>>

-----------------------------------------------------------------------------
(* stop_openvpn and monitor_stop, called by apply_config before it starts   *)
(* the server anew, by stop_config, and by monitor_stop_all.                *)

AfterStop(a) == CASE op[a] = "apply" -> "launch"
                  [] op[a] = "stop" -> "dbstop"
                  [] OTHER -> "next"

StopReadPid(a) ==
    /\ pc[a] = "readpid"
    /\ pid' = [pid EXCEPT ![a] = pidfile[arg[a]]]
    /\ Goto(a, IF pidfile[arg[a]] = None THEN "mtest" ELSE "term")
    /\ UNCHANGED <<coreVars, op, arg, thr, res, monVars, procVars, status>>

\* kill(pid, SIGTERM) fails only when the process is gone; stop_openvpn then
\* returns -1 before monitor_stop, which start_openvpn ignores.
StopTerm(a) ==
    /\ pc[a] = "term"
    /\ IF proc[pid[a]] # "gone" THEN Goto(a, "wait") /\ UNCHANGED res
       ELSE IF op[a] = "stop" THEN Answer(a, "error")
       ELSE Goto(a, AfterStop(a)) /\ UNCHANGED res
    /\ UNCHANGED <<coreVars, op, arg, pid, thr, monVars, procVars, status>>

M_StopWait_NoKill(a) ==
    /\ pc[a] = "wait"
    /\ Goto(a, "mtest")
    /\ UNCHANGED <<coreVars, op, arg, pid, thr, res, monVars, procVars, status>>

\* Up to 3 s of kill(pid, 0), which a zombie answers, then SIGKILL.
StopWait(a) ==
    /\ pc[a] = "wait"
    /\ IF Live(pid[a]) THEN Dies(pid[a]) ELSE UNCHANGED <<proc, pcfg>>
    /\ Goto(a, "mtest")
    /\ UNCHANGED <<coreVars, op, arg, pid, thr, res, monVars, child, pidfile, status>>

MonitorStopTest(a) ==
    /\ pc[a] = "mtest"
    /\ Goto(a, IF running[arg[a]] THEN "mclear" ELSE AfterStop(a))
    /\ UNCHANGED <<coreVars, op, arg, pid, thr, res, monVars, procVars, status>>

\* ctx->running = 0; pthread_join(ctx->thread, ...) then waits for this thread.
MonitorStopClear(a) ==
    /\ pc[a] = "mclear"
    /\ running' = [running EXCEPT ![arg[a]] = FALSE]
    /\ thr' = [thr EXCEPT ![a] = handle[arg[a]]]
    /\ Goto(a, "join")
    /\ UNCHANGED <<coreVars, op, arg, pid, res, handle, listed, thread, tcfg, procVars, status>>

M_MonitorStopJoin_NoWait(a) ==
    /\ pc[a] = "join"
    /\ Goto(a, "unlist")
    /\ UNCHANGED <<coreVars, op, arg, pid, thr, res, monVars, procVars, status>>

\* A second join of one thread (overlapping stops) is undefined; here it returns.
MonitorStopJoin(a) ==
    /\ pc[a] = "join"
    /\ thread[thr[a]] \in {"exited", "free"}
    /\ thread' = [thread EXCEPT ![thr[a]] = "free"]
    /\ tcfg' = [tcfg EXCEPT ![thr[a]] = None]
    /\ Goto(a, "unlist")
    /\ UNCHANGED <<coreVars, op, arg, pid, thr, res, running, handle, listed, procVars, status>>

\* running_configs[i] = running_configs[--running_count] at the first match.
Positions(c) == {i \in 1 .. Len(listed) : listed[i] = c}
First(S) == CHOOSE i \in S : \A j \in S : i <= j
Unlisted(c) ==
    IF Positions(c) = {} THEN listed
    ELSE [j \in 1 .. Len(listed) - 1 |->
            IF j = First(Positions(c)) THEN listed[Len(listed)] ELSE listed[j]]

M_MonitorStopUnlist_Forgot(a) ==
    /\ pc[a] = "unlist"
    /\ Goto(a, AfterStop(a))
    /\ UNCHANGED <<coreVars, op, arg, pid, thr, res, monVars, procVars, status>>

MonitorStopUnlist(a) ==
    /\ pc[a] = "unlist"
    /\ listed' = Unlisted(arg[a])
    /\ Goto(a, AfterStop(a))
    /\ UNCHANGED <<coreVars, op, arg, pid, thr, res, running, handle, thread, tcfg, procVars, status>>

\* stop_config's UPDATE; its result is not looked at.
StopSetStatus(h) ==
    /\ pc[h] = "dbstop"
    /\ \/ status' = [status EXCEPT ![arg[h]] = IF @ = "none" THEN @ ELSE "stopped"]
       \/ DbFail /\ UNCHANGED status
    /\ Answer(h, "ok")
    /\ UNCHANGED <<coreVars, op, arg, pid, thr, monVars, procVars>>

-----------------------------------------------------------------------------
(* start_openvpn and monitor_start, on behalf of apply_config.              *)

\* access(binary, X_OK) comes before anything is stopped.
StartAccess(h) ==
    /\ pc[h] = "access"
    /\ \/ Goto(h, "readpid") /\ UNCHANGED res
       \/ Answer(h, "error")
    /\ UNCHANGED <<coreVars, op, arg, pid, thr, monVars, procVars, status>>

\* generate_openvpn_config fails when the row is missing, and may fail on a
\* query or a file; fork may fail.
StartLaunchFails(h) ==
    /\ pc[h] = "launch"
    /\ Answer(h, "error")
    /\ UNCHANGED <<coreVars, op, arg, pid, thr, monVars, procVars, status>>

StartLaunch(h, p) ==
    /\ pc[h] = "launch" /\ status[arg[h]] # "none" /\ FreshPid(p)
    /\ proc' = [proc EXCEPT ![p] = "boot"]
    /\ pcfg' = [pcfg EXCEPT ![p] = arg[h]]
    /\ child' = [child EXCEPT ![p] = TRUE]
    /\ pid' = [pid EXCEPT ![h] = p]
    /\ Goto(h, "settle")
    /\ UNCHANGED <<coreVars, op, arg, thr, res, monVars, pidfile, status>>

M_StartSettle_NoWait(h) ==
    /\ pc[h] = "settle"
    /\ IF proc[pid[h]] = "zombie"
       THEN proc' = [proc EXCEPT ![pid[h]] = "gone"] /\ Answer(h, "error")
       ELSE Goto(h, "mcheck") /\ UNCHANGED <<res, proc>>
    /\ UNCHANGED <<coreVars, op, arg, pid, thr, monVars, pcfg, child, pidfile, status>>

\* usleep(500 ms), long enough for OpenVPN to have written its pid file or
\* died, then waitpid(WNOHANG): the only place a child is reaped.
StartSettle(h) ==
    /\ pc[h] = "settle" /\ proc[pid[h]] # "boot"
    /\ IF proc[pid[h]] = "zombie"
       THEN proc' = [proc EXCEPT ![pid[h]] = "gone"] /\ Answer(h, "error")
       ELSE Goto(h, "mcheck") /\ UNCHANGED <<res, proc>>
    /\ UNCHANGED <<coreVars, op, arg, pid, thr, monVars, pcfg, child, pidfile, status>>

MonitorStartTest(h) ==
    /\ pc[h] = "mcheck"
    /\ Goto(h, IF running[arg[h]] THEN "dbrun" ELSE "mcreate")
    /\ UNCHANGED <<coreVars, op, arg, pid, thr, res, monVars, procVars, status>>

\* ctx->running = 1 and pthread_create, which stores ctx->thread.
MonitorStartCreate(h, t) ==
    /\ pc[h] = "mcreate" /\ thread[t] = "free"
    /\ running' = [running EXCEPT ![arg[h]] = TRUE]
    /\ handle' = [handle EXCEPT ![arg[h]] = t]
    /\ thread' = [thread EXCEPT ![t] = "connect"]
    /\ tcfg' = [tcfg EXCEPT ![t] = arg[h]]
    /\ Goto(h, "list")
    /\ UNCHANGED <<coreVars, op, arg, pid, thr, res, listed, procVars, status>>

\* start_openvpn logs the failure of monitor_start and still returns 0.
MonitorStartFails(h) ==
    /\ pc[h] = "mcreate" /\ ThreadFail
    /\ running' = [running EXCEPT ![arg[h]] = FALSE]
    /\ Goto(h, "dbrun")
    /\ UNCHANGED <<coreVars, op, arg, pid, thr, res, handle, listed, thread, tcfg, procVars, status>>

M_MonitorStartList_NoBound(h) ==
    /\ pc[h] = "list"
    /\ listed' = Append(listed, arg[h])
    /\ Goto(h, "dbrun")
    /\ UNCHANGED <<coreVars, op, arg, pid, thr, res, running, handle, thread, tcfg, procVars, status>>

MonitorStartList(h) ==
    /\ pc[h] = "list"
    /\ listed' = IF Len(listed) < MaxRunning THEN Append(listed, arg[h]) ELSE listed
    /\ Goto(h, "dbrun")
    /\ UNCHANGED <<coreVars, op, arg, pid, thr, res, running, handle, thread, tcfg, procVars, status>>

\* apply_config's UPDATE; its result is not looked at.
ApplySetStatus(h) ==
    /\ pc[h] = "dbrun"
    /\ \/ status' = [status EXCEPT ![arg[h]] = IF @ = "none" THEN @ ELSE "running"]
       \/ DbFail /\ UNCHANGED status
    /\ Answer(h, "ok")
    /\ UNCHANGED <<coreVars, op, arg, pid, thr, monVars, procVars>>

-----------------------------------------------------------------------------
(* monitor_stop_all, on the main thread: stop_openvpn for each listed       *)
(* config, then monitor_stop for each.                                      *)

ShutdownSnapshot ==
    /\ pc[Main] = "drain"
    /\ Serialised => \A h \in Handlers : pc[h] = "idle"
    /\ snap' = listed /\ at' = 1
    /\ Goto(Main, "next")
    /\ op' = [op EXCEPT ![Main] = "shutdown"]
    /\ UNCHANGED <<core, shut, arg, pid, thr, res, monVars, procVars, status>>

M_ShutdownNext_Short ==
    /\ pc[Main] = "next"
    /\ \/ /\ at < Len(snap)
          /\ arg' = [arg EXCEPT ![Main] = snap[at]]
          /\ Goto(Main, "readpid")
       \/ /\ at >= Len(snap) /\ at <= 2 * Len(snap)
          /\ arg' = [arg EXCEPT ![Main] = snap[IF at = Len(snap) THEN at ELSE at - Len(snap)]]
          /\ Goto(Main, "mtest")
    /\ at' = at + 1
    /\ UNCHANGED <<core, shut, snap, op, pid, thr, res, monVars, procVars, status>>

ShutdownNext ==
    /\ pc[Main] = "next"
    /\ \/ /\ at <= Len(snap)
          /\ arg' = [arg EXCEPT ![Main] = snap[at]]
          /\ Goto(Main, "readpid")
       \/ /\ at > Len(snap) /\ at <= 2 * Len(snap)
          /\ arg' = [arg EXCEPT ![Main] = snap[at - Len(snap)]]
          /\ Goto(Main, "mtest")
    /\ at' = at + 1
    /\ UNCHANGED <<core, shut, snap, op, pid, thr, res, monVars, procVars, status>>

ShutdownDone ==
    /\ pc[Main] = "next" /\ at > 2 * Len(snap)
    /\ Goto(Main, "done")
    /\ UNCHANGED <<coreVars, op, arg, pid, thr, res, monVars, procVars, status>>

-----------------------------------------------------------------------------
(* monitor_thread.  It never resets ctx->running when it leaves by itself.  *)

\* Its own database connection; on failure the thread just returns.
MonitorConnect(t) ==
    /\ thread[t] = "connect"
    /\ \/ thread' = [thread EXCEPT ![t] = "check"]
       \/ DbFail /\ thread' = [thread EXCEPT ![t] = "exited"]
    /\ UNCHANGED <<coreVars, actorVars, running, handle, listed, tcfg, procVars, status>>

\* pid > 0 && kill(pid, 0) == 0; a zombie answers kill.
Answers(c) == pidfile[c] # None /\ proc[pidfile[c]] # "gone"

M_MonitorCheck_NoFlag(t) ==
    /\ thread[t] = "check"
    /\ thread' = [thread EXCEPT ![t] = IF Answers(tcfg[t]) THEN "poll" ELSE "mark"]
    /\ UNCHANGED <<coreVars, actorVars, running, handle, listed, tcfg, procVars, status>>

\* while (ctx->running), then the pid test.
MonitorCheck(t) ==
    /\ thread[t] = "check"
    /\ thread' = [thread EXCEPT ![t] = IF ~running[tcfg[t]] THEN "exited"
                                       ELSE IF Answers(tcfg[t]) THEN "poll"
                                       ELSE "mark"]
    /\ UNCHANGED <<coreVars, actorVars, running, handle, listed, tcfg, procVars, status>>

M_MonitorMark_Silent(t) ==
    /\ thread[t] = "mark"
    /\ thread' = [thread EXCEPT ![t] = "exited"]
    /\ UNCHANGED <<coreVars, actorVars, running, handle, listed, tcfg, procVars, status>>

MonitorMark(t) ==
    /\ thread[t] = "mark"
    /\ thread' = [thread EXCEPT ![t] = "exited"]
    /\ \/ status' = [status EXCEPT ![tcfg[t]] = IF @ = "none" THEN @ ELSE "stopped"]
       \/ DbFail /\ UNCHANGED status
    /\ UNCHANGED <<coreVars, actorVars, running, handle, listed, tcfg, procVars>>

PollReturns(t) ==
    /\ thread[t] = "poll"
    /\ thread' = [thread EXCEPT ![t] = "check"]
    /\ UNCHANGED <<coreVars, actorVars, running, handle, listed, tcfg, procVars, status>>

\* The management socket has no timeout: a live server may answer late or
\* never, one that is dead makes connect or recv return.
MonitorPolled(t) == PollReturns(t) /\ \E p \in Pids : Serves(p, tcfg[t])
MonitorPollCut(t) == PollReturns(t) /\ ~\E p \in Pids : Serves(p, tcfg[t])

-----------------------------------------------------------------------------
(* OpenVPN, the web tier's DELETE, the death and the restart of the daemon. *)

OpenvpnReady(p) ==
    /\ proc[p] = "boot"
    /\ proc' = [proc EXCEPT ![p] = "up"]
    /\ pidfile' = [pidfile EXCEPT ![pcfg[p]] = p]
    /\ UNCHANGED <<coreVars, actorVars, monVars, pcfg, child, status>>

OpenvpnCrash(p) ==
    /\ Live(p) /\ Dies(p)
    /\ UNCHANGED <<coreVars, actorVars, monVars, child, pidfile, status>>

\* An exit of its own accord, or on SIGTERM, removes the pid file.
OpenvpnExit(p) ==
    /\ proc[p] = "up" /\ Dies(p)
    /\ pidfile' = [pidfile EXCEPT ![pcfg[p]] = None]
    /\ UNCHANGED <<coreVars, actorVars, monVars, child, status>>

\* web/routes/configs.py delete_config: the row goes, the server stays.
WebDelete(c) ==
    /\ status[c] # "none"
    /\ status' = [status EXCEPT ![c] = "none"]
    /\ UNCHANGED <<coreVars, actorVars, monVars, procVars>>

\* send_command waits 30 s at most and closes the connection; the handler's write
\* to it then raises SIGPIPE, which the daemon neither handles nor ignores.
Sigpipe == GiveUps /\ \E h \in Handlers : pc[h] = "reply"

\* The daemon ends: main returns, or it is killed.  Its zombies go with it, and
\* each live server (setsid) goes with its service group or is left behind.
CoreEnd(left) ==
    /\ core = "up"
    /\ pc[Main] = "done" \/ Crashes \/ Sigpipe
    /\ core' = "down" /\ shut' = FALSE /\ snap' = <<>> /\ at' = 1
    /\ pc' = AtRest /\ op' = All(Actors, "nothing") /\ arg' = All(Actors, None)
    /\ pid' = All(Actors, None) /\ thr' = All(Actors, None) /\ res' = All(Actors, "ok")
    /\ running' = All(Configs, FALSE) /\ handle' = All(Configs, None) /\ listed' = <<>>
    /\ thread' = All(Threads, "free") /\ tcfg' = All(Threads, None)
    /\ proc' = [p \in Pids |-> IF p \in left THEN proc[p] ELSE "gone"]
    /\ pcfg' = [p \in Pids |-> IF p \in left THEN pcfg[p] ELSE None]
    /\ child' = All(Pids, FALSE)
    /\ UNCHANGED <<pidfile, status>>

\* RestartSec=5 is longer than OpenVPN takes to write its pid file.
CoreStart ==
    /\ core = "down"
    /\ \A p \in Pids : proc[p] # "boot"
    /\ core' = "up"
    /\ UNCHANGED <<shut, snap, at, actorVars, monVars, procVars, status>>

-----------------------------------------------------------------------------
StopStep(a) ==
    \/ StopReadPid(a) \/ StopTerm(a) \/ StopWait(a)
    \/ MonitorStopTest(a) \/ MonitorStopClear(a) \/ MonitorStopJoin(a) \/ MonitorStopUnlist(a)

HandlerStep(h) ==
    \/ StopStep(h) \/ StopSetStatus(h)
    \/ StartAccess(h) \/ StartLaunchFails(h) \/ StartSettle(h)
    \/ \E p \in Pids : StartLaunch(h, p)
    \/ MonitorStartTest(h) \/ MonitorStartFails(h) \/ MonitorStartList(h)
    \/ \E t \in Threads : MonitorStartCreate(h, t)
    \/ ApplySetStatus(h) \/ Reply(h)

MainStep == StopStep(Main) \/ ShutdownSnapshot \/ ShutdownNext \/ ShutdownDone

MonitorStep(t) ==
    MonitorConnect(t) \/ MonitorCheck(t) \/ MonitorMark(t) \/ MonitorPollCut(t)

Environment ==
    \/ \E h \in Handlers, o \in {"apply", "stop"}, c \in Configs : Receive(h, o, c)
    \/ ReceiveOther \/ RequestShutdown
    \/ \E t \in Threads : MonitorPolled(t)
    \/ \E p \in Pids : OpenvpnReady(p) \/ OpenvpnCrash(p) \/ OpenvpnExit(p)
    \/ \E c \in Configs : WebDelete(c)
    \/ \E left \in SUBSET {p \in Pids : Live(p)} : CoreEnd(left)
    \/ CoreStart

Next ==
    \/ \E h \in Handlers : HandlerStep(h)
    \/ MainStep
    \/ \E t \in Threads : MonitorStep(t)
    \/ Environment

(***************************************************************************)
(* Threads of the daemon are scheduled, and a booting OpenVPN writes its    *)
(* pid file or dies.  Nothing else has to happen.                           *)
(***************************************************************************)
Fairness ==
    /\ \A h \in Handlers : WF_vars(HandlerStep(h))
    /\ WF_vars(MainStep)
    /\ \A t \in Threads : WF_vars(MonitorStep(t))
    /\ \A p \in Pids : WF_vars(OpenvpnReady(p))

Spec == Init /\ [][Next]_vars
FairSpec == Spec /\ Fairness
-----------------------------------------------------------------------------
(* Safety. *)

\* At most one thread at a time watches a configuration: monitor_start refuses
\* to start a second one, monitor_stop waits for the first to leave.
OneMonitor ==
    \A t1, t2 \in Threads, c \in Configs :
        Watches(t1, c) /\ Watches(t2, c) => t1 = t2

\* A configuration never has two OpenVPN servers alive, restarts of the daemon
\* and servers it left behind included.
OneServer ==
    \A p1, p2 \in Pids, c \in Configs :
        Serves(p1, c) /\ Serves(p2, c) => p1 = p2

\* When stop_config answers ok, the server, its monitor thread and the running
\* flag are all gone.
StopOkMeansStopped ==
    \A h \in Handlers :
        pc[h] = "reply" /\ op[h] = "stop" /\ res[h] = "ok" =>
            /\ ~\E p \in Pids : Serves(p, arg[h])
            /\ ~\E t \in Threads : Watches(t, arg[h])
            /\ ~running[arg[h]]

\* stop_openvpn skips monitor_stop when kill fails; that leaks no monitor, for a
\* process the daemon has a monitor for is never reaped before it is stopped.
RefusedStopUnwatched ==
    \A a \in Actors :
        pc[a] = "term" /\ proc[pid[a]] = "gone" => ~running[arg[a]]

\* running_configs holds each monitored configuration once and no other, but
\* between the two updates of monitor_start and of monitor_stop.
ShouldBeListed(c) ==
    \/ running[c] /\ ~\E h \in Handlers : pc[h] = "list" /\ arg[h] = c
    \/ \E a \in Actors : pc[a] \in {"join", "unlist"} /\ arg[a] = c
ListedExactly ==
    \A c \in Configs : Cardinality(Positions(c)) = IF ShouldBeListed(c) THEN 1 ELSE 0

\* pthread_join cannot wait for ever on a monitor that is blocked in recv: whoever
\* joins waits for the only thread that watches the configuration, and its server is
\* dead, so that its socket is closed.
JoinReturns ==
    \A a \in Actors : pc[a] = "join" =>
        /\ ~\E p \in Pids : Serves(p, arg[a])
        /\ \A t \in Threads : Watches(t, arg[a]) => t = thr[a]

\* No server of this daemon is left to itself: once the request is answered, the flag
\* of its configuration is set and a monitor thread is at work on it, if threads can be
\* created and the database lets them in.
ServersWatched ==
    \A p \in Pids, c \in Configs :
        Serves(p, c) /\ child[p] /\ (\A a \in Actors : Busy(a) => arg[a] # c)
            => running[c] /\ \E t \in Threads : Watches(t, c) /\ thread[t] # "mark"

\* Once monitor_stop_all is through, no server this daemon started is alive.
ShutdownStopsServers ==
    pc[Main] = "done" => ~\E p \in Pids : Live(p) /\ child[p]

\* Whoever marks a configuration stopped, the stop handler or its monitor, does
\* so only when its server is dead.
StoppedOnlyWhenDead ==
    [][\A c \in Configs :
         status[c] = "running" /\ status'[c] = "stopped" => ~\E p \in Pids : Serves(p, c)]_vars

(* What the daemon promises of its servers, and how it keeps it. *)

Alive == [c \in Configs |-> {p \in Pids : Serves(p, c)}]
Asked == [h \in Handlers |-> op[h]]
About == [h \in Handlers |-> arg[h]]
LaunchedPC == {"settle", "mcheck", "mcreate", "list", "dbrun"}
Phase == [h \in Handlers |-> CASE pc[h] = "idle" -> "idle"
                               [] pc[h] = "reply" -> res[h]
                               [] pc[h] \in LaunchedPC -> "launched"
                               [] OTHER -> "working"]

Promised == INSTANCE Servers
              WITH serving <- Alive, asked <- Asked, about <- About, phase <- Phase

\* The daemon implements Servers: it launches a server only for an apply request
\* and when the old one is gone, answers a stop only when the server is dead and
\* an apply ok only after its own launch, and marks stopped what is dead.
ServersKept == Promised!Spec

(* Liveness. *)

\* Every request is answered, though monitor_stop waits for a thread that may be
\* blocked on a server that never answers its management socket.
RequestsEnd == \A h \in Handlers : pc[h] # "idle" ~> pc[h] = "idle"

\* monitor_stop_all gets through every stop and every join.
ShutdownEnds == pc[Main] = "drain" ~> pc[Main] \in {"done", "accept"}

\* A server that exits and removes its pid file while it is watched is noticed.
ExitNoticed ==
    \A t \in Threads, c \in Configs :
        (thread[t] \in {"check", "poll"} /\ tcfg[t] = c /\ pidfile[c] = None)
            ~> (status[c] # "running" \/ ~running[c])

\* A server that crashes while it is watched is noticed.
CrashNoticed ==
    \A t \in Threads, c \in Configs :
        (thread[t] \in {"check", "poll"} /\ tcfg[t] = c /\ ~\E p \in Pids : Serves(p, c))
            ~> (status[c] # "running" \/ ~running[c])
=============================================================================
