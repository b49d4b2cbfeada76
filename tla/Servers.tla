------------------------------- MODULE Servers -------------------------------
(***************************************************************************)
(* What the daemon promises about its servers, without pid files, monitor   *)
(* threads, locks or the order of steps: who may be served by what, when a  *)
(* request may be answered, and what the status column may say.  Lifecycle  *)
(* implements it.                                                           *)
(***************************************************************************)
CONSTANTS Configs, Handlers, Pids, None

VARIABLES
    serving,   \* the live OpenVPN processes of each configuration
    asked,     \* the request each handler is working on
    about,     \* its configuration
    phase,     \* how far it is
    status     \* vpn_config.status

requestVars == <<asked, about, phase>>
vars == <<serving, requestVars, status>>

Init ==
    /\ serving = [c \in Configs |-> {}]
    /\ asked = [h \in Handlers |-> "nothing"]
    /\ about = [h \in Handlers |-> None]
    /\ phase = [h \in Handlers |-> "idle"]
    /\ status = [c \in Configs |-> "stopped"]

Turn(h, f) == phase' = [phase EXCEPT ![h] = f]

\* A status says something only of a row that exists.
MayMark(c, s) ==
    status' = [status EXCEPT ![c] = IF @ = "none" THEN @ ELSE s] \/ UNCHANGED status

\* One request at a time for a configuration.
Ask(h, o, c) ==
    /\ phase[h] = "idle" /\ \A g \in Handlers : about[g] # c
    /\ asked' = [asked EXCEPT ![h] = o]
    /\ about' = [about EXCEPT ![h] = c]
    /\ Turn(h, "working")
    /\ UNCHANGED <<serving, status>>

\* A server is launched for an apply request, for a row that exists and only
\* when the one before is gone, by a process that serves nothing else.
Launch(h, p) ==
    /\ asked[h] = "apply" /\ phase[h] = "working"
    /\ serving[about[h]] = {} /\ status[about[h]] # "none"
    /\ \A c \in Configs : p \notin serving[c]
    /\ serving' = [serving EXCEPT ![about[h]] = {p}]
    /\ Turn(h, "launched")
    /\ UNCHANGED <<asked, about, status>>

\* Apply is answered ok only after a launch of its own.
ApplyOk(h) ==
    /\ asked[h] = "apply" /\ phase[h] = "launched"
    /\ MayMark(about[h], "running")
    /\ Turn(h, "ok")
    /\ UNCHANGED <<serving, asked, about>>

\* An apply may fail before its launch, leaving what there was; after it, only
\* because the server has died.
ApplyFails(h) ==
    /\ asked[h] = "apply"
    /\ phase[h] = "working" \/ (phase[h] = "launched" /\ serving[about[h]] = {})
    /\ Turn(h, "error")
    /\ UNCHANGED <<serving, asked, about, status>>

\* Whatever a stop answers, the server is dead.
StopAnswers(h, r) ==
    /\ asked[h] = "stop" /\ phase[h] = "working"
    /\ serving[about[h]] = {}
    /\ IF r = "ok" THEN MayMark(about[h], "stopped") ELSE UNCHANGED status
    /\ Turn(h, r)
    /\ UNCHANGED <<serving, asked, about>>

Done(h) ==
    /\ phase[h] \in {"ok", "error"}
    /\ asked' = [asked EXCEPT ![h] = "nothing"]
    /\ about' = [about EXCEPT ![h] = None]
    /\ Turn(h, "idle")
    /\ UNCHANGED <<serving, status>>

\* A server dies, or is killed.
End(c) ==
    /\ serving[c] # {}
    /\ serving' = [serving EXCEPT ![c] = {}]
    /\ UNCHANGED <<requestVars, status>>

\* Without a request, a running configuration is marked stopped only when its
\* server is gone.
Notice(c) ==
    /\ status[c] = "running" /\ serving[c] = {}
    /\ status' = [status EXCEPT ![c] = "stopped"]
    /\ UNCHANGED <<serving, requestVars>>

Delete(c) ==
    /\ status[c] # "none"
    /\ status' = [status EXCEPT ![c] = "none"]
    /\ UNCHANGED <<serving, requestVars>>

\* The daemon ends: requests are forgotten, servers may go with it.
CoreEnd(left) ==
    /\ serving' = [c \in Configs |-> IF c \in left THEN serving[c] ELSE {}]
    /\ asked' = [h \in Handlers |-> "nothing"]
    /\ about' = [h \in Handlers |-> None]
    /\ phase' = [h \in Handlers |-> "idle"]
    /\ UNCHANGED status

Next ==
    \/ \E h \in Handlers :
         \/ \E c \in Configs : Ask(h, "apply", c) \/ Ask(h, "stop", c)
         \/ \E p \in Pids : Launch(h, p)
         \/ ApplyOk(h) \/ ApplyFails(h)
         \/ StopAnswers(h, "ok") \/ StopAnswers(h, "error")
         \/ Done(h)
    \/ \E c \in Configs : End(c) \/ Notice(c) \/ Delete(c)
    \/ \E left \in SUBSET Configs : CoreEnd(left)

Spec == Init /\ [][Next]_vars
=============================================================================
