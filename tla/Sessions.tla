------------------------------- MODULE Sessions -------------------------------
(***************************************************************************)
(* The session table: how the monitor thread of each configuration turns    *)
(* the replies of its server's management socket into rows of vpn_sessions, *)
(* while clients come and go, servers stop, and the web tier deletes        *)
(* configurations.                                                          *)
(*                                                                         *)
(* Sources: master/monitor.c (update_sessions, monitor_thread, kick_client),*)
(* schema.sql (vpn_client_profiles, vpn_sessions), master/client_handler.c  *)
(* (handle_gen_client_cert), web/routes/configs.py (delete_config).         *)
(*                                                                         *)
(* A configuration has at most one monitor here: MonitorUnique of           *)
(* LifecycleProofs.                                                         *)
(***************************************************************************)
EXTENDS Naturals, FiniteSets

CONSTANTS
    Configs,     \* ids of vpn_config, never used again once deleted (SERIAL)
    Profiles,    \* ids of vpn_client_profiles, one for each user and config
    ConfigOf,    \* the configuration of each profile
    None,        \* no profile
    Room,        \* client lines that fit the monitor's 16 KB buffer
    MaxOnline    \* size of online_profiles (256 in the code)

ASSUME ConfigOfAssumption == ConfigOf \in [Profiles -> Configs]
ASSUME ProfilesAssumption == IsFiniteSet(Profiles)
ASSUME NoneAssumption == None \notin Profiles
\* A line takes more than 64 bytes, so the buffer is full before the array is.
ASSUME RoomAssumption == Room \in Nat /\ MaxOnline \in Nat /\ Room <= MaxOnline

VARIABLES
    row,       \* the row of vpn_config exists
    profile,   \* vpn_client_profiles: "none", then "kept", then "gone"
    open,      \* number of rows of vpn_sessions with disconnected_at NULL
    stranded,  \* profiles with an open row whose config_id became NULL
    server,    \* the OpenVPN server is alive
    on,        \* clients connected to it
    watch,     \* where the configuration's monitor is
    conn,      \* its database connection works
    lines,     \* clients of the reply that are still to be worked off
    cur, has,  \* the client at hand, and has_online
    seen,      \* online_profiles
    steady     \* history: clients a complete reply showed and that stayed since

tableVars == <<row, profile, open, stranded>>
serverVars == <<server, on>>
cycleVars == <<lines, cur, has, seen, steady>>
vars == <<tableVars, serverVars, watch, conn, cycleVars>>

Of(c) == {p \in Profiles : ConfigOf[p] = c}
M_On_AnySocket(c) == on
\* The clients behind one configuration's management socket.
On(c) == on \intersect Of(c)

CyclePC == {"look", "find", "write", "sweep"}

\* Every variable has its type, and a monitor only ever handles clients of its
\* own configuration.
TypeOK ==
    /\ row \in [Configs -> BOOLEAN]
    /\ profile \in [Profiles -> {"none", "kept", "gone"}]
    /\ open \in [Profiles -> Nat] /\ stranded \subseteq Profiles
    /\ server \in [Configs -> BOOLEAN] /\ on \subseteq Profiles
    /\ watch \in [Configs -> CyclePC \union {"off", "head"}]
    /\ conn \in [Configs -> BOOLEAN]
    /\ lines \in [Configs -> SUBSET Profiles]
    /\ \A c \in Configs : lines[c] \union seen[c] \subseteq Of(c)
    /\ cur \in [Configs -> Profiles \union {None}]
    /\ has \in [Configs -> BOOLEAN]
    /\ seen \in [Configs -> SUBSET Profiles]
    /\ steady \in [Configs -> SUBSET Profiles]

Init ==
    /\ row = [c \in Configs |-> TRUE]
    /\ profile = [p \in Profiles |-> "none"]
    /\ open = [p \in Profiles |-> 0] /\ stranded = {}
    /\ server = [c \in Configs |-> FALSE] /\ on = {}
    /\ watch = [c \in Configs |-> "off"] /\ conn = [c \in Configs |-> FALSE]
    /\ lines = [c \in Configs |-> {}] /\ cur = [c \in Configs |-> None]
    /\ has = [c \in Configs |-> FALSE] /\ seen = [c \in Configs |-> {}]
    /\ steady = [c \in Configs |-> {}]

Goto(c, l) == watch' = [watch EXCEPT ![c] = l]
GotoNext(c) == Goto(c, IF lines'[c] = {} THEN "sweep" ELSE "look")

-----------------------------------------------------------------------------
(* One cycle of monitor_thread.                                             *)

\* The lines of "status 2" that reach the buffer: OpenVPN lists its clients in
\* no particular order, and recv of 0 bytes ends the loop when the buffer is full.
Replies(c) ==
    IF Cardinality(On(c)) <= Room THEN {On(c)}
    ELSE {S \in SUBSET On(c) : Cardinality(S) = Room}

Asked(c, S, kept) ==
    /\ watch[c] = "head" /\ server[c]
    /\ lines' = [lines EXCEPT ![c] = S]
    /\ steady' = [steady EXCEPT ![c] = kept]
    /\ Goto(c, IF S = {} THEN "sweep" ELSE "look")
    /\ UNCHANGED <<tableVars, conn, cur, has, seen>>

Poll(c) ==
    /\ \E S \in Replies(c) : Asked(c, S, IF S = On(c) THEN S ELSE {})
    /\ UNCHANGED serverVars

\* The server dies while it answers: what has been received is used.
PollCut(c) ==
    /\ \E S \in SUBSET On(c) : Cardinality(S) <= Room /\ Asked(c, S, {})
    /\ server' = [server EXCEPT ![c] = FALSE]
    /\ on' = on \ Of(c)

\* The profile of the line's common name; a client without one is skipped.
Look(c, p) ==
    /\ watch[c] = "look" /\ p \in lines[c]
    /\ lines' = [lines EXCEPT ![c] = @ \ {p}]
    /\ IF conn[c] /\ profile[p] = "kept"
       THEN /\ cur' = [cur EXCEPT ![c] = p]
            /\ seen' = [seen EXCEPT ![c] =
                          IF Cardinality(@) < MaxOnline THEN @ \union {p} ELSE @]
            /\ Goto(c, "find")
       ELSE GotoNext(c) /\ UNCHANGED <<cur, seen>>
    /\ UNCHANGED <<tableVars, serverVars, conn, has, steady>>

M_Find_Nothing(c) ==
    /\ watch[c] = "find"
    /\ Goto(c, "write")
    /\ UNCHANGED <<tableVars, serverVars, conn, cycleVars>>

\* SELECT of an open session of the profile; no answer counts as none.
Find(c) ==
    /\ watch[c] = "find"
    /\ has' = [has EXCEPT ![c] = conn[c] /\ open[cur[c]] > 0]
    /\ Goto(c, "write")
    /\ UNCHANGED <<tableVars, serverVars, conn, lines, cur, seen, steady>>

M_Write_UpdateOnly(c) ==
    /\ watch[c] = "write"
    /\ has' = [has EXCEPT ![c] = FALSE]
    /\ cur' = [cur EXCEPT ![c] = None]
    /\ UNCHANGED lines /\ GotoNext(c)
    /\ UNCHANGED <<tableVars, serverVars, conn, seen, steady>>

M_Write_NoForeignKey(c) ==
    /\ watch[c] = "write"
    /\ open' = IF conn[c] /\ ~has[c] THEN [open EXCEPT ![cur[c]] = @ + 1] ELSE open
    /\ has' = [has EXCEPT ![c] = FALSE]
    /\ cur' = [cur EXCEPT ![c] = None]
    /\ UNCHANGED lines /\ GotoNext(c)
    /\ UNCHANGED <<row, profile, stranded, serverVars, conn, seen, steady>>

\* UPDATE of the counters, or INSERT, which the foreign key refuses once the
\* profile has gone.
Write(c) ==
    /\ watch[c] = "write"
    /\ open' = IF conn[c] /\ ~has[c] /\ profile[cur[c]] = "kept"
               THEN [open EXCEPT ![cur[c]] = @ + 1] ELSE open
    /\ has' = [has EXCEPT ![c] = FALSE]
    /\ cur' = [cur EXCEPT ![c] = None]
    /\ UNCHANGED lines /\ GotoNext(c)
    /\ UNCHANGED <<row, profile, stranded, serverVars, conn, seen, steady>>

M_Sweep_AnyConfig(c) ==
    /\ watch[c] = "sweep"
    /\ open' = IF conn[c]
               THEN [p \in Profiles |-> IF p \notin seen[c] THEN 0 ELSE open[p]]
               ELSE open
    /\ seen' = [seen EXCEPT ![c] = {}]
    /\ steady' = [steady EXCEPT ![c] = {}]
    /\ Goto(c, "head")
    /\ UNCHANGED <<row, profile, stranded, serverVars, conn, lines, cur, has>>

M_Sweep_NobodyNothing(c) ==
    /\ watch[c] = "sweep"
    /\ open' = IF conn[c] /\ seen[c] # {}
               THEN [p \in Profiles |-> IF p \in Of(c) \ seen[c] THEN 0 ELSE open[p]]
               ELSE open
    /\ seen' = [seen EXCEPT ![c] = {}]
    /\ steady' = [steady EXCEPT ![c] = {}]
    /\ Goto(c, "head")
    /\ UNCHANGED <<row, profile, stranded, serverVars, conn, lines, cur, has>>

\* UPDATE ... WHERE config_id = c AND disconnected_at IS NULL, but for the
\* profiles in online_profiles.
Sweep(c) ==
    /\ watch[c] = "sweep"
    /\ open' = IF conn[c]
               THEN [p \in Profiles |-> IF p \in Of(c) \ seen[c] THEN 0 ELSE open[p]]
               ELSE open
    /\ seen' = [seen EXCEPT ![c] = {}]
    /\ steady' = [steady EXCEPT ![c] = {}]
    /\ Goto(c, "head")
    /\ UNCHANGED <<row, profile, stranded, serverVars, conn, lines, cur, has>>

\* The flag has been cleared or the process is gone: the thread ends, and sweeps
\* nothing.
Leave(c) ==
    /\ watch[c] = "head" /\ ~server[c]
    /\ Goto(c, "off")
    /\ conn' = [conn EXCEPT ![c] = FALSE]
    /\ UNCHANGED <<tableVars, serverVars, cycleVars>>

-----------------------------------------------------------------------------
(* Everybody else.                                                          *)

\* apply_config; the monitor may fail to start or to reach the database.
Start(c) ==
    /\ row[c] /\ ~server[c] /\ watch[c] = "off"
    /\ server' = [server EXCEPT ![c] = TRUE]
    /\ \E up \in BOOLEAN :
         /\ conn' = [conn EXCEPT ![c] = up]
         /\ Goto(c, IF up THEN "head" ELSE "off")
    /\ UNCHANGED <<tableVars, on, cycleVars>>

\* stop_config, or the end of the server by itself.
Stop(c) ==
    /\ server[c]
    /\ server' = [server EXCEPT ![c] = FALSE]
    /\ on' = on \ Of(c)
    /\ steady' = [steady EXCEPT ![c] = {}]
    /\ UNCHANGED <<tableVars, watch, conn, lines, cur, has, seen>>

\* The monitor's connection breaks; nothing ever resets it.
ConnLost(c) ==
    /\ conn[c]
    /\ conn' = [conn EXCEPT ![c] = FALSE]
    /\ UNCHANGED <<tableVars, serverVars, watch, cycleVars>>

\* gen_client_cert; issuing again keeps the row.
Issue(p) ==
    /\ row[ConfigOf[p]] /\ profile[p] = "none"
    /\ profile' = [profile EXCEPT ![p] = "kept"]
    /\ UNCHANGED <<row, open, stranded, serverVars, watch, conn, cycleVars>>

\* delete_config: profiles go with the row, config_id and client_profile_id of
\* their sessions become NULL; server and monitor stay.
WebDelete(c) ==
    /\ row[c]
    /\ row' = [row EXCEPT ![c] = FALSE]
    /\ profile' = [p \in Profiles |->
                     IF p \in Of(c) /\ profile[p] = "kept" THEN "gone" ELSE profile[p]]
    /\ stranded' = stranded \union {p \in Of(c) : open[p] > 0}
    /\ open' = [p \in Profiles |-> IF p \in Of(c) THEN 0 ELSE open[p]]
    /\ UNCHANGED <<serverVars, watch, conn, cycleVars>>

\* A certificate outlives its profile's row.
Connect(p) ==
    /\ server[ConfigOf[p]] /\ profile[p] # "none" /\ p \notin on
    /\ on' = on \union {p}
    /\ UNCHANGED <<tableVars, server, watch, conn, cycleVars>>

\* The client leaves, or kick_client makes the server drop it.
Disconnect(p) ==
    /\ p \in on
    /\ on' = on \ {p}
    /\ steady' = [steady EXCEPT ![ConfigOf[p]] = @ \ {p}]
    /\ UNCHANGED <<tableVars, server, watch, conn, lines, cur, has, seen>>

-----------------------------------------------------------------------------
Work(c) == (\E p \in Profiles : Look(c, p)) \/ Find(c) \/ Write(c) \/ Sweep(c)

Next ==
    \/ \E c \in Configs :
         Poll(c) \/ PollCut(c) \/ Work(c) \/ Leave(c)
           \/ Start(c) \/ Stop(c) \/ ConnLost(c) \/ WebDelete(c)
    \/ \E p \in Profiles : Issue(p) \/ Connect(p) \/ Disconnect(p)

(***************************************************************************)
(* Monitor threads are scheduled, and a live server that is asked for its   *)
(* status answers.                                                          *)
(***************************************************************************)
Fairness == \A c \in Configs : WF_vars(Poll(c)) /\ WF_vars(Work(c))

Spec == Init /\ [][Next]_vars
FairSpec == Spec /\ Fairness
-----------------------------------------------------------------------------
\* A profile never has two open sessions, though looking for one and inserting
\* one are two statements.
OneOpenSession == \A p \in Profiles : open[p] <= 1

\* Only a reply cut short closes the session of a client that is there: one
\* that a complete reply showed and that has stayed keeps its open session.
ClosedOnlyIfAway ==
    [][\A p \in Profiles :
         open[p] > 0 /\ open'[p] = 0 /\ p \in steady[ConfigOf[p]] => p \in stranded']_vars

(* What the session table promises of its clients, and how it keeps it. *)

\* Connected, or on a reply that is still being worked off.
Due == {p \in Profiles : p \in on \/ p \in lines[ConfigOf[p]] \/ cur[ConfigOf[p]] = p}
Sure == {p \in Profiles : p \in steady[ConfigOf[p]]}

Presented == INSTANCE Presence WITH here <- on, due <- Due, sure <- Sure, sessions <- open

\* The monitors implement Presence: a session is opened only for a client that came,
\* whose profile exists and has no open one; sessions are closed one configuration at
\* a time, and never that of a client shown to be there that has not left.
PresenceKept == Presented!Spec

(* Liveness. *)

Watched(c) == watch[c] # "off" /\ conn[c] /\ server[c]

\* The session of a client that has left is closed, as long as its
\* configuration is watched.
LeftIsClosed ==
    \A p \in Profiles :
        (open[p] > 0 /\ p \notin on)
            ~> (open[p] = 0 \/ p \in on \/ ~Watched(ConfigOf[p]))

\* A client that stays connected gets an open session, as long as its
\* configuration is watched, keeps its row and has no more clients than fit.
ConnectedIsListed ==
    \A p \in Profiles :
        p \in on ~> \/ open[p] > 0 \/ p \notin on
                    \/ ~Watched(ConfigOf[p]) \/ profile[p] # "kept"
                    \/ Cardinality(On(ConfigOf[p])) > Room

=============================================================================
