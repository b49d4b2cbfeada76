------------------------------- MODULE Presence -------------------------------
(***************************************************************************)
(* What the session table promises about the clients of the servers,        *)
(* without management sockets, replies, queries or the order of steps: for  *)
(* whom a session may be opened, whose session may be closed, and by what.  *)
(* Sessions implements it.                                                  *)
(***************************************************************************)
EXTENDS Naturals

CONSTANTS Configs, Profiles, ConfigOf

VARIABLES
    here,      \* clients connected to the server of their configuration
    due,       \* clients a session may still be opened for
    sure,      \* clients whose session may not be closed now
    sessions,  \* number of open sessions of each profile
    profile,   \* vpn_client_profiles: "none", then "kept", then "gone"
    stranded   \* profiles whose open session no longer names its configuration

clientVars == <<here, due, sure>>
rowVars == <<sessions, profile, stranded>>
vars == <<clientVars, rowVars>>

Of(c) == {p \in Profiles : ConfigOf[p] = c}

Init ==
    /\ here = {} /\ due = {} /\ sure = {}
    /\ sessions = [p \in Profiles |-> 0]
    /\ profile = [p \in Profiles |-> "none"] /\ stranded = {}

\* Who is here is due a session; who has left is so at most for a while.
Lapse == \E D \in SUBSET due : due' = here' \union D

Come(p) ==
    /\ p \notin here /\ profile[p] # "none"
    /\ here' = here \union {p} /\ due' = due \union {p}
    /\ UNCHANGED <<sure, rowVars>>

\* One client leaves, or all of a server that ends.
Go(S) ==
    /\ S \subseteq here
    /\ here' = here \ S /\ Lapse
    /\ sure' = sure \ S
    /\ UNCHANGED rowVars

\* Clients are shown to be here: until they leave, or the next closing, they keep
\* their session.
See(S) ==
    /\ S \subseteq here
    /\ sure' = sure \union S
    /\ UNCHANGED <<here, due, rowVars>>

Miss == Lapse /\ UNCHANGED <<here, sure, rowVars>>

\* A session is opened for a client that came, has a profile and has no other.
Open(p) ==
    /\ p \in due /\ profile[p] = "kept" /\ sessions[p] = 0
    /\ sessions' = [sessions EXCEPT ![p] = 1]
    /\ Lapse
    /\ UNCHANGED <<here, sure, profile, stranded>>

\* Sessions are closed one configuration at a time, and no sure client's.
Close(c, S) ==
    /\ S \subseteq Of(c) \ sure
    /\ sessions' = [p \in Profiles |-> IF p \in S THEN 0 ELSE sessions[p]]
    /\ sure' = sure \ Of(c)
    /\ UNCHANGED <<here, due, profile, stranded>>

Issue(p) ==
    /\ profile[p] = "none"
    /\ profile' = [profile EXCEPT ![p] = "kept"]
    /\ UNCHANGED <<clientVars, sessions, stranded>>

\* A configuration is deleted: nobody will ever close its open sessions.
Delete(c) ==
    /\ profile' = [p \in Profiles |->
                     IF p \in Of(c) /\ profile[p] = "kept" THEN "gone" ELSE profile[p]]
    /\ stranded' = stranded \union {p \in Of(c) : sessions[p] > 0}
    /\ sessions' = [p \in Profiles |-> IF p \in Of(c) THEN 0 ELSE sessions[p]]
    /\ UNCHANGED clientVars

Next ==
    \/ \E p \in Profiles : Come(p) \/ Open(p) \/ Issue(p)
    \/ \E S \in SUBSET Profiles :
         Go(S) \/ See(S) \/ \E c \in Configs : Close(c, S)
    \/ \E c \in Configs : Delete(c)
    \/ Miss

Spec == Init /\ [][Next]_vars
=============================================================================
