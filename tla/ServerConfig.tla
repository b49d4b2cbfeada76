----------------------------- MODULE ServerConfig -----------------------------
(***************************************************************************)
(* Configurations on their way to a server: the web pages write a row of    *)
(* vpn_config and then one of vpn_config_tun or vpn_config_tap, each in a   *)
(* transaction of its own, and apply_config writes what it reads there to   *)
(* files that all configurations share (ca.crt, server.crt, server.key,     *)
(* dh.pem) and to the configuration's own, one after the other.             *)
(*                                                                         *)
(* Sources: web/routes/configs.py (add_config, edit_config, delete_config), *)
(* master/openvpn.c (write_cert_file, generate_openvpn_config,              *)
(* generate_tun_config), the UPDATE of handle_sign_server_cert in           *)
(* master/ca_handler.c.  Certificates are known by the signing they come    *)
(* from, the other columns by a version; subnets are in Subnet.             *)
(***************************************************************************)
EXTENDS FiniteSets

CONSTANTS
    Configs,     \* ids of vpn_config, never used again once deleted (SERIAL)
    Requests,    \* web requests that write at once
    Handlers,    \* handler threads of the core that apply at once
    Sets,        \* signings, each making a CA's, a server's certificate and a key
    Pastes,      \* which of the three an administrator may paste into the add page
    Versions,    \* what the other fields of a page can hold
    None,        \* no config, no certificate, no version
    Serialised,  \* TRUE: applies do not overlap, nor does one with a page on its config
    Faults       \* TRUE: the database may refuse a page, processes may be killed

Parts == {"ca", "crt", "key"}

ASSUME PastesAssumption == Pastes \subseteq SUBSET Parts
ASSUME NoneAssumption == None \notin Configs \union Sets \union Versions
ASSUME FlagAssumption == Serialised \in BOOLEAN /\ Faults \in BOOLEAN

VARIABLES
    pc, on, sent,   \* each request: its place, its config, the version of its fields
    at, job, got,   \* each handler: its place, its config, the row it selected
    made,           \* ids given so far
    rows, main,     \* vpn_config: its rows and their version
    nets, net,      \* the rows of vpn_config_tun or _tap and their version
    certs,          \* ca_cert, server_cert and server_key of each row
    cut,            \* history: an add or edit was cut off between its two rows
    file,           \* the certificate files in /etc/openvpn
    dh,             \* dh.pem
    spoiled,        \* history: the generation of dh.pem was cut off or failed
    conf            \* vpn-<id>.conf: the versions of its two parts

webVars == <<pc, on, sent>>
coreVars == <<at, job, got>>
tableVars == <<made, rows, main, nets, net, certs, cut>>
fileVars == <<file, dh, spoiled, conf>>
vars == <<webVars, coreVars, tableVars, fileVars>>

Blank == [x \in Parts |-> None]
Certificates == [Parts -> Sets \union {None}]
Selected == [main : Versions, certs : Certificates]
Generated == [main : Versions, net : Versions \union {None}]

\* Every variable has its type; only rows of vpn_config have one beside them.
TypeOK ==
    /\ pc \in [Requests -> {"idle", "net", "undo", "edit"}]
    /\ on \in [Requests -> Configs \union {None}]
    /\ sent \in [Requests -> Versions \union {None}]
    /\ at \in [Handlers -> {"idle", "dh", "dhgen", "conf", "exec"} \union Parts]
    /\ job \in [Handlers -> Configs \union {None}]
    /\ got \in [Handlers -> Selected \union {None}]
    /\ made \subseteq Configs /\ nets \subseteq rows /\ rows \subseteq made
    /\ main \in [Configs -> Versions \union {None}]
    /\ net \in [Configs -> Versions \union {None}]
    /\ certs \in [Configs -> Certificates]
    /\ cut \subseteq Configs
    /\ file \in Certificates /\ dh \in {"none", "empty", "whole"} /\ spoiled \in BOOLEAN
    /\ conf \in [Configs -> Generated \union {None}]

Init ==
    /\ pc = [r \in Requests |-> "idle"] /\ on = [r \in Requests |-> None]
    /\ sent = [r \in Requests |-> None]
    /\ at = [h \in Handlers |-> "idle"] /\ job = [h \in Handlers |-> None]
    /\ got = [h \in Handlers |-> None]
    /\ made = {} /\ rows = {} /\ nets = {} /\ cut = {}
    /\ main = [c \in Configs |-> None] /\ net = [c \in Configs |-> None]
    /\ certs = [c \in Configs |-> Blank]
    /\ file = Blank /\ dh = "none" /\ spoiled = FALSE
    /\ conf = [c \in Configs |-> None]

Busy(r, c) == pc[r] # "idle" /\ on[r] = c
Untouched(c) == \A r \in Requests : ~Busy(r, c)
Unapplied(c) == \A h \in Handlers : at[h] = "idle" \/ job[h] # c
\* A page may write a config that exists.
MayWrite(c) == Serialised => Untouched(c) /\ Unapplied(c)

Takes(r, l, c, v) ==
    /\ pc' = [pc EXCEPT ![r] = l]
    /\ on' = [on EXCEPT ![r] = c]
    /\ sent' = [sent EXCEPT ![r] = v]
Answers(r) == Takes(r, "idle", None, None)

-----------------------------------------------------------------------------
(* The pages, a statement at a time.                                        *)

\* add_config: INSERT INTO vpn_config, after a name that nobody had.
AddRow(r, c, v) ==
    /\ pc[r] = "idle" /\ c \notin made
    /\ Takes(r, "net", c, v)
    /\ made' = made \union {c} /\ rows' = rows \union {c}
    /\ main' = [main EXCEPT ![c] = v]
    /\ \E s \in Sets, X \in Pastes :
          certs' = [certs EXCEPT ![c] = [x \in Parts |-> IF x \in X THEN s ELSE None]]
    /\ UNCHANGED <<coreVars, nets, net, cut, fileVars>>

\* INSERT INTO vpn_config_tun or _tap.  It violates the foreign key when the config
\* was deleted meanwhile: AddRefused.
AddNet(r) ==
    /\ pc[r] = "net" /\ on[r] \in rows
    /\ nets' = nets \union {on[r]}
    /\ net' = [net EXCEPT ![on[r]] = sent[r]]
    /\ Answers(r)
    /\ UNCHANGED <<coreVars, made, rows, main, certs, cut, fileVars>>

M_AddRefused_NoUndo(r) ==
    /\ pc[r] = "net"
    /\ Answers(r)
    /\ UNCHANGED <<coreVars, tableVars, fileVars>>

\* A field is missing or malformed, or the INSERT is refused.
AddRefused(r) ==
    /\ pc[r] = "net"
    /\ pc' = [pc EXCEPT ![r] = "undo"]
    /\ UNCHANGED <<on, sent, coreVars, tableVars, fileVars>>

M_Drop_NoCascade(c) ==
    /\ rows' = rows \ {c} /\ cut' = cut \ {c}
    /\ main' = [main EXCEPT ![c] = None]
    /\ certs' = [certs EXCEPT ![c] = Blank]
    /\ UNCHANGED <<made, nets, net>>

\* DELETE FROM vpn_config: the rows beside it go with it.
Drop(c) ==
    /\ rows' = rows \ {c} /\ nets' = nets \ {c} /\ cut' = cut \ {c}
    /\ main' = [main EXCEPT ![c] = None]
    /\ net' = [net EXCEPT ![c] = None]
    /\ certs' = [certs EXCEPT ![c] = Blank]
    /\ UNCHANGED made

AddUndo(r) ==
    /\ pc[r] = "undo"
    /\ Drop(on[r])
    /\ Answers(r)
    /\ UNCHANGED <<coreVars, fileVars>>

\* edit_config: UPDATE vpn_config, before the rest of the form is looked at.
EditRow(r, c, v) ==
    /\ pc[r] = "idle" /\ c \in rows /\ MayWrite(c)
    /\ Takes(r, "edit", c, v)
    /\ main' = [main EXCEPT ![c] = v]
    /\ UNCHANGED <<coreVars, made, rows, nets, net, certs, cut, fileVars>>

\* UPDATE vpn_config_tun or _tap; without a row it changes nothing and answers ok.
EditNet(r) ==
    /\ pc[r] = "edit"
    /\ IF on[r] \in nets
       THEN net' = [net EXCEPT ![on[r]] = sent[r]] /\ cut' = cut \ {on[r]}
       ELSE UNCHANGED <<net, cut>>
    /\ Answers(r)
    /\ UNCHANGED <<coreVars, made, rows, main, nets, certs, fileVars>>

\* The subnet is malformed or refused: an error is answered, and vpn_config stays as
\* it was written.
EditRefused(r) ==
    /\ pc[r] = "edit"
    /\ cut' = cut \union ({on[r]} \intersect rows)
    /\ Answers(r)
    /\ UNCHANGED <<coreVars, made, rows, main, nets, net, certs, fileVars>>

\* The web process is killed, or the database is lost to it, DELETE included.
KillWeb(r) ==
    /\ Faults /\ pc[r] # "idle"
    /\ cut' = cut \union ({on[r]} \intersect rows)
    /\ Answers(r)
    /\ UNCHANGED <<coreVars, made, rows, main, nets, net, certs, fileVars>>

\* delete_config.
Delete(c) ==
    /\ c \in rows /\ MayWrite(c)
    /\ Drop(c)
    /\ UNCHANGED <<webVars, coreVars, fileVars>>

\* handle_sign_server_cert stores the three columns in one UPDATE.
Sign(c, s) ==
    /\ c \in rows
    /\ certs' = [certs EXCEPT ![c] = [x \in Parts |-> s]]
    /\ UNCHANGED <<webVars, coreVars, made, rows, main, nets, net, cut, fileVars>>

-----------------------------------------------------------------------------
(* generate_openvpn_config.                                                 *)

Goto(h, l) == at' = [at EXCEPT ![h] = l]
Finish(h) ==
    /\ Goto(h, "idle")
    /\ job' = [job EXCEPT ![h] = None] /\ got' = [got EXCEPT ![h] = None]

\* One SELECT reads the row; without one apply_config answers an error and is done.
Select(h, c) ==
    /\ at[h] = "idle" /\ c \in rows
    /\ Serialised => Untouched(c) /\ \A g \in Handlers : at[g] = "idle"
    /\ Goto(h, "ca")
    /\ job' = [job EXCEPT ![h] = c]
    /\ got' = [got EXCEPT ![h] = [main |-> main[c], certs |-> certs[c]]]
    /\ UNCHANGED <<webVars, tableVars, fileVars>>

Then == [ca |-> "crt", crt |-> "key", key |-> "dh"]

M_WriteCert_Reread(h) ==
    /\ at[h] \in Parts
    /\ file' = IF certs[job[h]][at[h]] = None THEN file
               ELSE [file EXCEPT ![at[h]] = certs[job[h]][at[h]]]
    /\ Goto(h, Then[at[h]])
    /\ UNCHANGED <<webVars, job, got, tableVars, dh, spoiled, conf>>

\* write_cert_file returns at once for an empty column: what an earlier apply, of this
\* or of another configuration, has left in the file stays there.
WriteCert(h) ==
    /\ at[h] \in Parts
    /\ file' = IF got[h].certs[at[h]] = None THEN file
               ELSE [file EXCEPT ![at[h]] = got[h].certs[at[h]]]
    /\ Goto(h, Then[at[h]])
    /\ UNCHANGED <<webVars, job, got, tableVars, dh, spoiled, conf>>

M_LookDh_Touches(h) ==
    /\ at[h] = "dh"
    /\ dh' = IF dh = "none" THEN "empty" ELSE dh
    /\ Goto(h, "conf")
    /\ UNCHANGED <<webVars, job, got, tableVars, file, spoiled, conf>>

\* access(dh.pem, F_OK); fopen(dh.pem, "w") makes it, empty.
LookDh(h) ==
    /\ at[h] = "dh"
    /\ IF dh = "none" THEN dh' = "empty" /\ Goto(h, "dhgen")
                      ELSE UNCHANGED dh /\ Goto(h, "conf")
    /\ UNCHANGED <<webVars, job, got, tableVars, file, spoiled, conf>>

MakeDh(h) ==
    /\ at[h] = "dhgen"
    /\ dh' = "whole"
    /\ Goto(h, "conf")
    /\ UNCHANGED <<webVars, job, got, tableVars, file, spoiled, conf>>

\* The generation or the writing fails: -1, and the empty file stays.
MakeDhFails(h) ==
    /\ Faults /\ at[h] = "dhgen"
    /\ spoiled' = TRUE
    /\ Finish(h)
    /\ UNCHANGED <<webVars, tableVars, file, dh, conf>>

M_WriteConf_KeepsOld(h) ==
    /\ at[h] = "conf"
    /\ conf' = IF conf[job[h]] # None THEN conf
               ELSE [conf EXCEPT ![job[h]] = [main |-> got[h].main, net |-> net[job[h]]]]
    /\ Goto(h, "exec")
    /\ UNCHANGED <<webVars, job, got, tableVars, file, dh, spoiled>>

\* vpn-<id>.conf from the row selected before and from vpn_config_tun or _tap as it is
\* now; without a row there the file is written without its network.
WriteConf(h) ==
    /\ at[h] = "conf"
    /\ conf' = [conf EXCEPT ![job[h]] = [main |-> got[h].main, net |-> net[job[h]]]]
    /\ Goto(h, "exec")
    /\ UNCHANGED <<webVars, job, got, tableVars, file, dh, spoiled>>

\* The server that was forked has read its files.
Exec(h) ==
    /\ at[h] = "exec"
    /\ Finish(h)
    /\ UNCHANGED <<webVars, tableVars, fileVars>>

\* The core is killed with all its threads.
KillCore ==
    /\ Faults /\ \E h \in Handlers : at[h] # "idle"
    /\ at' = [h \in Handlers |-> "idle"] /\ job' = [h \in Handlers |-> None]
    /\ got' = [h \in Handlers |-> None]
    /\ spoiled' = (spoiled \/ \E h \in Handlers : at[h] = "dhgen")
    /\ UNCHANGED <<webVars, tableVars, file, dh, conf>>

Web(r) ==
    \/ \E c \in Configs, v \in Versions : AddRow(r, c, v) \/ EditRow(r, c, v)
    \/ AddNet(r) \/ AddRefused(r) \/ AddUndo(r)
    \/ EditNet(r) \/ EditRefused(r) \/ KillWeb(r)

Apply(h) ==
    \/ \E c \in Configs : Select(h, c)
    \/ WriteCert(h) \/ LookDh(h) \/ MakeDh(h) \/ MakeDhFails(h)
    \/ WriteConf(h) \/ Exec(h)

Next ==
    \/ \E r \in Requests : Web(r)
    \/ \E h \in Handlers : Apply(h)
    \/ \E c \in Configs : Delete(c) \/ \E s \in Sets : Sign(c, s)
    \/ KillCore

Spec == Init /\ [][Next]_vars

-----------------------------------------------------------------------------
\* While a server that was started reads its files, each certificate file holds what
\* the configuration's row held when apply_config read it, unless the row held nothing;
\* the three come from one signing if the row's did.
OwnCertificates ==
    \A h \in Handlers, x \in Parts :
       at[h] = "exec" /\ got[h].certs[x] # None => file[x] = got[h].certs[x]

\* The server's own file says what the two tables say, network included.
FileSaysRow ==
    \A h \in Handlers : at[h] = "exec" =>
       conf[job[h]] = [main |-> main[job[h]], net |-> net[job[h]]]

\* The two rows of a configuration are there together and were written by one form,
\* unless a page is at work on it or was cut off between them.
RowsTogether ==
    \A c \in rows :
       \/ c \in nets /\ main[c] = net[c]
       \/ c \in cut
       \/ ~Untouched(c)

\* A server is started with an empty dh.pem only after a generation of it was cut
\* off or failed.
DhComplete ==
    \A h \in Handlers : at[h] = "exec" => dh = "whole" \/ (dh = "empty" /\ spoiled)
=============================================================================
