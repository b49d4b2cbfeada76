--------------------------------- MODULE Pki ---------------------------------
(***************************************************************************)
(* Certificate authorities, server certificates and client certificates:    *)
(* what the handlers of ca_handler.c and client_handler.c read and write in *)
(* vpn_ca, vpn_config, vpn_users, vpn_client_profiles and vpn_revoked_certs,*)
(* one SQL statement at a time, while several requests are in progress.     *)
(*                                                                         *)
(* Sources: master/ca_handler.c, master/client_handler.c, schema.sql,       *)
(* web/routes/configs.py (delete_config).  What a certificate contains is   *)
(* left out: it is known by its serial number, a CA by its fingerprint.     *)
(***************************************************************************)
EXTENDS FiniteSets

CONSTANTS
    Handlers,    \* handler threads that may be busy at once
    CAs,         \* fingerprints of certificate authorities
    Configs,     \* ids of vpn_config, never used again once deleted
    Profiles,    \* pairs of a user and a config, the key of vpn_client_profiles
    ConfigOf,    \* the config of each
    Certs,       \* serial numbers of client certificates
    None,        \* no CA, no certificate
    CaAlone,     \* TRUE: requests that sign with a CA and that delete one do not overlap
    DbFail       \* TRUE: the database may refuse a statement

ASSUME ConfigOfAssumption == ConfigOf \in [Profiles -> Configs]
ASSUME NoneAssumption == None \notin CAs \union Certs
ASSUME FlagAssumption == CaAlone \in BOOLEAN /\ DbFail \in BOOLEAN

VARIABLES
    pc, on, pick, sub,  \* each handler: its place, its config or profile, the CA
                        \* and the client certificate it holds a copy of
    store,     \* CAs with a row in vpn_ca
    made,      \* CAs generated so far
    blind,     \* history: a CA was deleted though the database refused to say
               \* whether a config uses it
    row,       \* configs with a row
    caOf,      \* vpn_config.ca_fingerprint, the CA of its server certificate
    users,     \* profiles whose user has a row in vpn_users
    cert,      \* vpn_client_profiles.client_cert, None without a row
    revoked,   \* vpn_client_profiles.revoked
    listed     \* vpn_revoked_certs: profile and serial number

localVars == <<pc, on, pick, sub>>
caVars == <<store, made, blind>>
configVars == <<row, caOf>>
clientVars == <<users, cert, revoked, listed>>
vars == <<localVars, caVars, configVars, clientVars>>

SignPC == {"signwrite"}
DeletePC == {"delcheck", "delrow"}
GenPC == {"genkey", "genuser", "genwrite"}
RevokePC == {"revlist", "revflag"}

Has(p) == cert[p] # None

\* Every variable has its type; a deleted config has no CA and no profiles, and a
\* revocation goes with its profile.
TypeOK ==
    /\ pc \in [Handlers -> {"idle"} \union SignPC \union DeletePC \union GenPC \union RevokePC]
    /\ on \in [Handlers -> Configs \union Profiles \union {None}]
    /\ pick \in [Handlers -> CAs \union {None}]
    /\ sub \in [Handlers -> Certs \union {None}]
    /\ made \subseteq CAs /\ store \subseteq made /\ blind \in BOOLEAN
    /\ row \subseteq Configs /\ caOf \in [Configs -> CAs \union {None}]
    /\ users \subseteq Profiles
    /\ cert \in [Profiles -> Certs \union {None}]
    /\ revoked \in [Profiles -> BOOLEAN]
    /\ listed \subseteq Profiles \X Certs
    /\ \A c \in Configs \ row : caOf[c] = None
    /\ \A p \in Profiles : Has(p) => ConfigOf[p] \in row /\ p \in users
    /\ \A e \in listed : Has(e[1])

Init ==
    /\ pc = [h \in Handlers |-> "idle"] /\ on = [h \in Handlers |-> None]
    /\ pick = [h \in Handlers |-> None] /\ sub = [h \in Handlers |-> None]
    /\ store = {} /\ made = {} /\ blind = FALSE
    /\ row = Configs /\ caOf = [c \in Configs |-> None]
    /\ users = {} /\ cert = [p \in Profiles |-> None]
    /\ revoked = [p \in Profiles |-> FALSE] /\ listed = {}

At(h, l) == pc[h] = l
Goto(h, l) == pc' = [pc EXCEPT ![h] = l]
\* A handler answers and forgets its locals.
Answer(h) ==
    /\ Goto(h, "idle")
    /\ on' = [on EXCEPT ![h] = None]
    /\ pick' = [pick EXCEPT ![h] = None]
    /\ sub' = [sub EXCEPT ![h] = None]

\* Any step of a request may end it with an error: a key that cannot be decrypted,
\* a refused statement.  A statement that is carried out but whose answer is lost
\* is that statement's action followed by this one.
Fail(h) ==
    /\ DbFail /\ ~At(h, "idle")
    /\ Answer(h)
    /\ UNCHANGED <<caVars, configVars, clientVars>>

Alone(h) == CaAlone => \A g \in Handlers \ {h} : pc[g] \notin SignPC \union DeletePC

-----------------------------------------------------------------------------
(* generate_ca_cert, sign_server_cert and delete_ca_cert.                   *)

\* The only statement is the INSERT; ids are serial, so none ever conflicts.
GenerateCa(a) ==
    /\ a \notin made
    /\ store' = store \union {a}
    /\ made' = made \union {a}
    /\ UNCHANGED <<localVars, blind, configVars, clientVars>>

\* SELECT of the CA with the given id, or of the latest without one.
SignRead(h, c, a) ==
    /\ At(h, "idle") /\ Alone(h)
    /\ a \in store
    /\ Goto(h, "signwrite")
    /\ on' = [on EXCEPT ![h] = c]
    /\ pick' = [pick EXCEPT ![h] = a]
    /\ UNCHANGED <<sub, caVars, configVars, clientVars>>

M_SignWrite_Upsert(h) ==
    /\ At(h, "signwrite")
    /\ caOf' = [caOf EXCEPT ![on[h]] = pick[h]]
    /\ Answer(h)
    /\ UNCHANGED <<caVars, row, clientVars>>

\* One UPDATE of the config's CA and server certificate; without a row it
\* changes nothing and is answered ok.
SignWrite(h) ==
    /\ At(h, "signwrite")
    /\ caOf' = [c \in Configs |-> IF c = on[h] /\ c \in row THEN pick[h] ELSE caOf[c]]
    /\ Answer(h)
    /\ UNCHANGED <<caVars, row, clientVars>>

DeleteRead(h, a) ==
    /\ At(h, "idle") /\ Alone(h)
    /\ a \in store
    /\ Goto(h, "delcheck")
    /\ pick' = [pick EXCEPT ![h] = a]
    /\ UNCHANGED <<on, sub, caVars, configVars, clientVars>>

M_DeleteCheck_None(h) ==
    /\ At(h, "delcheck")
    /\ Goto(h, "delrow") /\ UNCHANGED <<on, pick, sub>>
    /\ UNCHANGED <<caVars, configVars, clientVars>>

\* SELECT of a config with this fingerprint; a refused SELECT counts as none.
DeleteCheck(h) ==
    /\ At(h, "delcheck")
    /\ \/ /\ \E c \in row : caOf[c] = pick[h]
          /\ Answer(h) /\ UNCHANGED blind
       \/ /\ \A c \in row : caOf[c] # pick[h]
          /\ Goto(h, "delrow") /\ UNCHANGED <<on, pick, sub, blind>>
       \/ /\ DbFail
          /\ Goto(h, "delrow") /\ UNCHANGED <<on, pick, sub>>
          /\ blind' = TRUE
    /\ UNCHANGED <<store, made, configVars, clientVars>>

DeleteRow(h) ==
    /\ At(h, "delrow")
    /\ store' = store \ {pick[h]}
    /\ Answer(h)
    /\ UNCHANGED <<made, blind, configVars, clientVars>>

-----------------------------------------------------------------------------
(* gen_client_cert and revoke_client_cert.                                  *)

GenRead(h, p) ==
    /\ At(h, "idle")
    /\ ConfigOf[p] \in row /\ caOf[ConfigOf[p]] # None
    /\ Goto(h, "genkey")
    /\ on' = [on EXCEPT ![h] = p]
    /\ pick' = [pick EXCEPT ![h] = caOf[ConfigOf[p]]]
    /\ UNCHANGED <<sub, caVars, configVars, clientVars>>

\* SELECT of the CA's key by the fingerprint read before; then it signs.
GenKey(h, s) ==
    /\ At(h, "genkey")
    /\ \A p \in Profiles : cert[p] # s
    /\ \A g \in Handlers : sub[g] # s
    /\ \A e \in listed : e[2] # s
    /\ IF pick[h] \in store
       THEN Goto(h, "genuser") /\ sub' = [sub EXCEPT ![h] = s] /\ UNCHANGED <<on, pick>>
       ELSE Answer(h)
    /\ UNCHANGED <<caVars, configVars, clientVars>>

GenUser(h) ==
    /\ At(h, "genuser")
    /\ users' = users \union {on[h]}
    /\ Goto(h, "genwrite")
    /\ UNCHANGED <<on, pick, sub, caVars, configVars, cert, revoked, listed>>

\* INSERT ... ON CONFLICT DO UPDATE of certificate and key only; the foreign key
\* refuses a config that has gone.
GenWrite(h) ==
    /\ At(h, "genwrite")
    /\ cert' = [p \in Profiles |-> IF p = on[h] /\ ConfigOf[p] \in row THEN sub[h] ELSE cert[p]]
    /\ Answer(h)
    /\ UNCHANGED <<caVars, configVars, users, revoked, listed>>

RevokeRead(h, p) ==
    /\ At(h, "idle") /\ Has(p)
    /\ Goto(h, "revlist")
    /\ on' = [on EXCEPT ![h] = p]
    /\ sub' = [sub EXCEPT ![h] = cert[p]]
    /\ UNCHANGED <<pick, caVars, configVars, clientVars>>

M_RevokeList_Ignored(h) ==
    /\ At(h, "revlist")
    /\ \/ listed' = IF Has(on[h]) THEN listed \union {<<on[h], sub[h]>>} ELSE listed
       \/ DbFail /\ UNCHANGED listed
    /\ Goto(h, "revflag") /\ UNCHANGED <<on, pick, sub>>
    /\ UNCHANGED <<caVars, configVars, users, cert, revoked>>

\* INSERT of the serial number read before, if the profile still exists.
RevokeList(h) ==
    /\ At(h, "revlist")
    /\ IF Has(on[h])
       THEN /\ listed' = listed \union {<<on[h], sub[h]>>}
            /\ Goto(h, "revflag") /\ UNCHANGED <<on, pick, sub>>
       ELSE Answer(h) /\ UNCHANGED listed
    /\ UNCHANGED <<caVars, configVars, users, cert, revoked>>

\* UPDATE of the flag, whose result is not looked at.
RevokeFlag(h) ==
    /\ At(h, "revflag")
    /\ revoked' = [p \in Profiles |-> revoked[p] \/ (p = on[h] /\ Has(p))]
    /\ Answer(h)
    /\ UNCHANGED <<caVars, configVars, users, cert, listed>>

\* delete_config of the web tier: profiles and revocations go with the row.
WebDelete(c) ==
    /\ c \in row
    /\ row' = row \ {c}
    /\ caOf' = [caOf EXCEPT ![c] = None]
    /\ cert' = [p \in Profiles |-> IF ConfigOf[p] = c THEN None ELSE cert[p]]
    /\ revoked' = [p \in Profiles |-> revoked[p] /\ ConfigOf[p] # c]
    /\ listed' = {e \in listed : ConfigOf[e[1]] # c}
    /\ UNCHANGED <<localVars, caVars, users>>

-----------------------------------------------------------------------------
Request(h) ==
    \/ \E c \in Configs, a \in CAs : SignRead(h, c, a)
    \/ \E a \in CAs : DeleteRead(h, a)
    \/ \E p \in Profiles : GenRead(h, p) \/ RevokeRead(h, p)

Step(h) ==
    \/ SignWrite(h) \/ DeleteCheck(h) \/ DeleteRow(h)
    \/ \E s \in Certs : GenKey(h, s)
    \/ GenUser(h) \/ GenWrite(h) \/ RevokeList(h) \/ RevokeFlag(h)
    \/ Fail(h)

Next ==
    \/ \E h \in Handlers : Request(h) \/ Step(h)
    \/ \E a \in CAs : GenerateCa(a)
    \/ \E c \in Configs : WebDelete(c)

Spec == Init /\ [][Next]_vars
-----------------------------------------------------------------------------
\* A CA that a config uses is never deleted, unless the database refuses the
\* reference check (delete_ca_cert then goes on): without the CA's key the config
\* can issue no client certificate any more.
CaInUseKept == blind \/ \A c \in row : caOf[c] # None => caOf[c] \in store

\* A profile is flagged revoked only when one of its certificates is listed as
\* revoked, whatever fails or is issued again in between.
FlaggedIsListed == \A p \in Profiles : revoked[p] => \E s \in Certs : <<p, s>> \in listed

=============================================================================
