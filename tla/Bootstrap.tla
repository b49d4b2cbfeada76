------------------------------ MODULE Bootstrap ------------------------------
(***************************************************************************)
(* What a start of the core does before it serves: it reads core.yaml,      *)
(* takes or draws the encryption key, connects to PostgreSQL and, when the  *)
(* tables are not there, runs schema.sql in a transaction, creates the role *)
(* vpn_web, writes its password to web-db-auth and clears the password in   *)
(* core.yaml.  systemd starts it again after every exit; it may be killed   *)
(* between any two steps, and the database may refuse a statement.          *)
(*                                                                         *)
(* Sources: master/main.c, master/database.c, master/config.c, schema.sql,  *)
(* packaging/services/vpn-core.service, packaging/scripts/install.sh.  A    *)
(* file is what its reader can make of it, a script what it leaves behind.  *)
(***************************************************************************)
EXTENDS Naturals

CONSTANTS
    Keys,        \* encryption keys
    Passwords,   \* passwords of the role vpn_web
    Given,       \* the password an administrator gives the role
    None,        \* no file, no role, no key
    Empty,       \* a file that was truncated and not written
    MaxFaults    \* bound: kills and refusals in a behaviour

ASSUME GivenAssumption == Given \in Passwords
ASSUME NoneAssumption == {None, Empty} \intersect (Keys \union Passwords) = {} /\ None # Empty
ASSUME FaultsAssumption == MaxFaults \in Nat

VARIABLES
    pc,        \* the place of the process, "down" without one
    core,      \* core.yaml: "full", Empty, or "cleared" of its password
    conf,      \* encryption_key of core.yaml, None when it is not set
    auth,      \* web-db-auth: the password it carries
    role,      \* the password of the role vpn_web
    db,        \* what is committed of schema.sql: "tables", "rights"
    pending,   \* what the open transaction adds
    key,       \* g_config.encryption_key of the process
    drawn,     \* web_password, a local of init_web_user
    sealed,    \* the keys that private keys in the database are encrypted with
    blind,     \* history: this process could not ask whether the tables are there
    faults     \* kills and refusals so far

files == <<core, auth>>
base == <<role, db, pending, sealed>>
process == <<pc, key, drawn, blind>>
vars == <<process, files, base, conf, faults>>

Whole == {"tables", "rights"}
ScriptPC == {"script", "grants", "commit"}
UserPC == {"user", "auth", "authwrite", "clear", "clearwrite"}
BootPC == {"parse", "connect", "check", "begin"} \union ScriptPC \union UserPC
Running == pc # "down"

\* Every variable has its type; only a process in its transaction has work pending.
TypeOK ==
    /\ pc \in {"down", "serving"} \union BootPC
    /\ core \in {"full", "cleared", Empty}
    /\ conf \in Keys \union {None}
    /\ auth \in Passwords \union {None, Empty}
    /\ role \in Passwords \union {None}
    /\ db \subseteq Whole /\ pending \subseteq Whole
    /\ pending # {} => pc \in ScriptPC
    /\ key \in Keys \union {None} /\ drawn \in Passwords \union {None}
    /\ sealed \subseteq Keys /\ blind \in BOOLEAN /\ faults \in Nat

\* An installation: install.sh wrote core.yaml and may have written web-db-auth, an
\* administrator may have created the role, and `vpn-manager init` may have run the
\* script with psql, whose grants fail one by one without the role.
Init ==
    /\ pc = "down" /\ core = "full"
    /\ conf \in Keys \union {None}
    /\ auth \in {None, Given} /\ role \in {None, Given}
    /\ \/ db = {}
       \/ db = IF role = None THEN {"tables"} ELSE Whole
    /\ pending = {} /\ sealed = {}
    /\ key = None /\ drawn = None /\ blind = FALSE
    /\ faults = 0

At(l) == pc = l
Goto(l) == pc' = l
\* A step of the process that touches neither its key nor its password.
Step(from, to) == At(from) /\ Goto(to) /\ UNCHANGED <<key, drawn>>

M_Exit_NoRollback ==
    /\ Goto("down") /\ key' = None /\ drawn' = None /\ blind' = FALSE
    /\ pending' = pending

\* The process ends: its memory is gone and its connection rolled back.
Exit ==
    /\ Goto("down") /\ key' = None /\ drawn' = None /\ blind' = FALSE
    /\ pending' = {}

Fault == faults < MaxFaults /\ faults' = faults + 1

-----------------------------------------------------------------------------
(* The world around the process.                                            *)

\* Restart=always of vpn-core.service.
Start ==
    /\ Step("down", "parse")
    /\ UNCHANGED <<files, base, conf, blind, faults>>

\* A kill, a crash, a power cut.
Kill ==
    /\ Running /\ Fault /\ Exit
    /\ UNCHANGED <<files, role, db, sealed, conf>>

\* SIGTERM to a core that serves: main closes the connection and returns.
Stop ==
    /\ At("serving") /\ Exit
    /\ UNCHANGED <<files, role, db, sealed, conf, faults>>

\* An administrator creates the role.
CreateRole ==
    /\ role = None
    /\ role' = Given
    /\ UNCHANGED <<process, files, db, pending, sealed, conf, faults>>

-----------------------------------------------------------------------------
(* main up to check_db_initialized.                                         *)

M_ParseConfig_AlwaysDraws ==
    /\ core = "full"
    /\ At("parse") /\ Goto("connect")
    /\ \E k \in Keys : key' = k
    /\ UNCHANGED <<drawn, files, base, conf, blind, faults>>

\* parse_config finds what it needs, and main draws a key if none is configured.
ParseConfig ==
    /\ core = "full"
    /\ At("parse") /\ Goto("connect")
    /\ \E k \in Keys : key' = IF conf # None THEN conf ELSE k
    /\ UNCHANGED <<drawn, files, base, conf, blind, faults>>

\* An empty file, or an empty password: parse_config returns -1.
ParseFails ==
    /\ At("parse") /\ core # "full" /\ Exit
    /\ UNCHANGED <<files, role, db, sealed, conf, faults>>

ConnectDb ==
    /\ Step("connect", "check")
    /\ UNCHANGED <<files, base, conf, blind, faults>>

M_CheckDb_Inverted ==
    /\ Step("check", IF "tables" \in db THEN "begin" ELSE "serving")
    /\ UNCHANGED <<files, base, conf, blind, faults>>

\* check_db_initialized looks for the table vpn_config alone.
CheckDb ==
    /\ Step("check", IF "tables" \in db THEN "serving" ELSE "begin")
    /\ UNCHANGED <<files, base, conf, blind, faults>>

\* The query fails: -1 is not 0, and main goes on as if the tables were there.
CheckFails ==
    /\ Fault /\ Step("check", "serving")
    /\ blind' = TRUE
    /\ UNCHANGED <<files, base, conf>>

-----------------------------------------------------------------------------
(* init_database: schema.sql between BEGIN and COMMIT.                      *)

Begin ==
    /\ Step("begin", "script")
    /\ UNCHANGED <<files, base, conf, blind, faults>>

M_Tables_NoTransaction ==
    /\ "tables" \notin db
    /\ Step("script", "grants")
    /\ db' = db \union {"tables"}
    /\ UNCHANGED <<files, role, pending, sealed, conf, blind, faults>>

\* The CREATE statements.
Tables ==
    /\ "tables" \notin db
    /\ Step("script", "grants")
    /\ pending' = pending \union {"tables"}
    /\ UNCHANGED <<files, role, db, sealed, conf, blind, faults>>

\* REVOKE and GRANT name the role vpn_web, and fail without it.
Grants ==
    /\ role # None
    /\ Step("grants", "commit")
    /\ pending' = pending \union {"rights"}
    /\ UNCHANGED <<files, role, db, sealed, conf, blind, faults>>

M_ScriptFails_Ignored ==
    /\ pc \in {"script", "grants"}
    /\ At("script") => "tables" \in db
    /\ At("grants") => role = None
    /\ Goto("serving") /\ pending' = {}
    /\ UNCHANGED <<key, drawn, blind, files, role, db, sealed, conf, faults>>

\* The script fails: ROLLBACK, -1, and main exits.
ScriptFails ==
    /\ pc \in {"script", "grants"}
    /\ At("script") => "tables" \in db
    /\ At("grants") => role = None
    /\ Exit
    /\ UNCHANGED <<files, role, db, sealed, conf, faults>>

Commit ==
    /\ Step("commit", "user")
    /\ db' = db \union pending /\ pending' = {}
    /\ UNCHANGED <<files, role, sealed, conf, blind, faults>>

\* The database refuses the connection, a statement or the creation of the role:
\* main exits.
Refuse ==
    /\ pc \in {"connect", "begin", "user"} \union ScriptPC
    /\ Fault /\ Exit
    /\ UNCHANGED <<files, role, db, sealed, conf>>

-----------------------------------------------------------------------------
(* init_web_user and clear_config_password.                                 *)

\* RAND_bytes fails: no role and no file, and main goes on.
NoRandom ==
    /\ Step("user", "serving")
    /\ UNCHANGED <<files, base, conf, blind, faults>>

M_CreateUser_ClearFirst ==
    /\ At("user") /\ Goto("clear")
    /\ \E w \in Passwords \ {Given} :
          drawn' = w /\ role' = IF role = None THEN w ELSE role
    /\ UNCHANGED <<key, blind, files, db, pending, sealed, conf, faults>>

\* CREATE USER and the grants, one implicit transaction.  When the role is there the
\* password drawn is not given to it, yet the function goes on with it.
CreateUser ==
    /\ At("user") /\ Goto("auth")
    /\ \E w \in Passwords \ {Given} :
          drawn' = w /\ role' = IF role = None THEN w ELSE role
    /\ UNCHANGED <<key, blind, files, db, pending, sealed, conf, faults>>

\* The result of a refused CREATE USER is cleared a second time, which is undefined:
\* the process may end there.
ClearedTwice ==
    /\ At("user") /\ role # None /\ Exit
    /\ UNCHANGED <<files, role, db, sealed, conf, faults>>

\* fopen(auth_file, "w").
AuthOpen ==
    /\ Step("auth", "authwrite")
    /\ auth' = Empty
    /\ UNCHANGED <<core, base, conf, blind, faults>>

\* fopen fails: -1, and main exits.
AuthFails ==
    /\ At("auth") /\ Exit
    /\ UNCHANGED <<files, role, db, sealed, conf, faults>>

\* The five lines reach the file at fclose.
AuthWrite ==
    /\ At("authwrite") /\ Goto("clear")
    /\ auth' = drawn /\ drawn' = None
    /\ UNCHANGED <<key, blind, core, base, conf, faults>>

\* core.yaml read into memory, then opened for writing.
ClearOpen ==
    /\ Step("clear", "clearwrite")
    /\ core' = Empty
    /\ UNCHANGED <<auth, base, conf, blind, faults>>

\* It cannot be opened: the failure of clear_config_password is ignored.
ClearFails ==
    /\ Step("clear", "serving")
    /\ UNCHANGED <<files, base, conf, blind, faults>>

\* Every line back, without the password.
ClearWrite ==
    /\ Step("clearwrite", "serving")
    /\ core' = "cleared"
    /\ UNCHANGED <<auth, base, conf, blind, faults>>

\* A core that serves encrypts a private key and stores it.
Seal ==
    /\ At("serving") /\ "tables" \in db
    /\ sealed' = sealed \union {key}
    /\ UNCHANGED <<process, files, role, db, pending, conf, faults>>

-----------------------------------------------------------------------------
Boot ==
    \/ ParseConfig \/ ParseFails \/ ConnectDb \/ CheckDb
    \/ Begin \/ Tables \/ Grants \/ ScriptFails \/ Commit
    \/ NoRandom \/ CreateUser \/ ClearedTwice
    \/ AuthOpen \/ AuthFails \/ AuthWrite
    \/ ClearOpen \/ ClearFails \/ ClearWrite

Next == Start \/ Boot \/ Kill \/ Stop \/ CreateRole \/ CheckFails \/ Refuse \/ Seal

\* systemd starts the core again and the core runs; nobody has to stop it, and nobody
\* has to create the role.
Spec == Init /\ [][Next]_vars /\ WF_vars(Start \/ Boot)

-----------------------------------------------------------------------------
\* The script leaves all of itself or nothing, wherever the process is killed: main
\* takes the table vpn_config for the whole schema and never repairs half of one.
ScriptWhole == [][db' # db => db' = Whole]_vars

\* The password of core.yaml is given up last: by then the tables are committed and
\* web-db-auth carries a password, whenever the process was killed on the way.
PasswordKept == core # "full" => db = Whole /\ auth \in Passwords

\* A core that serves has its tables, unless the database would not say.
ServesInitialised == At("serving") => "tables" \in db \/ blind

\* With a configured encryption key a core that serves can decrypt every private key
\* that any earlier start has stored.
KeysOpen == At("serving") /\ conf # None => sealed \subseteq {key}

\* Once the role exists, a core whose core.yaml is whole comes to serve, however
\* often it was killed or refused before.
StartServes == role # None ~> (At("serving") \/ core # "full")

\* After an exit systemd brings the core back.
ComesBack == (At("down") /\ role # None) ~> At("serving")

=============================================================================
