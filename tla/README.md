# Verification of OVpn-manager

TLA+ models of OVpn-manager, the daemon (`master/`, C) that runs OpenVPN servers
and the web tier (`web/`, Python) that talks to it over a socket and shares a
PostgreSQL database with it; TLC configurations that check the models on small
instances; and proofs, checked by TLAPS, of what matters most for every instance.
Source paths are relative to `src/`.

## The system

| Part | State it keeps | Operations | What is hard |
|---|---|---|---|
| Server and monitor lifecycle: `master/openvpn.c`, `monitor.c`, `socket_server.c`, `main.c` | OpenVPN child processes, pid files, one `monitor_ctx_t` per configuration, `running_configs[32]`, `vpn_config.status`, the shutdown flag | `apply_config`, `stop_config`, `monitor_thread`, `monitor_stop_all`, signals, restart of the daemon | a detached thread per request without any lock per configuration; pid files that outlive processes; zombies; joins on threads blocked in `recv`; kill -9 and restart |
| Session tracking: `master/monitor.c` (`update_sessions`), `vpn_sessions` | rows of `vpn_sessions`; the monitor's list of who is online | poll of the management socket, SELECT, UPDATE or INSERT per client, a sweep | several statements per client without a transaction; replies cut short; fixed buffers; rows deleted under way; lost connections |
| Certificates: `master/ca_handler.c`, `client_handler.c`, `vpn_ca`, `vpn_client_profiles`, `vpn_revoked_certs` | CAs, the CA of each configuration, profiles with certificate and `revoked` flag, the revocation list | generate, sign, delete a CA; issue and revoke a client certificate | reads, seconds of key generation, then writes; unchecked results; overlapping requests |
| Monitor context table: `get_monitor_ctx` | a `realloc`ed array that running threads point into | lookup or append | pointers that `realloc` invalidates |
| Configurations and server files: `web/routes/configs.py`, `generate_openvpn_config`, `cidr_to_netmask`, `calc_ip_pool` | `vpn_config` and its `_tun` or `_tap` row; `ca.crt`, `server.crt`, `server.key`, `dh.pem`, shared by all configurations, and `vpn-<id>.conf` | add, edit, delete; write the files, then start OpenVPN | two rows written in two transactions; two configurations write the same files; prefix lengths and address pools |
| Web to core calls: `web/core_client.py`, `thread_handler` | one connection per call | one send, one read, one write | 30 s timeout against work that goes on; SIGPIPE; partial reads |
| Database bootstrap: `master/main.c`, `database.c`, `config.c` | schema, role `vpn_web`, `web-db-auth`, `core.yaml`, the encryption key | `parse_config`, `check_db_initialized`, `init_database`, `init_web_user`, `clear_config_password` | crash or refusal between the steps; a start that finds what an earlier one left |
| Web pages, login, configuration files, logging, certificate primitives, packaging, Docker, Kubernetes | - | - | sequential, or text and I/O |

**Interaction.** The web tier sends one JSON request per connection; the daemon's
main thread accepts it and starts a detached handler thread. Handlers share one
database connection (`g_conn`), and fork OpenVPN servers. Each running configuration
has a monitor thread with its own database connection, which asks its server for
`status 2` every three seconds. The web tier reads and writes the same tables
directly, and deletes configurations without telling the daemon.

**What makes each part correct.** Lifecycle: one server and one monitor for a
configuration, a stop that is answered ok has stopped everything, an orderly
shutdown leaves nothing behind and ends, exits are noticed. Sessions: one open
session per client, closed when and only when the client has left. Certificates:
no CA in use is deleted, the revoked flag and the revocation list agree. Server files:
a server starts with the certificates, addresses and parameters of its own
configuration, as the page was given them. Bootstrap: the schema is there whole or not
at all, no password is lost, every stored key can be opened, and the core comes to serve.

`PROJECT.json` lists the parts with what is left out of each, and the hazards of the
code with the properties that cover them.

## Modules

### Lifecycle

One action per step of `stop_openvpn`, `start_openvpn`, `monitor_start`,
`monitor_stop`, `monitor_stop_all`, `monitor_thread`, the accept loop and the two
handlers, interleaved between handler threads, the main thread and monitor threads.

| Model | Code |
|---|---|
| `pc`, `op`, `arg`, `pid`, `thr`, `res` | the place and the locals of each handler, and of the main thread in `monitor_stop_all` |
| `running`, `handle` | `ctx->running`, `ctx->thread` |
| `listed` | `running_configs[0 .. running_count-1]`, at most `MaxRunning` (32) |
| `thread`, `tcfg` | monitor threads: `connect`, `check`, `poll`, `mark`, `exited` |
| `proc`, `pcfg`, `child` | OpenVPN processes: booting, up, zombie, gone; whose child |
| `pidfile`, `status` | `vpn-<id>.pid`; `vpn_config.status`, `"none"` once the row is deleted |
| `core`, `shut`, `snap`, `at` | the daemon, its shutdown flag, the loop of `monitor_stop_all` |

A stop, `StopReadPid`, `StopTerm`, `StopWait`, `MonitorStopTest`, `...Clear`, `...Join`,
`...Unlist`, is shared by its three callers; `AfterStop` says where each goes on.
A refused `kill` answers `stop_config` with an error before `monitor_stop`, and is
ignored by the other two.

Facts of the platform the model takes from outside the code:

- `signal()` restarts `accept` (glibc), so the main thread sees the shutdown flag
  after one more connection (`RequestShutdown`, then `Receive` or `ReceiveOther`).
- A dead child answers `kill(pid, 0)` until somebody waits for it; the only
  `waitpid` is in `start_openvpn` (`StartSettle`). A daemon that ends leaves its
  zombies to init; whether live servers survive it (run by hand, as
  `packaging/CONTRIBUTING.md` has it) or go with its service group is a choice
  (`CoreEnd(left)`).
- OpenVPN writes its pid file within the 500 ms that `start_openvpn` sleeps, and
  within the 5 s systemd waits before a restart (`packaging/services/vpn-core.service`).
  The mutant of `StopOkMeansStopped` shows that the first is needed.
- OpenVPN on SIGTERM dies with or without removing its pid file, at any time up to
  the end of `StopWait`.
- A pid is given out again only when no pid file and no thread remembers it.

`Serialised = TRUE` is the assumption that requests for one configuration do not
overlap, and that a shutdown waits for handlers. The code enforces neither: set it to
FALSE and TLC finds two monitors (`OneMonitor`) and a server that outlives the shutdown
(`ShutdownStopsServers`). `GiveUps = TRUE` lets the web tier, which waits 30 s, hang up
before the reply: the handler's `write` raises SIGPIPE, which the daemon does not ignore
(`Sigpipe`, one of the ways to `CoreEnd`).

### Servers

What Lifecycle promises, without pid files, monitors, locks or the order of steps: the
live servers of each configuration, the requests in progress, the status column. A
server is launched only by an apply in progress and where none lives; a stop is answered,
with ok or an error, only when the server is dead; an apply is answered ok only after its
own launch; a running configuration is marked stopped without a request only when its
server is dead; the end of the daemon forgets requests and may take servers along.
Lifecycle instantiates it (`Promised`) with the mapping `Alive`, `Asked`, `About`, `Phase`
and has `ServersKept` as a property, checked by `lifecycle_progress` and proved.

### Sessions

`update_sessions` for each configuration, one SQL statement per action: `Poll` (or
`PollCut`, a reply ended by the server's death), then for each client `Look`, `Find`,
`Write`, then `Sweep`; `Leave` when the loop ends. `open[p]` counts the rows of a
profile with `disconnected_at` NULL; `seen` is `online_profiles`; `Room` is how many
client lines fit the 16 KB buffer, `MaxOnline` the 256 entries of `online_profiles`.
A `CLIENT_LIST` line takes more than 64 bytes, hence the assumption `Room <= MaxOnline`.
`steady` is a history variable: the clients that a complete reply showed and that have
stayed connected. A configuration has at most one monitor, which is theorem
`MonitorUnique` of Lifecycle. A statement on a working connection is carried out,
except an INSERT whose profile has gone; a client is taken to have a virtual address.

### Presence

What Sessions promises, without sockets, replies, queries or the order of steps: who is
here, who is due a session, who is sure to keep it, and the open sessions. A session is
opened only for a client that came and is not yet worked off (`due`), that has a profile
and no open session; sessions are closed one configuration at a time and never that of a
client shown to be there that has not left (`sure`); only the deletion of a configuration
strands them. Sessions instantiates it (`Presented`): `due` is who is connected, on the
lines still to be worked off, or at hand; `sure` is `steady`; and `PresenceKept` is a
property of `sessions_safety`, and proved.

### Pki

The handlers of `ca_handler.c` and `client_handler.c`, one SQL statement per action,
any number of them in progress. A CA is its fingerprint, a client certificate its
serial number. `Fail` is every error return. Three results the code does not look at
are modelled as such: the reference check of `delete_ca_cert` (a refused SELECT counts
as "not referenced"; history variable `blind`), the UPDATE of `revoked`, and the row
count of the UPDATE in `sign_server_cert`. `CaAlone = TRUE` is the assumption that
signing with a CA and deleting one do not overlap, which the code does not enforce.

### Bootstrap

One start of the core after another, a statement, a file opened (and thereby truncated)
or a file written per action. `core` and `auth` are `core.yaml` and `web-db-auth` as their
reader sees them, `role` the password of `vpn_web`, `db` what is committed of `schema.sql`
and `pending` what the open transaction adds; `key`, `drawn` are locals of the process and
`sealed` the keys with which private keys in the database are encrypted. `Init` is every
installation that `install.sh`, `vpn-manager init` (psql, statement by statement) and an
administrator can leave. `Kill` comes between any two steps; `Start` is systemd's restart.
The GRANTs of `schema.sql` name `vpn_web`, so they are refused (`ScriptFails`) as long as
nobody has created the role, which `init_web_user` would do only afterwards. `blind` is a
history variable: `check_db_initialized` could not ask, and `main` took its -1 for yes.

### Subnet

The way of a mask: what the add and edit pages make of the text (`LeadingOnes`,
`BitLengthForm`), what a `CIDR` and an `INET` column accept and show, and the `server` or
`server-bridge` directive (`Netmask`, `BridgeLine`). An address is the set of the places
where it has a one, so that `&` and `|` are intersection and union and nothing depends on
how wide a word is; `Less` orders addresses as numbers. The width `W`, the width of the
last byte and the pool's two host numbers are constants. `fresh` is a history variable: the directive was generated from this row.

### ServerConfig

The same configurations as rows and files, with several pages and handlers at once. A
page writes `vpn_config` (`AddRow`, `EditRow`) and then `vpn_config_tun` or `_tap`
(`AddNet`, `EditNet`), each in a transaction of its own; a refused second one is undone by
a DELETE (`AddUndo`) on the add page and not at all on the edit page (`EditRefused`). A
handler selects the row (`Select`), writes `ca.crt`, `server.crt`, `server.key` one by one
(`WriteCert`, nothing for an empty column), looks for `dh.pem` and makes it (`LookDh`,
`MakeDh`: opened, then filled), selects the second row into `vpn-<id>.conf` (`WriteConf`)
and starts the server (`Exec`). Certificates are known by the signing they come from, the
other columns by a version. `cut` and `spoiled` are history variables that say where an
operation was cut off. `Serialised = TRUE` is the assumption that applies do not overlap,
nor an apply or a page with another page on its configuration; `FALSE` breaks
`OwnCertificates`, `FileSaysRow` and `DhComplete`, for the shared files are everybody's.

### Composition

Each module holds the whole of its part, with the other actors as actions of its own:
`Sessions` has `Start` and `Stop` in place of Lifecycle's handlers, all three have
`WebDelete`. `ServerConfig` details what Lifecycle's `StartAccess` and `StartLaunch` do in one
step, and `Subnet` what `ServerConfig` calls a version. The `MC` modules give the instances
and symmetry sets; the eight `...Proofs` modules hold the theorems.

## Runs

| Run | Instance | Shows |
|---|---|---|
| `lifecycle_safety` | 2 configurations, 1 handler, 3 processes, 2 threads, list of 1; every failure and kill -9 of the daemon | `TypeOK`, `OneMonitor`, `OneServer`, `StopOkMeansStopped`, `RefusedStopUnwatched`, `JoinReturns`, `StoppedOnlyWhenDead` |
| `lifecycle_shutdown` | 2 configurations, 2 handlers, list of 2, no failing thread or database, no kill | `ListedExactly`, `ShutdownStopsServers`, `ServersWatched` |
| `lifecycle_progress` | 1 configuration, 1 handler, kills, callers that give up; fairness | `ServersKept`, `RequestsEnd`, `ShutdownEnds`, `ExitNoticed` |
| `lifecycle_crash` | fairness | `CrashNoticed` fails |
| `sessions_safety` | 2 configurations, 3 profiles, `Room = MaxOnline = 1` | `TypeOK`, `OneOpenSession`, `ClosedOnlyIfAway`, `PresenceKept` |
| `sessions_liveness` | 1 configuration, 2 profiles, room for both; fairness | `LeftIsClosed`, `ConnectedIsListed` |
| `pki_safety` | 2 handlers, 2 CAs, 2 configurations with a profile each, 2 serial numbers, refused statements | `TypeOK`, `CaInUseKept`, `FlaggedIsListed` |
| `bootstrap_safety` | 2 keys, 2 passwords, up to 3 kills or refusals; fairness | `TypeOK`, `PasswordKept`, `ServesInitialised`, `KeysOpen`, `ScriptWhole`, `StartServes` |
| `bootstrap_restart` | the same without faults | `ComesBack` fails |
| `subnet_safety` | addresses of 4 bits with a last part of 3, pool `{0, 1}` to `{1, 2}` (3 to 6) | `TypeOK`, `AddedAsAsked`, `LineIsNetwork`, `PoolInSubnet` |
| `subnet_edit` | the same | `ServedAsAsked` fails |
| `serverconfig_safety` | 2 configurations, 1 page, 2 handlers, 2 signings, 2 versions; kills and refusals | `TypeOK`, `OwnCertificates`, `FileSaysRow`, `RowsTogether`, `DhComplete` |

**Bounds.** Three processes let a configuration have a crashed one whose pid file
stays, an orphan of an earlier daemon and a new server; two configurations with a list
of one make the list overflow, with a list of two make its swap-removal move an entry.
Two monitor threads are enough for a second monitor of one configuration or one of each
of two. In Sessions two profiles of one configuration and room for one line make every
reply of a full server a partial one, and the third profile belongs to another
configuration whose sweep must not touch the first. In Pki two handlers are enough for
every pair of requests to overlap; two CAs make a configuration change its CA. Bootstrap's
`MaxFaults = 3` allows a kill at one step, a refusal at the next start and another at the
one after; its theorems hold for any number. In Subnet the ones of the two host numbers
lie as those of 100 and 200 do (neither contains the other, both need the last part only);
every mask, prefix and subnet of the width is tried, with four addresses of the server,
networks and hosts. In ServerConfig the
second handler replaces the files the first has written, and two signings tell whose they
are; the ids are never used again, so two are one life of a configuration next to another.
The safety theorems hold for all sizes, so the bounds only limit what is not proved.

`CHECK_DEADLOCK FALSE` in Sessions, Pki and ServerConfig: when every configuration has
been deleted and every client has left, nothing more can happen. Lifecycle and Bootstrap
never stop, for the daemon is always restarted; a Subnet can always be edited.

**Fairness.** Lifecycle: weak fairness of each thread's own steps (they are scheduled;
every sleep and retry ends) and of a booting server's pid file. Not assumed: that a live
server answers its management socket (`recv` has no timeout), that anyone connects, that
anything crashes or does not. Sessions: the monitor's steps, and that a live server
answers `status 2`; no monitor's database connection is assumed to last, the properties
are about monitors that have theirs. Bootstrap: systemd's restart and the steps of the
core (`WF_vars(Start \/ Boot)`); faults are bounded, and that an administrator creates the
role is not assumed, so `StartServes` is about installations that have it.

## What the models say

Three runs show a disagreement of the code with what it says of itself; `PROJECT.json`
quotes the line.

- `lifecycle_crash`: a server that crashes stays a zombie, answers `kill(pid, 0)`, and
  is watched for ever; the design document promises that crashes are detected.
- `bootstrap_restart`: the first start clears the database password in `core.yaml`, and
  `parse_config` refuses the file at every later one.
- `subnet_edit`: the edit page makes 255.255.255.0 a /23. (The add page counts leading
  ones; its other limit is that the `CIDR` column refuses a `server_ip` with host bits.)

The rest shows when an assumption is taken away, or in an action a reader can look up:

- When `monitor_start` fails, `apply_config` answers ok for a server nobody watches
  (Lifecycle, `ThreadFail = TRUE` or `DbFail = TRUE`: `ServersWatched` fails).
- Overlapping `apply_config` requests start two monitors, and a server started by a
  handler in flight outlives the shutdown (Lifecycle, `Serialised = FALSE`).
- `delete_ca_cert` checks references and deletes in two statements; a `sign_server_cert`
  busy with its 4096 bit key stores its reference after the check (Pki, `CaAlone = FALSE`).
- Two overlapping applies start a server with the other one's certificates
  (ServerConfig, `Serialised = FALSE`); with an empty column it starts with whatever file
  is there.
- A monitor leaves without a last sweep, so the sessions of a stopped server stay open
  (Sessions, `Leave`); the schema and the dashboard read them as online.
- Issuing again for a revoked profile keeps `revoked` TRUE for a certificate that is not
  revoked (Pki, `GenWrite`), and the page then offers no way to revoke it.
- Without a role `vpn_web` made by hand the schema's own GRANTs fail and the core never
  comes to serve; with one, `CreateUser` finds it and the new random password in
  `web-db-auth` is not the role's (Bootstrap).
- A malformed subnet on the edit page leaves half of the form stored (ServerConfig,
  `EditRefused`).

## Proofs

All for arbitrary constants, subject to the named assumptions of the modules.

**LifecycleProofs.** `TypeCorrect` needs no assumption on requests. `MonitorUnique`,
`ServerUnique` and `StopsForSure` assume `Serialised`. The invariants are not inductive
as they stand; the strengthening says, of each place a handler can be, what it knows:
that the handler working on a configuration is the only one, that a live server either
has the pid file of its configuration or is the one just forked, that the process about
to be signalled is the configuration's only live one, that `running` and `handle` name
the only thread that watches it, and that a configuration whose stop is through has
neither. Each part is a named conjunct with a lemma that every step keeps it.

**LifecycleStatusProofs.** `RefusedStopSafe` and `StoppedIsDead`, also under
`Serialised`, need more about reaping: no two pid files name one process (`Files`), the
process just forked belongs to its handler alone (`Forked`), a configuration has no flag
from the launch to `monitor_start` (`NotYet`), and the pid file of a flagged
configuration, if it exists, names a child that nobody has reaped (`Known`). So a monitor
that finds no process to signal has found a removed pid file of a dead server, and none
is started before it has left (`Marked`). `WhoMarks` shows that no other step writes
`stopped` over `running`. `ImplementsServers`, also under `Serialised`, maps each action to
one of Servers or to a stutter. What it adds to the invariant: a handler that is idle remembers no request (`Forgotten`), and while a
handler waits for the process it forked no other serves its configuration (`Sole`), so an
apply that fails after its launch leaves no server.

**LifecycleShutdownProofs.** `ListIsExact` assumes besides that `running_configs` has a
place for each of finitely many configurations. `Exact` says that it has no entry twice
and exactly those that should be there; the lemmas about appending an entry and about
moving the last one into a gap are proved for any list, and that there is room follows by
counting (`HasRoom`). `ShutdownIsClean` also assumes that a monitor can always be created
(`~ThreadFail`): then every server of this daemon has its flag set or a handler on the way
to `monitor_start` (`Covered`), so the snapshot names them all (`Snapped`), and the loop
leaves a configuration only when its server is dead (`Halted`, `Swept`). `JoinsReturn`
needs `Serialised` only: past `ctx->running = 0` the flag is clear (`Flags`), so the one
thread that can still watch is the one being joined, and what was signalled before leaves
it no live server to block on (`Cleared` for handlers, `Halted` for the main thread).
`NobodyUnwatched` assumes `~ThreadFail` and `~DbFail` besides: `Covered` sets the flag, and
`Attended` says that the thread in the slot of a flagged configuration is at work as long
as its server lives, for a monitor leaves only without a flag or, by `Marked`, without a
server.

**SessionsProofs.** `SessionTypes` and `SessionUnique` from `Single` (types, one open
session, and that a monitor about to insert has found none: nobody else inserts for its
profiles, and a deletion only ever lowers the count). `ClosedRightly` from `Faithful`,
which adds that a client of a complete reply is still to be worked off, at hand, or in
`online_profiles` as long as it stays, and that the array has room for what is still to
come (`Fits`; this is where `Room <= MaxOnline` is used, with the cardinality theorems).
`ImplementsPresence` maps each action to one of Presence or to a stutter from the same
invariant: a new reply finds no line left over (`Rested`), an INSERT happens for the
client at hand, and what a sweep closes is not sure (`Remembered`, `Backed`).

**PkiProofs.** `PkiTypes` and `FlaggedListed` hold for any overlap and any refused
statements; the invariant `Kept` adds what a handler holds, and that a handler past the
INSERT into the revocation list finds its entry there unless the configuration is gone
(`Listing`). `CaKept` assumes `CaAlone`; `InUse` says that the CA being signed with has
its row and the one about to lose it is not in use.

**BootstrapProofs.** `PasswordIsKept`, `ServesWithTables`, `KeysCanBeOpened` and
`ScriptIsWhole` from one invariant: types, what a process at each place knows of the
database and the files (`Progress`), and that with a configured key every process past
`ParseConfig` has that one and no other was ever used (`OneKey`). None needs a bound on
faults.

**ServerConfigProofs.** `TypeCorrect` needs no assumption. The other four assume
`Serialised`; their invariant says that the one handler at work knows the row as it still
is, and which of the files it has written already hold its certificates (`Wrote`,
`Written`), that a page between its two rows is the only one on its configuration, and
that `dh.pem` is empty only while its handler makes it or after it was cut off (`Dh`).

**SubnetProofs.** For every width, pool and set of typed addresses. `AddIsAsAsked` rests on
`LeadingOnesExact`: on a contiguous mask the count of the add page undoes `Netmask`.
`LinesAreNetworks` needs that a row passed the column (`IsCidr`), whichever page wrote it;
`PoolIsInside` that an address between two of one network is in it. The invariant `IInv`
adds to the types that a row follows from what was asked (`Follows`) and a fresh directive
from its row (`Generated`). `EditIsOneShort` states the defect that `subnet_edit` finds:
at any width the edit page computes b - 1 for every mask of b > 0 ones.

**Model-checked only.** The liveness properties (`RequestsEnd`, `ShutdownEnds`,
`ExitNoticed`, `LeftIsClosed`, `ConnectedIsListed`, `StartServes`), for liveness under
fairness is beyond the prover. Every other property of a passing run is a theorem; those
about overlapping requests, a shutdown or failing threads have the run's flags as
hypotheses, and no bound of a run is one.

## Not modelled

- Process ids used again by unrelated processes; the accumulation of zombies.
- Undefined behaviour: two threads on one libpq connection, and what a thread reads
  through a pointer into `monitors` after `realloc` has moved it. Statements interleave
  whole, and a configuration has one monitor context.
- The text of requests, replies, files and logs; a request longer than one `read`;
  traffic counters; the length of `id_list`.
- A full disk (`fclose` is not looked at anywhere), certificate files that cannot be
  opened, a server key that cannot be decrypted; `ensure_bridge_exists`, tap without a
  pool, the pushed routes and DNS servers.
- Two add pages that pass the test of `config_name` together; `psql` run again after the
  first start.
- Pages that only read, the login, the OpenSSL calls, packaging and deployment.

## What could follow

1. The web tier's retries composed with Lifecycle's requests, in place of the assumption
   that requests for one configuration do not overlap.
2. A daemon that waits for its children (`waitpid` in the monitor), as a variant of
   Lifecycle in which `CrashNoticed` holds.
