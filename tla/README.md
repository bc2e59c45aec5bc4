# data-boar: TLA+ models

data-boar scans databases, files, shares and services for sensitive data and
keeps what it finds in one SQLite file. It runs as a command line that scans
once (`main.py`) and as a dashboard that scans on request (`api/routes.py`);
several of both may share the file. This directory models the parts of it that
are hard to test: who owns a scan session when processes race, die, resume or are
interrupted; which scan a finding belongs to; who may sign in and ask for what;
which scans a license admits and which addresses they dial; what a scan looks into,
and what it says about the rest; how its results leave; and what a configuration
page does to the secrets in the file.

All paths below are relative to the repository root, those without a directory of
their own to `src/`.

## 1. Inventory

### Components that carry the core logic

| Component | State | Operations | Talks to |
|---|---|---|---|
| Session store, `core/database.py` | `scan_sessions` rows (status, pid, host), findings, failures, checkpoints, inventory, object state, notification log, wipe log; `_current_session_id` in memory | create, resume, finish, reap, list, edit, wipe; save finding or failure; checkpoint a table | every process, through SQLite; one transaction per operation |
| Command line, `main.py`, `core/l3_transformed_rows.py`, `host_resolution.py` | its one session; the file that `--l3-persist` writes | one of some twenty modes: scan, `--resume`, `--reset-data`, exports, comparisons, `--web`; Ctrl+C and SIGTERM handlers | engine, store, the server it starts |
| Audit engine, `core/engine.py` | run slot (`_is_running` behind `_run_gate`), `config`, counters | `start_audit`, `_run_audit_targets` (sequential, pool, adaptive), reports | connectors on threads, store, throttler |
| Throttler, `core/throttler.py` | worker count, window of latencies | record a latency, adjust, cool off | the adaptive loop |
| Dashboard, `api/routes.py` | `_audit_engine`, `_config`, cached session list | start scans, list, report, edit, save the configuration | engine; background tasks run scans on threads |
| SQL connectors, `connectors/sql_connector.py` | connection, current table | discover, sample columns, save findings, checkpoint tables | store |
| WebAuthn, `api/webauthn_routes.py`, `core/webauthn_rp/` | pending challenges in memory, credentials in the store | options and verify of registration and authentication, wipe | session cookie, access control |
| Access control and HTML gate, `api/routes.py`, `rbac.py`, `webauthn_html_gate.py` | none; four middlewares | allow, redirect, refuse | configuration, passkeys, roles |
| Host pins and outbound guard, `connectors/tcp_pin.py`, `url_guard.py` | pins per host with reference counts, a replaced `getaddrinfo` | resolve, validate, install, release | connector threads, DNS |
| Licensing, `core/licensing/` | the guard, made once per process | evaluate, tier, connector gate, worker clamp | engine, dashboard, configuration |
| Detection, `core/detector.py`, `scanner.py` | none | patterns, Rust stage, checksum gate, model, penalties, elevations, level | every connector |
| Filesystem connector and archives, `connectors/filesystem_connector.py`, `core/archives.py` | inodes seen, extraction budgets | walk, sample, list and extract members | store, detection |
| Remote connectors, `connectors/*_connector.py` | a client, what is left to look at | connect, list, sample, retry, close | services, store, pins |
| Findings sink, `core/findings_sink.py` | the customer's tables or collections | push a session after its report | store (it sets the current session) |
| Notifications, `utils/notify.py` | sent-session set, send log | filter, dedupe, send and retry from a daemon thread | store, webhooks |
| Configuration editor, `config/redact_config.py`, `api/routes.py` | the file, the tabs that show it | redact, merge, save | licensing and engine (both reset) |

The other components (reports, configuration loader, request limits, sampling plans,
maturity assessment, integrity, the Pro pipeline, deployment) are pure functions,
rendering or straight-line I/O; `PROJECT.json` lists each with the reason it is
left out.

### How they interact, and what is hard

* **Processes share rows.** Opening the store reaps: rows whose owner pid is dead
  are set to `interrupted`. Reaping reads all rows, probes each pid, and only then
  writes. `finish_session` and `reopen_session_for_resume` also read before they
  write. Any process may die between two of these steps.
* **The dashboard shares an engine.** A request claims the run slot, changes the
  engine's `config` in place for the length of its scan and schedules a background
  task; the task releases the slot, finishes the session and then undoes the
  overlays, in that order. Saving the configuration drops the engine.
* **One mutable field names the session** that findings, failures and checkpoints go to.
  A report request changes it when the findings sink is on.
* **A scan fans out** to threads. Targets end in any order, raise, are interrupted
  once or twice, and leave per-table checkpoints that a later run trusts.
* **Threads share `getaddrinfo`.** Each connector validates the addresses of its host and
  pins them in one process-wide table while DNS may change its mind.
* **Ceremonies overlap.** Passkeys are counted, challenges popped and counters compared in
  separate transactions, while the table may be wiped and the server restarted; what
  a page answers depends on the table.
* **Everything a scan reads may fail**, one file, member, page or folder at a time, and
  each connector answers in its own way. A failure without a row is a gap that nobody
  sees.
* **Results leave twice**: pushes overlap and fail half-way, and a daemon thread tells
  channels that time out.
* **The file has several writers**: two tabs, an operator, and secrets that neither shows.
* **Twenty modes share one command line**, each with its own list of what it refuses, and are
  tried one after the other; between looking for a session and reading its rows another
  process may wipe them. One mode writes raw values to a file that others may touch.
* **A gate decides whether the server may listen**, four middlewares what it answers; each
  has its own idea of what a key protects.

Correct means, in short: a live scan keeps its row and its findings; an orphan
does not stay `running`; a terminal status is not overwritten; a slot is held by
one scan; a session's final status tells what became of its targets; a
checkpoint never claims more than was done, and a resumed scan repeats only what
was torn; a passkey goes back to a holder of the key; a client is not sent in
circles; a connection goes to a validated address and a scan runs under a license;
what is not scanned is told; a push that ended well stays; an edit changes no
other secret; exit code 0 means done; raw values lie nowhere unprotected unless that was
allowed; a server that others reach asks for the key. `PROJECT.json` lists the hazards behind these, each at its line, with
the properties that would catch it going wrong, or why none does.

## 2. Modules

| Module | Models |
|---|---|
| `ScanSessions` | a session row across processes: spawn, reap, start, resume, finish, interrupt, wipe, crash |
| `Dashboard` | one server: run slot, overlays, engine replacement, current session, cached list |
| `Throttler` | `BoarThrottler` as operators |
| `ScanRun` | one session's runs: target loop, threads, checkpoints, Ctrl+C, crash, resume; extends `Throttler` |
| `ResumableScan` | what `--resume` promises; `ScanRun` implements it |
| `WebAuthn` | challenges, ceremonies, passkeys, wipes, restarts |
| `PasskeyStore` | what the passkey table promises; `WebAuthn` implements it |
| `Access` | the middlewares: what a request is answered, as operators |
| `SignIn` | `WebAuthn` and `Access` together |
| `HostPins` | guard, pins, `getaddrinfo`, dialling, DNS |
| `Licensing` | the guard's verdict, tiers, caps, as operators |
| `Admission` | a scan from its start to its connections, under `HostPins` and `Licensing` |
| `Detection` | from evidence to a level, as operators |
| `FileScan` | walk, files, archives; extends `Detection` |
| `Delivery` | pushes to the sink, the scan-complete message |
| `Pipeline` | `FileScan` and `Delivery`: a scan and what becomes of it, on a command line or a dashboard |
| `RemoteTarget` | the steps that connectors of remote services share |
| `ApiConnectors`, `StoreConnectors`, `ShareConnectors` | REST, HubSpot, Power BI, Dataverse; MongoDB, Redis, Snowflake; SharePoint, WebDAV, SMB |
| `SqlConnector` | the SQL databases, in the same frame |
| `RemoteScan` | a target with any of the eleven |
| `CommandLine` | `main.py`: what is refused, the mode that runs, its steps, its exit code; extends the next two |
| `L3Export` | `--l3-persist`: the temporary file, the destination, and who else touches them |
| `Listener` | the gate and the transport in front of `--web`, as operators; extends `Access` |
| `RedactConfig` | `config/redact_config.py` as operators |
| `ConfigEditor` | tabs, the file, an operator; extends `RedactConfig` |
| `...Proofs` | the theorems about `ScanSessions`, `Dashboard` (and `ConfigEditor`), `ScanRun` (and `Throttler`), `SignIn` (and `Access`), `Admission`, `Pipeline` (and `Detection`), `RemoteScan`, `CommandLine` (and `L3Export`, `Listener`) |
| `MC...` | instances for TLC |

Three modules look at the same scan from three sides, each with the
other two abstracted: `ScanSessions` takes the run slot for granted (one scan per
process) and a scan as one step; `Dashboard` has one process and a scan as a
sequence of findings; `ScanRun` has one session and all of its threads. `Admission` is
what precedes a target's work, `FileScan` and `RemoteScan` the work on one target,
`Delivery` what follows.

### ScanSessions

A step is one SQLite transaction or one local decision. A process walks

    dead -> boot -> reaping -> ready -> running -> finish -> finishWrite -> report -> dead
                                 |-> resuming ->|      (or cleanup -> cleanupWrite -> dead)

`boot`/`reaping` are `LocalDBManager.__init__` with `reap_orphaned_running_sessions`:
`ReapRead` is the SELECT (`snap`), `ReapSkip` and `ReapUpdate` examine one row each
(`doomed` are the rows its open transaction has set), `ReapCommit` ends the
transaction. `writer` is SQLite's write lock, held from the first UPDATE.
`ResumeRead` and `Reopen` are the two transactions of `--resume`; `FinishRead` and
`FinishWrite` the two halves of `finish_session`, used by the engine's `finally`
(`finish`) and by main's handler of KeyboardInterrupt (`cleanup`). An UPDATE of a
row that a wipe deleted raises, as SQLAlchemy does.

Pids are per host and handed out in order; `ReusePids` lets a host give the pid of a
dead process to a new one. `Legacy` are rows of an old version, with no pid and host.

`contested` and `stranded` are history that only the properties read. A session is
contested when a resume of it overlapped another process: one that was still working on
it, or whose reaper had read its row. The code does nothing about either (see
findings), so the ownership properties are about the other sessions.

### Dashboard

A request handler runs without awaiting between its reads and writes of shared
state, so it is one step. A background task takes `Begin`, any number of
`SaveFinding`, `Release` (`clear_running`), `Finish` (`finish_session`) and
`Restore` (undoing the overlays), in the order of the code's `finally` blocks.
`FinishFails` is a `finish_session` that raises: `/scan` restores all the same,
`/scan_database` does not get there.
`SaveConfig` sets the engine to none and `GetEngine` builds the next one, also
while a task still runs on the last.

Options are abstracted to two: `file_scan` (which `/scan` restores whether or not it
was asked for) and `shared` (jurisdiction hints and `validate_crypto`, which both
endpoints restore only if asked for). The saved configuration has them off: a
request can only turn options on.

`moved`, `strayed`, `unclosed` and `mixed` are history: tasks during which a report moved
the current session; other tasks that saved a finding under another session, or whose
`finish_session` raised; and engines whose overlays met those of another request or
were left behind by a failure.

### ScanRun

`main` is the position of `_run_audit_targets`, `tpc` that of each target's thread.
`Start` submits everything to a pool, or nothing to the sequential and adaptive
loops; `Submit`, `Wait` and `Harvest` are the adaptive loop (with `Adjust` from
`Throttler`), `RunNext` and `LeaveLoop` the sequential one. `GiveUp` is an exception
that the connector records as a failure of the target, `Raise` one that reaches the
loop because recording it failed too. In a pool it makes the session
`completed_errors`; in the sequential loop it leaves the loop and the session ends
as `completed` (`escaped`). `Interrupt` is Ctrl+C: the sequential loop is aborted,
an executor waits for its futures (`drain`) unless Ctrl+C comes again
(`InterruptAgain`, `hasty`), when the threads go on after the session is finished.

A thread discovers the target's tables without the completed ones, marks a table in
progress, samples its columns one by one and marks it completed. `found`, `clean` and
`missed` are what the database knows of each column. A column whose sample fails
is skipped and the table completed all the same.

`ResumableScan` has two variables: the status and the set of completed tables.
`ScanRun` implements it with `done` = the tables whose checkpoint is `completed`
(`KeepsLedger`). The sampling, the threads and the loops are stutters. The abstract
`Complete` is allowed while `interrupted`, because of the threads that nobody waited
for, and not once the session is `completed`, or `completed_errors` before a resume.

### SignIn

`WebAuthn` has a request per client in flight (`flight`), because a verify handler is
suspended while it reads its body; everything between two suspensions is one step, and
`loop` is the handler that holds the event loop across the two transactions of
`authentication_verify`. `pending` are the challenges in memory: popped when answered,
expired by a clock, lost by `Restart`. `Wipe` comes from a command line and empties the
table. `issued`, `won` (ceremonies of each kind completed with a challenge) and `origin` are history. `PasskeyStore` is the table alone: who
registered first needed the key, a passkey's counter only grows, a wipe empties it;
`WebAuthn` implements it with `registered` and `count`.

`Access` has no state. `Answer(cfg, passkey, r)` goes through the middlewares in their
order, with each one's own lists of paths, for a request with a method, a path, a key and a
session, under each configuration of keys, roles and WebAuthn. The routes are
those of `tests/test_api_route_matrix_plan_sync.py`. `SignIn` joins the two: whether a
passkey exists is the one bit of state that the answers depend on, so each of its
properties about answers is a table over that bit, which TLC computes once.

### Admission

`HostPins` has one record per target's thread: what it resolved (`Resolve` lets DNS
answer otherwise at any time), whether it installed, patched, dialled. `install` and
`release` each take the lock twice in the code, once for the table and once for the
patch, and are two steps each. `Carried` targets have clients that bring their addresses along;
the others dial through `getaddrinfo`.

`Licensing` evaluates a world (token, configuration, environment, clock, revocation list)
in the order of `_evaluate`, one operator per group of checks. `Admission` keeps the
verdict as the process does, for its life (`guard`, with `born` as history), gives out
workers, and blocks targets by tier. The dashboard does not ask `start_audit` and so has
no clamp.

### Pipeline

`Detection` abstracts a text to its evidence: the patterns that Python's engine matches, those the Rust stage reports (nothing
makes the two agree), those with a valid checksum, what the model and the fuzzy and embedding hints score. `Analyze` is the code from there
on, with both orders of the Rust and Python stages.

`FileScan` walks names in directories; names lead to nodes, several to the same one, by
hard links or symbolic links that may leave the root. A node's parts are members or
columns, each with a declared size and a way to be read: well, garbled, locked, with an I/O error, or with an
exception that nobody catches; a 7z may give out nothing for a member. What a format does then differs: a tar ends silently at
any member it cannot read and a zip at an I/O error (`EndsAt`), a zip notes a wrong checksum or password and goes on, a 7z passes over a
member that did not come out. `job` is an archive in work: the listing with its
budgets, then the samples; in a 7z the extraction of all wanted members is one step
that may fail as one.

`Delivery` has a push per requester, with the rows it read and the stage it is in: SQL
writes everything in one transaction, MongoDB a document at a time, and without an enabled sink nothing is pushed. The notifier is a
thread with a turn per channel, operators' in parallel and then the tenant's, up to three attempts each (two in the run). Its log is
best effort: no rows with `notify_audit_log` off, and any row may fail to be inserted (`Record`). What counts as announced is
therefore the answers, and the log must not contradict them.

### RemoteScan

One thread, no shared state: a step is a request, or a save. Every step may fail, and
each connector answers in its own way: a row for the item (`Tell(i, i)`), its group, or the
whole target (`Abort`), or none (`Swallow`). `failed` is history. `Odd` marks what a connector
treats apart: scalars in a JSON list, `_id`, a Redis key of another type, a Power BI table
without columns. Groups are paths, object types, tables, collections or folders; items
fields, columns, keys or files. WebDAV's names are modelled by what their two joins with the
configured path give (`ListedName`, `Remote`). It tells files from folders by a numeric `content_length`: files without
one are odd, and so are folders with one (`Files`, `Misfiled`).

### ConfigEditor

A configuration is a tree of dicts, lists and strings, here a function from paths to nodes; of a string the model keeps a text
and the secret within it (a URL with a password). The code's recursions over the tree become statements about a path and
its prefixes: `RedactString` asks whether a key above a string is secret, and `MergeConfigOnSave` takes a path from the file if
`_walk_merge` ends on the way to it with the current value (`Settled`, `KeepsCurrent`, `Kept`), else from the form. So there is nothing to
recurse over, and what holds of every path can be proved. `_walk_merge`'s branch for a path that ends in a secret key is never taken: the
dict that has the key decides first. A save reads the file, merges and writes without suspending, so it is one step,
except that a kill in `write_text` leaves a torn file. Names of targets are never edited in
the model: they say which target is meant.

### CommandLine

`Clashes` are the refusal blocks of `main` as a relation between modes, `BadOptions` what the
parser says of `--session` and the options of `--export-l3`, `Order` the order in which `main` looks for a mode
(`Chosen`). Each process asks for a set of modes once (`Start`), takes the steps of the chosen one
(`LookUp`, `ReadRows` for each kind of findings, `Deliver`; `Wipe`, `RemoveReports`; `Scan`, `ScanEnds`;
...) and leaves with an exit code. A scan is one step between two: the other modules have it in full. `known` are the
sessions of the database all processes share; a demo has a database of its own. `lost`, `declined` and `did`
are history.

`L3Export` is `persist_l3_body` step by step, for processes that export to one path. A file is protected or not (`private`);
creating it leaves that open, as the file system decides, and `Verify` proves it or not. `Meanwhile` is everybody
else: a cleaner that removes temporary files, other programs that put something at the destination. The columns and
the grant are left out but for their refusals.

`Listener` has no state either. `Settings` are what the command line, the configuration and the environment say of host, key and
transport, and what the application asks for: it loads its configuration again, from `CONFIG_PATH`, `./config.yaml` or the
defaults, which may be another than the one the gate read from `--config` (`same`). `Starts` is `main` from there to `uvicorn.run`. `KeptOut` asks
`Access` what the server, with the application's configuration, then answers those without a key.

## 3. What is checked

| Run | Instance | States | Shows |
|---|---|---|---|
| `sessions` | a dashboard and two command lines, one on another host; 2 sessions, one of them legacy; 2 pids per host | 2.8 million | row ownership, reaper isolation, no orphan left, terminal statuses |
| `sessions_live` | the same processes, 1 session | 154 thousand | every scan that is not killed ends |
| `reap_race` | everyone on one host, 3 pids, 1 session | violation | a reaper interrupts a session that was just resumed |
| `dashboard` | 2 sessions, 2 engines, sink on, failing inserts and finishes, tenant edits | 2.5 million | run slot, overlays, cached list; only a report can make findings stray, only a report or a failed finish a session stay running |
| `dashboard_409` | 2 engines | violation | two scans at a time after a configuration save |
| `scan_run` | 3 targets, 2 tables in the first, 2 workers, all three modes, 2 runs | 813 thousand | checkpoints, statuses, threads, termination, refinement |
| `sign_in` | 2 clients, one with the key; 3 tokens, 2 passkeys, counters to 2, one restart; all routes, settings and credentials | 532 thousand | where passkeys come from, fresh ceremonies, counters, redirects that end, sign-in reachable, refinement |
| `admission` | 3 targets of one host, 2 addresses, 3 asked workers, licenses that change twice | 1.1 million | validated peers, no pin left, entitled scans, paid connectors |
| `pipeline` | 5 names of 3 nodes in 2 directories, a zip and a 7z, four sinks (SQL and MongoDB, each conflict mode once or more), 2 pushers, two operator channels and a tenant's with 2 attempts, the notifications block by world | 152 thousand | every sensitive part found or told, budgets, sink rows, announcements |
| `remote_scan` | 11 connectors, 3 groups, 5 items, one of each odd, 2 pages, 2 retries | 137 thousand | losses are told, full scans, closed clients, termination where there are time limits |
| `command_line` | a process with any one or two modes, one that scans, wipes, exports raw rows or compares; 2 sessions; all listener settings | 671 thousand | raw rows contained, key asked for, exit code 0 means done |
| `config_editor` | 2 tabs, 2 targets of 3 names, 3 rows, 2 edits, 2 saves | 96 thousand | an unedited save keeps all, secrets stay with their targets |

Each property has a mutant in `PROJECT.json`: an operator of the module (its comment says
"Mutant of") that changes a definition the way a plausible bug would, and with which TLC finds the property
violated. The type invariants are proved rather than run (section 5).

**Bounds.** `MaxPid` bounds the processes a host starts in `sessions`, so how often a process
may come back; two incarnations show every pair of owner and successor. Three processes
allow an owner, a resumer and a reaper; two sessions, one of another process. With
three pids `reap_race` has an owner that died, a reaper and a resumer on one host.
`MaxEngines` bounds the configuration saves that are followed by a request: two engines
show the old and the new one. Two sessions in `Dashboard` are the scan that ends and
the one that starts. In `ScanRun` two workers and three targets make a target wait,
and let the throttler hear of two before it decides about the third; two latencies, one
far above the target and one far below, drive it up and down; `MaxRuns` = 2 is a run
and its resume, with a table completed, one torn and one not begun.

In `sign_in` two clients overlap in every pair of ceremonies; three tokens are two challenges that
overlap and one after a restart; `MaxClock` = 2 with `TTL` = 1 has a challenge expire while another is
fresh. In `admission` three targets of one host are two that share a pin and one that comes when it goes;
`MaxChanges` = 2 puts a change of license, configuration or revocation list, and its undoing, between any
steps. In `pipeline` the tree has a link to a file that is reached otherwise, an archive
of which members are in budget and out, and a node of each way to fail; `MaxReports` = 2 gives
two overlapping pushes. In `remote_scan` groups with two, two and one items make a failure in the
middle of a group, between groups and in the last one; the root has folders below it. In
`command_line` pairs of modes are enough for a relation between modes to have gaps, and the proof covers larger sets
(`MayAsk` is the bound); the second process is the one that interferes, by the four modes that can. In
`config_editor` two saves and two edits are enough for a stale tab to be saved over a newer file
that was edited by hand.

**Symmetry** is used where the properties are safety and the elements alike: sessions in
`MCDashboard` and `MCCommandLine`, tokens and passkeys in `MCSignIn`, tabs, names and passwords in `MCConfigEditor`.
The other runs include liveness or elements that differ.

`CHECK_DEADLOCK FALSE` is set where the systems may stop (sessions and pids run out, all processes
are gone or have ended, a target's run is over, bounds are used up). `admission` checks for deadlock.

**Fairness.** `ScanSessions`: a process that is not killed goes on reaping, its scan ends and
is finished; nobody is obliged to start, resume or interrupt a scan. `ScanRun`: the loop and its threads go
on and queries return (the connectors set timeouts). `Pipeline`: the notifier's thread
is scheduled and its calls time out (`utils/notify.py:25-68`); the scan itself need not end. `RemoteScan`: the
thread goes on, and requests end for the seven connectors that give their client a time limit for the answer (`Timed`); SharePoint and SMB
set none (`connectors/sharepoint_connector.py:175`, `connectors/url_guard.py:471-488`), WebDAV leaves it to its library and some SQL
drivers are limited in connecting only, so nothing is assumed or said of the end of those. That a service's pages end is a bound of the
model, as the code follows them without a limit. Every one is weak fairness of straight-line
code; a crash is always possible and never assumed. The other modules have safety properties only and state no fairness:
that the dashboard's tasks finish their sessions, for one, is said as an invariant about tasks that are through.

## 4. Findings

Two runs end in a violation, each of a statement that the repository makes:

* **`reap_race`**: the reaper updates by session id and status alone, so it interrupts a
  session that a live process resumed after the reaper had looked at the dead pid
  ("Never reap a live PID on this host", `core/database.py:1898`).
* **`dashboard_409`**: after a configuration save during a scan, a second scan starts
  ("HTTP 409 if a scan is already running", `api/routes.py:1399`).

The passing runs state the other promises with the exact exception, and show that nothing else goes
wrong: `LiveScanOwnsItsRow` outside contested sessions, `FindingsStayHome` outside moved tasks, `OverlaysUndone`
outside mixed engines, `CompletedTablesAccountedFor` with the columns whose failure was
recorded, `TasksFinishTheirSessions` but for a `finish_session` that failed, `FilesAccountedFor` but for
what it names silent, `LossesAreTold` but for its silent places, `ServedIsScanned` but for WebDAV below a path or
without sizes, `TargetEnds` where there is a time limit, `ListenersAskForTheKey` but for a configuration the gate has not seen,
`ClientsAreClosed` but for the clients it names, `SavesKeepSecrets` for rows that line up, `ExitZeroMeansDone` but for the
modes it names, `RowsStayContained` but for the temporary file of an export that was interrupted. What the
exceptions stand for was met while modelling and is worth knowing:

*Sessions, dashboard.*
* The slot is released before the overlays are undone, so a scan may run with another request's
  options (`api/routes.py:1456`), though holding the slot "also serializes run-local overlays" (`api/routes.py:919-920`).
* A report requested during a scan with the sink on redirects the scan's findings
  (`core/findings_sink.py:720`), and `_run_audit_targets` then finishes the wrong session.
* A column whose sample fails is skipped and its table completed all the same; a target that fails half-way leaves a table
  in progress in a session that `--resume` returns from at once (`core/database.py:73-75` says otherwise).
* `--resume` scans targets without checkpoints (files, shares, services) again.
* If `finish_session` raises in the task of `/scan_database`, the session stays running and the request's options stay on
  (`api/routes.py:2120-2143`); `/scan` undoes them all the same.
* The check behind 429 counts and acts in two steps, so two processes may both pass; `core/licensing`'s clamp is
  `start_audit`'s alone, so the dashboard's scans are not clamped.

*Access.*
* `POST /scan_pdf` is redirected to a page unless the client accepts JSON (`api/routes.py:1230`).
* The session cookie is valid after a wipe of the passkeys, until it expires.

*Files and delivery.*
* `zlib.error` and `EOFError` from a damaged member leave the connector (`core/archives.py:465`): the rest of the target
  is not scanned. An I/O error of a member ends its zip without a row (`core/archives.py:482-483`), any unreadable member its tar, and
  a 7z's member that does not come out is passed over (`core/archives.py:575-577`).
* Of several names of one inode the first decides, even if its extension is out of scope (`connectors/filesystem_connector.py:177`).
* The sink's unique key has no file name (`core/findings_sink.py:52`): of the findings in one directory one row remains,
  and with `on_conflict: fail` the push never succeeds. Of two overlapping pushes the older may write `total_findings` last.
* `IncompleteRead` is not caught (`utils/notify.py:57`) and ends the notifier's thread; with
  deduplication one channel that answered marks the session as announced. The log has no row for an answer whose INSERT failed (`utils/notify.py:345-360`). The dashboard pushes only when a report is asked for.

*Remote connectors.*
* WebDAV with `recursive` and `path` (`docs/USAGE.md:1000-1012`) asks for `path/path/...` (`connectors/webdav_connector.py:235`): no file is scanned,
  and each has a failure row. A file without a numeric `content_length` is taken for a folder, or at the root left out, and one lost
  thereby has no row (`connectors/webdav_connector.py:67-72`, `:218-219`); a folder with one is not entered.
* A SharePoint or SMB server that stays silent holds its target for ever (`connectors/sharepoint_connector.py:175`, `:200`).
* Folders that WebDAV or SMB cannot list, and Snowflake samples that fail, leave no row. SharePoint scans one folder and not those in it.
* A SQL table whose columns cannot be listed hides itself and the rest of its schema without a row
  (`connectors/sql_connector.py:166-183`); a database that does not answer is reported as `error` rather than `unreachable`, because the engine connects on first use.
* Power BI, Dataverse, MongoDB and Snowflake stop at the first dataset, entity, collection or table whose listing fails.
* The scalars of a JSON list are not scanned; an OpenAPI document without a mapping where one is expected ends the target.
* The HTTP sessions of SharePoint and WebDAV, and SMB's, are not closed; nor is MongoDB's client if the database name
  is invalid (`connectors/mongodb_connector.py:114`), nor REST's if its token cannot be had.

*Command line.*
* `--web` with `--reset-data` wipes and does not serve; `--version` and `--check-extras` win over everything. The
  demo's refusal of `--check-extras` is never reached (`main.py:1054`).
* DSAR and L1 exports and the sink take any session: of one that does not exist they make an empty document and leave
  with 0. So do the others if the database is wiped between their look-up and their queries.
* `--resume ""` starts a new scan (`main.py:1140`), and `_print_session_diff` leaves application findings out, though
  `--fail-on-new-high` counts them.
* A ValueError of a scan that is not about #1330 is a traceback: it is raised again within the same `try`
  (`main.py:2111-2115`), past the handler that was meant for it (`main.py:2145`).
* Ctrl+C while `--l3-persist` writes leaves the temporary file with the raw rows: the handler catches `Exception`
  (`core/l3_transformed_rows.py:945`). The file is as protected as the label says.
* The gate reads `--config` (`main.py:1430`), the application `CONFIG_PATH`, `config.yaml` or the defaults (`api/routes.py:582-584`), and
  nothing but a demo sets `CONFIG_PATH`: with `--config` alone a reachable server may pass the gate and ask for no key, as after a save. Of
  `--config` the guide says "Used by CLI **and** API" (`docs/TECH_GUIDE.md:320`, and `:326`). `ListenersAskForTheKey` is about servers where
  the two agree or the application asks for a key of its own accord.
* A server told its address by `--host` or `API_HOST` refuses that name with 400, since trusted names come from `api.host` and
  `api.trusted_hosts` alone (`core/host_resolution.py:60-78`). `api.workers` above 1 passes an application object to uvicorn, which wants an
  import string then.
* Two demos share one directory and the first to end removes the other's workspace (`core/demo/runtime.py:62-79`).

*Configuration.*
* `api_key_roles` is among the mappings of the next item: an unedited save replaces its roles.
* Saving the page unedited stores the placeholder for each entry below `file_passwords` and other mappings whose key is secret: they are
  redacted leaf by leaf and merged as a whole (`config/redact_config.py:2-3` and `:176-181`, `api/routes.py:664`).
* A string that is an item of a list is shown with the passwords within it, as is a number under a secret key (`config/redact_config.py:117-131`).
* Rows are merged by position: a target removed in the editor comes back as the last one, and the ones after it get their neighbour's
  password. Removing rows therefore never takes effect.
* A URL with a masked password of which the host was edited is stored with its stars; so is one from a tab that is older than the file.
* The file is written in place (`api/routes.py:656`); a save over a torn file has nothing to take the secrets from.
* `embedding_prototype_hint` and `connector_format_id_hint` (`docs/SENSITIVITY_DETECTION.md:99-103`) do not get from the configuration to the detector (`core/engine.py:130-150`).

## 5. What is proved

`ScanSessionsProofs`, for any sets of processes, hosts, sessions and any `MaxPid`, with or
without reuse of pids, from the assumptions of `ScanSessions` (servers are processes,
hosts of processes are hosts, the null values are none of the real ones):

* `TypeCorrect`: `TypeOK`. `TypeInv` adds that a process past its start-up has a session.
* `ReaperIsolation`: `ReaperSparesFinished`. It is not inductive: that nobody changes
  the status of a doomed row needs `WriteLocked`, that only the holder of the write
  lock has doomed rows. Every writer then waits for the reaper's commit.
* `LiveScansKeepTheirRows`: `LiveScanOwnsItsRow`. `Ownership` strengthens it: holders of an
  uncontested session are unique, their pids are theirs alone on their host, and
  every row a reaper has read or doomed is either not a live scan's or is spared by
  its pid and host. It needs that a row is `running` with its holder's pid and host from the
  INSERT to the finish, and that a resume which breaks this marks the session contested.
* `TerminalStatusSticks`: `TerminalSticks`, from the same invariant: the late write of
  `finish_session` meets a row that is still its own.
* `OrphansAreReaped`: `NoOrphanSurvivesReap`, where pids are not reused. `PidsInOrder` and
  `NamedOwnerHolds` give that the process a running row names is working on it, so a session
  without a holder has a dead pid and is not spared; `StrandedAreReaped` follows it from
  the reaper's SELECT through its UPDATE to the commit.

`DashboardProofs`, for any sessions, engines, options and findings and with any combination of
failing writes, sink and rate limit:

* `TypeCorrect`: `TypeOK`, with the fact that a task past its claim has an engine.
* `OneScanPerSlot`: `SlotHeldByOneScan`. `SlotInv` says that a slot is taken exactly when a
  scan is between its claim and its release, and that this scan is the only one.
* `FindingsAreNotMixed`: `FindingsStayHome`, through `HomeInv`: whoever holds the slot is the
  engine's current session, unless a report moved it. It rests on `SlotInv`: a second claim
  would move the current session of the first.
* `OverlaysComeOff`: `OverlaysUndone`, through `OverlayInv`: where overlays never met, at most
  one request's options are on an engine, and what it remembers to restore is a bare
  configuration.
* `CacheLagsOnlyInStatus`: `CachedListLagsOnlyInStatus`, inductive as it stands.
* `SessionsAreFinished`: `TasksFinishTheirSessions`, through `FinishInv`: a task that comes to `finish_session` finds its
  own session current, or a report has moved it. It rests on `HomeInv`, because a second claim would do the same. Where
  `finish_session` itself fails the task is among the `unclosed`.

Of the configuration page it proves, for configuration trees of any size and depth:

* `RoundTrip`: merging what is shown of a configuration into that configuration gives it back, with every path and every node but those
  below a key with a secret name of its own. No induction: a path with no secret key above it is reached by a walk that ends at no container
  (`WalkedThrough`), or ends at the path itself or at a secret string on its way, and then for the current value (`EndedAt`).
* `MergeIsTree`: the merge of any two trees is a tree. Of two prefixes of a path one is above the other (`PrefixFacts`), so the walk
  ends on the way to a path in one place, and what is above that place is in both trees.
* `ShowsNoSecrets`: configurations that differ only in their secret strings are shown alike. `DifferInSecrets` names what the page does tell:
  whether a secret is there below a secret key or under `api_key`, and passwords within the strings of lists, which the code shows
  as they are. Numbers, which the model leaves out, are shown also under secret keys.

and of `ConfigEditor`, for any tabs, names, hosts, passwords, rows, edits and saves, from the assumption that there is a host:

* `UneditedSavesKeepAll`: `UneditedSaveKeepsAll`, from `RoundTrip` and `EditorInv`: the file is a configuration unless a kill tore
  it, and every form is one, or is torn or garbled. `Shaped` says which paths a configuration with n targets has and what they lead to; display,
  edits by hand and merge keep to it (`DisplayShaped`, `WithRowsShaped`, `MergedShape`).
* `SavesKeepTheSecrets`: `SavesKeepSecrets`, an action property. `MergedField` is what a save makes of a field of a target, from the form with m
  and the file with n; where the rows line up, a password nobody typed is blank or the placeholder, and a URL is as it was shown.

`ScanRunProofs`, for any targets, tables, columns, modes, latencies and any numbers of
workers and runs:

* `TypeCorrect`: `TypeOK`. The worker count stays in bounds by `WorkersStayInBounds`, a fact
  about `Adjust` alone; `TablesInv` adds that threads work on tables of their own target.
* `CheckpointsTellTheTruth` and `ResumeRepeatsOnlyTornTables`: `CompletedTablesAccountedFor` and
  `TwiceOnlyIfTorn`. Both need what the threads know. `CkptInv`: a thread's tables
  are not completed, and the one it works on is in progress. `AccountInv`: the columns behind
  a thread are accounted for. `OnceInv`: a finding is in a completed table, in a torn one,
  or behind the thread that works on its table. A crash tears what is left.
* `NoThreadOutlivesItsSession`: `SessionEndsQuiet`. `LoopInv` says which threads may be at work at
  each point of the loop, and that those left behind by a second Ctrl+C belong to an interrupted
  session.
* `CompletedMeansRun`: `EndStatusTellsTheTruth`. `TargetInv` ties a thread's end to its
  checkpoints; `OutcomeInv` says that `final_status` is the sum of the futures taken so far. The
  adaptive loop needs `WaitedForAll`: with nothing in flight and at least one worker, no target
  is left to submit.
* `ImplementsResumableScan`: `KeepsLedger`. `FinishTable` completes a table that was not
  completed (`CkptInv`) while the session is running or interrupted (`LoopInv`), `Finish` ends a
  running session, and every other step but `Start` stutters.

`SignInProofs`, for any tokens, passkeys, requests, roles and paths (holders of the key are among the requests):

* `TypeCorrect`, and with `CeremonyInv` the rest: `PendingInv` (a waiting challenge is as it was handed out, its kind included, and no ceremony of either kind was
  won with it), `KeyInv` (registration challenges go to holders of the key, and each passkey in the table goes back to
  one), `WonInv` (a token not yet issued has won nothing) and `LoopInv` (a request whose answer was accepted holds the
  loop and brings a counter no less than that of its passkey, if that is still registered). `AllGoBackToTheKey` needs `KeyInv`: a wipe between options and verify makes
  the verify a first registration. `CeremoniesAllFresh` and `CountersAllKept` are action properties from it.
* `PasskeyTableImplemented`: `ImplementsPasskeyStore`, a simulation with one case per action.
* `SigningInNeverHurts`: `SessionNeverHurts`, a case analysis of `Answer`.
* `RedirectsAllEnd` and `AllSentToSignInMaySignIn`: `RedirectsEnd` and `SentToSignInMaySignIn`, for paths of any segments and any
  length, from which middleware redirects where: what the locale middleware sends on has a prefix, which it lets
  pass, and what the gate sends on is the sign-in page, which the gate lets pass.

`AdmissionProofs`, for any finite set of targets, any hosts, addresses, tokens, configurations and answers of DNS:

* `TypeCorrect`, with `GuardKept`: the guard in memory is the verdict of the world it was made in.
* `ScansAllEntitled`, `ConnectorsAllPaidFor` and `WorkersAllWithinCap` (the clamp of `start_audit`, which no run checks) from `LicenseInv`: a scan runs under a guard that allows it,
  connectors under one that allows them, and no more of them than the pool has threads.
* `PeersAllValidated` and `NothingEverStaysPinned` from `PinInv`: what each thread holds at each step (`ThreadInv`), that the table's
  references are exactly the threads that hold one (`TableInv`, with cardinalities), and that `getaddrinfo` is replaced
  while there are any, or a thread is about to see to it (`PatchInv`).

`PipelineProofs`, for any trees, links, archives, budgets, worlds and numbers of reports:

* `TypeCorrect`, from `FilesInv` and `DeliveryInv`.
* `ArchivesAllWithinBudget`, from `BudgetInv`: what is queued was weighed before.
* `EveryPlaceEchoed`, from `SinkInv`: a push has written the rows that it no longer has to do, and nobody removes a key.
* `AllFilesAccountedFor`, the longest: `WalkInv` (every entry of an entered directory whose listing was not torn is
  still to come or was seen, and directories with something left are on the stack) and `AccountInv` (unless the target ended in error, each
  telling part of a plain file that was seen is saved, named by a row, or still coming in the job), with `JobInv` for the archive in work:
  where a job has ended early, at a member of `EndsAt`, the parts behind are not telling (`Telling`).

The last part is about `Detection`, for any patterns and settings: `CleanSettings`, `PatternsAreKept`, `MinorsAreHigh`,
`HighMeansSeventy` and `SurerIsNotLower`, facts about `Analyze` by cases. The last assumes that the bands meet MEDIUM, as the defaults do; with `fuzzy_max_confidence`
below `medium - 1` (`core/fuzzy_column_match.py:80`) a surer text may come out lower.

`RemoteScanProofs`, for any groups, items, options, connectors and bounds: `TypeCorrect`, `LossesAreAllTold`, `AllServedIsScanned` and
`ClientsAreAllClosed` from one inductive `ScanInv`. `PlaceInv` says what is open and left at each point of `run()`;
`LossInv` that each item is settled (taken, told, silent, misfiled or beyond the limit) or still to do; `RowsInv` that without a failure there are
no rows but WebDAV's. `SettledStays` carries it over a step.

`CommandLineProofs`, for any processes, sessions and sets of modes that a process may ask for, from the assumptions that
the null process is none of them and that what is asked for are modes:

* `OneModeIsLeft`: what the refusals let pass is one mode, or modes among `--web`, `--reset-data` and `--export-audit-trail`, or `--demo` with or without
  `--web`. `SolitaryClash` says that of any other two modes one refuses the other: the lists of `main` have no gap there.
* `TypeCorrect`: `TypeOK`. `ChosenIs` says which mode `main` comes to, from the order of its blocks.
* `ZeroAlwaysMeansDone`: `ExitZeroMeansDone`, through `DoneInv`: what a process was asked for was not refused (`OneModeIsLeft`), so the
  chosen mode is all there is; and a process between look-up and delivery has all the rows it has read so far, or the database
  was wiped since. The run has pairs of modes; the theorem has any sets.
* `AllRowsStayContained`: `RowsStayContained`, through `RowsInv`: which file and label an export has at each of its steps, that a label once given stays, and
  whose rows the destination has. That any number of exports share the destination costs nothing, as each row of the invariant is about
  one process.
* `EveryListenerAsks`: `ListenersAskForTheKey`, from `GateKeepsOut`: if the gate lets a reachable server start and the application has the gate's
  configuration, a key is configured and required, so the second middleware answers strangers, whatever the others do; and it does so
  (with 401 or 503) wherever the application's own configuration requires a key.

TLC only:

* liveness under fairness (`EveryScanEnds`, `RunEnds`, `ServerScansAreAnnounced`, `TargetEnds`), which is beyond the prover;
* the counterexamples of section 4.

## 6. Abstractions and limits

* The commit of one transaction is one step; SQLite's lock waits are modelled, its
  lock timeouts only as `WritesMayFail` in `Dashboard` and `Raise` in `ScanRun`.
* A wipe deletes the rows of `scan_sessions`; deleted ids are not used again (they are
  uuids). Checkpoints, object state and the notification log survive a wipe in the code;
  no property is about them.
* Tables and columns are taken in any order, where the code follows the database's.
* Target names are distinct: checkpoints are kept by name, and of two targets with one
  name the second would find its tables completed (listed as a hazard).
* A session is resumed with the configuration that it was started with.
* Averages of latencies are compared exactly; the code divides floating-point numbers.
* `GetList` may refill a cached list at any time, which stands for its time to live.
* In `WebAuthn` a cookie's signature, and the cryptography of a ceremony, are a library's: a forged answer is never accepted, any
  other may be.
* In `HostPins` a client dials the host its target names. A MongoDB client, opened without `directConnection`
  (`connectors/mongodb_connector.py:91-113`), may be told by its server of the other members of a replica set and dial hosts that nobody looked
  at; `PeersAreValidated` says nothing of them.
* In `Licensing` a token is a record of what its claims say; signatures are valid or not. Row caps of trials, watermarks
  and fingerprints are left out.
* In `FileScan` the tree does not change during the scan; renaming by content type, rich media, text extraction per format and the audit log
  are left out.
* In `RemoteScan` rows about crypto controls and inventory are left out (best effort everywhere), as is the filter by extension;
  a connector's groups are one level deep. Snowflake's checkpoints are those of `ScanRun`.
* In `CommandLine` whether the configuration loads, the extras fit and the license allows a mode is left open (any of the exits may happen);
  documents are not looked into beyond which rows they were made from; everything that starts or stops a server's workers is uvicorn's.
* In `Listener` three addresses stand for none, loopback and reachable; a certificate is there or not.
* In `ConfigEditor` numbers, booleans and nulls are left out, and what `normalize_config` refuses is a string. Spaces around
  a placeholder, which the code strips, are left out.

### Not modelled

`PROJECT.json` has every part with its reason. In short: **reports** and the texts of exports render stored rows; the **configuration
loader** maps a file to defaults, value by value; **detection helpers** (regular expressions, check digits, statistical models) are the
evidence that `Detection` starts from; **SQL sampling plans** are text per dialect; **maturity assessment** stores the answers of a
questionnaire by batch; **integrity and trust** compare hashes and print a posture; **scan plan and progress** change nothing; the
**Pro orchestrator and the Rust filter** are an alternative pipeline that the engine's target loop does not use; **deployment, scripts,
tests and documents** are not part of the running system and were read as reference.

## 7. Plan

Done: sections 2 to 5. What could follow, in this order: a second invariant of `ScanSessions` with reuse of pids (which sessions a
reused pid keeps from being reaped); the table-by-table wipe and the rows that survive it; what becomes of the key
when the configuration is saved behind `Listener`; the trial's row caps.
