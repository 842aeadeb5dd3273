# Formal models of the pastebin server

TLA+ models of the stateful parts of `apimgr/pastebin`, checked with TLC on small
instances and, for the parts that matter most, proved with TLAPS for all instances.
Paths such as `handler/paste.go` are relative to the Go source directory `src/` of the
repository; `PROJECT.json` maps every definition to the lines it models.

| Module | What it models | Run | Proofs |
|---|---|---|---|
| `PasteStore` | pastes, owner tokens, read cache, all handlers that create, read and delete | `paste_*`, `compat_delete_cached` | `PasteStoreProofs` |
| `PasteLife` | abstract life cycle of a paste, refined by `PasteStore` (`LifeSpec`) | `paste_faults` | `ImplementsLife` |
| `Scheduler` | the task scheduler and its table, through crashes and restarts | `sched_tasks` | `SchedulerProofs` |
| `Backups` | the backup directory, the jobs that write to it, retention, cleanup | `backup_*` | `BackupsProofs` |
| `Requests` | the middleware chain a request passes before its handler | `serving` | `RequestsProofs` |
| `RateLimiter` | the per-address sliding-window limiter and its collector | `serving` | `RequestsProofs` |
| `AppSecrets` | the installation secret and the tokens signed with it | `serving` | `RequestsProofs` |
| `SecurityReports` | contact form, stored reports, mails, status page, acknowledgements | `serving` | `ReportsProofs` |
| `ProjectKeys` | the project's PGP key pair: generation, rotation, publishing | `serving` | `ReportsProofs` |
| `Restore` | the gate of the maintenance commands and `restore` | `serving` | `RecoveryProofs` |
| `LogFiles` | log files: writing, rotation, compression, retention, reopening | `serving` | `OperationsProofs` |
| `Certificates` | choice, order and storage of TLS certificates and the ACME account | `serving` | `OperationsProofs` |
| `Schema` | creating and upgrading the database by concurrent openers | `serving` | `RecoveryProofs` |
| `ServiceManager` | `--service` under six service managers | `serving` | `OperationsProofs` |
| `HealthMonitor` | the self-healing maintenance monitor | `services` | `BackgroundProofs` |
| `ConfigStore` | `server.yml`, its three writers, the watcher | `services` | `BackgroundProofs` |
| `ServerProcess` | start, PID file, listening, signals, bounded shutdown | `services` | `BackgroundProofs` |
| `Webhooks` | delivery with retries, failure log, shutdown | `services` | `BackgroundProofs` |
| `HiddenService` | supervision of Tor and I2P | `upkeep` | `BackgroundProofs` |
| `Updater` | self-update of server, command and client | `upkeep` | `BackgroundProofs` |
| `Cron` | cron expressions and the search for the next minute | `upkeep`, `cron_dst` | – |
| `GeoDatabases` | downloaded databases and lists, lookups during an update | `upkeep` | `BackgroundProofs` |

`MC*` modules hold the instances. `MCServing`, `MCServices` and `MCUpkeep` each join
several components (see "Runs").

## 1. The system

One Go process serves HTTP (chi router), keeps everything in a SQLite database,
caches pastes in memory or in redis/valkey, runs periodic tasks from its own
scheduler, supervises Tor or I2P, and watches its own health and configuration file. A
second process, the same binary with a command on its command line
(`--maintenance ...`, `--update`, `--service`, `tor`), works on the same database and
files while the server is running. The command line client is a program of its own.

| Component | State | Operations | Interacts with |
|---|---|---|---|
| Paste handlers (`handler/paste.go`, pages in `server/server.go`) | locals across calls | create, read, raw, web view, embed, download, redirect, delete | database, cache |
| Compatibility handlers (`handler/compat.go`) | same | create, read, delete in seven foreign APIs | database; **not** the cache |
| Database (`database/`) | `pastes`, `api_tokens`, `scheduler_tasks`, `app_secrets`, `security_reports`, `security_keypair` | open and upgrade; one statement or transaction per method | everything |
| Cache (`cache/cache.go`) | entries with expiry | Get (evicts), Set, Delete, reaper | native handlers |
| Scheduler (`scheduler/`) | task table, wait group, stop channel | Register, Start, tick, execute, RunNow, Enable, Disable, Stop; Next of a cron expression | database, task functions |
| Tasks (`task/`, `main.go`) | files, tables | expiry, token cleanup, backups, lists, GeoIP, update check, Tor health, logs | scheduler and the components below |
| Request chain (`server/server.go`, `server/security_middleware.go`, `server/maintenance.go`) | live configuration, lists, resolved proxies, open requests | fourteen middlewares | configuration, monitor, limiter |
| Rate limiter (`server/ratelimit.go`) | map address → bucket | allow, collector, UpdateLimit | configuration reload |
| Signed tokens (`server/security_id.go`, `server/captcha.go`, CSRF) | cached secret | hand out, verify | `app_secrets`, other processes |
| Security reports (`server/security_*.go`, `common/email`) | table, mails | submit, status page, acknowledgements | database, keys, SMTP |
| Key pair (`server/pgp_keypair.go`, `maintenance/pgp.go`, `pgp/`) | two files, parked key, row | generate, rotate, import, delete, publish | server and command |
| Backup, restore, gate (`maintenance/`) | backup directory, live files | Backup, VerifyBackup, Restore, authorisation | tasks, command line |
| Maintenance mode (`health/monitor.go`) | starting / normal / maintenance, reason, attempts | tick, Enter, Exit, cleanup | database, disk, requests |
| Configuration (`config/`) | `server.yml`, running configuration | Load, Save, watch, reload | server, command, operator |
| Process (`main.go`, `pid/`, `daemon/`, `server.go` Run) | PID file, port, signals | start, daemonize, serve, stop | everything |
| Services (`service/`) | unit, binary, directories | install, uninstall, disable, start, stop | init system |
| Logs (`logging/`, `audit/`) | live and rotated files | write, rotate, prune, reopen | all |
| Webhooks (`notify/`) | goroutines, failure log | dispatch, retry, shutdown | monitor, tasks |
| TLS (`ssl/`) | pairs in three directories, ACME account | choose, order, load | server start |
| Hidden services (`tor/`, `i2p/`) | child process, key, address | Start, Monitor, Restart, Close, replace identity | server, task, command |
| Updater (`updater/`, `client/`) | binary files | check, download, verify, replace, re-exec | task, command, client |
| GeoIP and lists (`geoip/`, `task/`) | files, open handles | Open, Lookup, Update | requests |
| Metrics, pages, client screens, shared libraries | none shared | rendering, formatting | – |

### What is hard to get right

* A handler reads a row, asks the cache, counts a view and answers in separate
  steps; other handlers, the sweeps and the commands run in between. Copies of rows
  outlive the rows. Authorisation is decided in one call, the deletion made in another.
* Each middleware reads live state for itself, while reloads, list updates, DNS refreshes
  and the monitor change it.
* Two processes open, upgrade and seed the same database without knowing each other.
* The scheduler marks a task as running under its lock and enters it into the wait
  group after releasing it. What a restart sees is what the last upsert left.
* A backup reads live files twice, a restore reads the archive twice; retention and
  cleanup delete from stale listings; processes die between the steps.
* Files that belong together (key and certificate, public key, private key and row,
  account key and registration) are written one after the other.
* The server rewrites the configuration file it is watching.
* Everything supervised (Tor, I2P, webhooks, open requests) may hang, and shutdown must
  end all the same (it does but for one case, section 4).

The 40 hazards in `PROJECT.json` are these, each at its line, with the property that
would catch it. Where the code does have the hazard, or a property covers only part of it, a
note says so.

## 2. Modules and how they correspond to the code

A process, goroutine or request is a record or a function value with a program counter
(`pc`, `at`, `step`); a label is the point before one call that other actors can see: a
database statement, a file operation, a lock, a message. Critical sections of a mutex are
one step. Crashes, failing calls and kills are actions of their own, bounded by named
constants (`Max...Faults`, `MaxDeaths`, `MaxLaunches` and so on).

**PasteStore.** Labels per handler:

| Handler | Labels |
|---|---|
| native read | `cacheGet` (`evict`) `dbRead` `cacheSet` `check` (`expire` `purge`) `count` (`drop`) `serve` |
| compatibility read | `dbRead` `check` `count` `serve` |
| StikkedJSON / GraphQL | `dbRead` (`check`) `serve` |
| native delete | `verify` `remove` `inval` `ack` |
| compatibility delete | `compatCheck` `compatRemove` `ack` |
| `data delete` command | `lookup` `erase` `revoke` `ack` |
| create | `pick` `resolve` `insert` `grant` |

`stored`, `row`, `views` are the table `pastes`; `tokStored`, `tokRow` the table
`api_tokens` with its UNIQUE hash; `cache` maps an id to the expiry of its cached copy.
`ExpirePastesTask` and `TokenCleanupTask` are the sweeps, `TokenRevokeCommand` the
command, `Restart` a crash or restart (it forgets the handlers, and the cache unless it
is external). With `Faults` every call may fail the way the code treats that failure. A
paste is its burn limit, expiry, owner token and delete-token hash; token hashing is
injective; an id whose row is gone is never drawn again (eight random alphanumerics). The
clock has `Second` ticks in a second: paste rows keep an expiry to the tick, token rows only
its whole second (`TokenExpiry`). `granted` remembers the pastes whose token row was stored
and not revoked.
`PasteLife` is the promise: absent → live → gone, views counted one at a time, the view
that reaches the limit removes the paste, nothing comes back.

**Scheduler.** `picked` holds the tasks that `tick` or `runMissed` marked as running but
has not yet added to the wait group; a slot is a goroutine in `execute`; `mem` is the task
table, `db` the rows. Writes after Stop has returned may be lost, because the deferred
`db.Close` may have run. Schedules are a constant operator assumed to advance by at least
one and at most `MaxGap` (`ScheduleAdvances`); `Cron` looks at how real ones do.

**Backups.** A job runs `hash`, `archive` (second read of the live files), `open`, `write`,
`verify`, then `discard` or `rename`, and for `backup_daily` the retention: `list`, `prune`,
`measure`, `cap`. An archive is `none`, `torn`, `bad` (contents disagree with the manifest)
or `good`, with the version of its data. Dated archives are written in place, rolling ones
through a temporary file. A crash is the death of a process; power loss is outside the
model, as is the consistency of a copied live SQLite file.

**Requests.** `Chain` is the order of `r.Use` in `setupRoutes`; each middleware is an action
that passes, answers or changes what later ones see. `Reconfigure` stands for a reload, a
new blocklist and a DNS refresh, `MonitorSwitches` for the monitor; both may come between
any two middlewares. The guarantees are judged by two histories per request: `always`, what
held all the time since it arrived (maintenance, the checks that were on, the blocked
addresses, the trusted proxies), and `ever`, what held at some time (allowlists, exempt paths,
metrics addresses, trusted proxies, and that no random bytes could be had). The CSRF check has
the bypasses of the code (bearer token, WebSocket upgrade, exempt path, same origin, no
cookie) and lets a request pass when it can make no nonce. **RateLimiter.** `Lookup` is `allow` up to the release of `rl.mu`;
`Admit` and `Refuse` run under the bucket's own lock, and `GC` may drop the bucket in between.
A bucket is the set of the requests it has recorded: the code only filters and counts its list.

**AppSecrets.** `EnsureAppSecret` is SELECT, INSERT, second SELECT, twice per start; an HMAC
is injective in its key, so a token is the secret and the time it was made with.
**SecurityReports** keeps of a form what is wrong with it, of a report its status, credit
wish and dates. **ProjectKeys** has two workers, the server and the command, on two files, a
parked key and a row, killed or failing between any two of them; `spoiled` remembers that a
private key was lost for good. **Restore** reads its archive twice. An archive is whole, torn (it
does not match its checksum) or cut, with or without a checksum, encrypted or not; between the
readings a backup may rename a verified archive over it (the rolling ones) or truncate and
write it in place, unverified (the dated ones). A live file is old, new, cut or bad. `suspect`
remembers a restore that extracted what it had not verified.

**LogFiles.** A file is the set of its lines; a handle follows its file through renames, and a line
written through the handle of a removed file is lost with it (logrotate renames a held file, and
retention removes it before SIGUSR1 comes). Retention removes its files one at a time, any
removal may fail and the process may die after each, so any part of them may be gone.
**Certificates.** A certificate is the number of its key and its last day; `atomicWriteFile`
is one step, `os.WriteFile` leaves a torn file in between. **Schema.** The layout is a set of
tables and later columns; a statement is what it needs and what it adds. **ServiceManager.** A
command is the sequence of its steps, written per manager as the code does.

**HealthMonitor** runs `tick` call by call against a database and a disk that fail and
recover. **ConfigStore** has one setting of each kind (restart-only, environment, validated
and hot, generated, startup-only) and reduces modification times to "newer than the one
seen"; every read and save may fail. **ServerProcess** starts several instances that share PID
file and port, with recycled process ids, among `namesakes`: other processes with "pastebin" in
their executable's name, which is all `isOurProcess` looks at. A signal may come as soon as
the PID file is written. **Webhooks** has one delivery per notice.

**HiddenService.** Start, monitor, task and Close compete for the manager's mutex around a
child that may die. The wait for an address ends by a timeout for Tor and i2pd; a SAM handshake
ends only with an answer of the bridge or of the connection. **Updater.** Releases are numbered
in the order of publication; a file is a complete copy of one or garbled. Whether a release's
tag is the version its binary carries (`TagIsVersion`) and the segments of that version
(`Version`) are constants, since the server compares the one as strings and the client the
other segment by segment. The task installs only with `auto_install`. **Cron.** Every iteration of the loop in `Next` is a step over a small calendar that is
a constant: days with their month, day and weekday, and the hours that pass in them.
**GeoDatabases.** A file is missing, torn, no database, or a release.


## 3. Runs

| Run | Instance | Shows |
|---|---|---|
| `paste_faults` | 1 paste, 2 tokens, 2 handlers, burn 0/1, every kind of request, every call may fail | `IInv`, `BurnedNotServedAgain`, `RemovalAuthorised`, `LifeSpec` |
| `paste_owner` | 2 pastes, 2 tokens, 2 handlers, with and without expiry, two ticks a second, reused tokens, revocations, `data delete`, every call may fail | `OwnerCanDelete` |
| `paste_sweeps` | 1 paste, 2 readers, burn 0/1, expiry, 3 instants, external cache, fair sweeps | `BurnOvershootBounded`, `ExpiredEventuallyRemoved`, `RevokedEventuallyRemoved` |
| `sched_tasks` | 1 task, 2 goroutines, 4 instants, 2 retries, all API calls, failing database | `IInv`, `NoOverlap`, `RunningExact`, `NextRunHorizon`, `LastRunKept`, `DueRuns`, `StopReturns` |
| `backup_rolling` | 1 day, 3 data versions, daily and hourly job, everything may fail | `TypeOK`, `RollingSound`, `RollingNeverLost`, `IInv` |
| `backup_retention` | 3 days (one in a weekly tier), size cap, daily job, command, cleanup, failures | `NoAccumulation`, `RetentionLeavesNewer` |
| `serving` | ten components | the properties below |
| `services` | four components, with fairness | the properties below |
| `upkeep` | four components, with fairness | the properties below |
| `compat_delete_cached` | 1 paste, 1 handler | violates `DeletedNotServed` |
| `backup_kept` | 2 days, daily job only, no failures | violates `VerifiedBackupKept` |
| `cron_dst` | one day with a repeated hour | violates `NextReturns` |

The last three passing runs each check several components that share no variable.
Interleaving them would only multiply their states, so `part` names the one that runs,
chosen in the initial state, while the others rest. The behaviours are those of the
specifications side by side, and fairness is stated for the part that runs. For each
component one property joins its type invariant with the properties named in its module:

| Property | Says |
|---|---|
| `RequestsGuarded` | whatever changes while a request is on its way: `BlockedKeptOut`, `ClosedToWrites` (no write is handled in maintenance), `NoForeignForm` and `NoCrossSite` (but for the bypasses), `MetricsKeptClose`, `ActiveExact` (the count of open requests that healthz reports) |
| `LimitsKept`, `RefusedOnlyAtLimit` | addresses do not share a bucket, only requests that counted in a collected bucket exceed the limit, nobody is refused below it |
| `SecretsSound` | `OneSecret` for all processes, `TokensKeepWorking` for their whole lifetime |
| `ReportsHandled` | `StoredBeforeTold`, `OncePerDay` on the status page (unless two requests overlap or marking fails), `ThanksAsWished` |
| `KeysUsable` | `ReportsReadable` with the key on disk or the parked one, through interruptions and overlaps, one rotation and the grace time (unless `spoiled`), `RowNamesKey` (after commands that were not interrupted and did not overlap) |
| `RestoreSound` | `NothingFromBadArchive` reaches a live file and `CompleteMeansRestored`, both unless `suspect`; `GateHolds` |
| `LogsSound` | `LinesKept`, `NewestStay` (retention removes nothing within its count or age, in whatever order its removals fail), `OneDayPerFile` |
| `CertificatesSound` | `ChosenPairLoads`, `RegistrationMatches` the account key, `NoNeedlessOrder` |
| `SchemaSound` | `OpenMeansComplete`, `NobodyLockedOut` by an interrupted or concurrent upgrade |
| `ServiceSound` | `PurgeAfterStop`, `BootsWhole` (what starts at boot is a complete binary, unless a copy in place over an older one was cut short) |
| `MonitorSound` | `NoticesAlternate`, `Recovers`, `FaultNoticed` |
| `ConfigFollowed` | `WatcherKnowsFile` although the server writes it too, `EditsTakeEffect`; both but for a first read that failed (`unread`), a version written before the watcher existed (`missed`) or a generated secret that could not be saved (`unsaved`) |
| `ProcessSound` | `NoFalseRefusal` (only an instance or a namesake with the pid in the file refuses a start), `PidFileNamesServer` (without overlapping starts and stops), `ShutdownEnds` |
| `HooksSound` | `FailuresReported`, `QuietAfterShutdown`, `DeliveriesEnd` |
| `HiddenSound` | `OneChild`, `AddressKept`, `CloseReturns` (unless a SAM bridge keeps silent), `MonitoredTorReturns` |
| `UpdaterSound` | `BinariesWhole`, `ClientMovesForward` between numbered releases, `SettlesOnStable` and `StableCommandEnds` when the latest stable release is tagged with its version |
| `CronSound` | `NextIsFirst` (against the definition of a matching minute), `NextReturns` |
| `GeoSound` | `FilesWhole`, `UpdateKeepsServing`, `LookupsAnswered` |

### Bounds

*Pastes.* The properties of a read speak of one paste, one handler and the state, so two handlers give
every race between a read and a removal. A burn limit of 1 with two readers gives the
overshoot; three instants separate "at the expiry" from "after". `MaxReads` bounds the
reads that begin, so that the history counter `served` can pass the bound of
`BurnOvershootBounded` if the code lets it. *Scheduler.* One task meets every trigger and
outcome; tasks interact through the picked set and the goroutines only, and the theorems
cover any number. *Backups.* Three days with one weekly day make a tier and the daily set
overflow independently.

*Serving.* One request is in flight because requests share only the configuration, which the
environment changes anyway, and the count (the theorem covers any number); the 24 kinds in
`MCServing` meet each decision of the chain both ways, and one change of the configuration falls
between any two of its steps; at the start the operator has made all or none of the exceptions,
and keeps both lists of addresses or neither, and the change then separates them. Two addresses and two calls with
five buckets are one bucket more than can be referred to, and a window of one instant with one
tick has entries exactly one window old; the theorems cover every window. Two processes and two secrets
make the race on an empty table; `IDWindow` 2 over four instants passes a window's end
twice. Three keys and three starts or
commands are one rotation more than the files and the parked copy hold. Three commands
or new archives allow a restore after a cut one and two writers in its way; two
files make one restored and one still due. Nine log configurations cover held and shared files, rotation by
day and size, the four ways to retain and an outside rotation. Four certificates outlive `CertLife`
three times. Two openers with three openings and one failure give an upgrade cut off and
taken up by another process. Four service commands reach uninstall after install, stop and
reboot.

*Services.* Two attempts distinguish "first", "again" and "capped". Two edits and one failing
read or write are enough for an edit between any two steps of a save; of seven tokens one is always
free, since a token has six places. Two instances, three pids and three launches, of
instances or namesakes, recycle a pid. Three notices to one host pass the throttle window.

*Upkeep.* Two deaths, one failing start and one new key meet every actor at the lock. Stable
and beta channels of a few releases with one deferral day make the deferral expire or be
overtaken; among the versions are numbers that strings order the other way (`MCUpkeep`).
The calendars have 2 minutes, 4 hours, 2 months and 3 weekdays, enough for every
field to be the one that advances; `CronLimit` stands for the four-year limit of the loop. Two
databases, two lookups and two updates meet every order of closing, replacing and opening.

Symmetry is used for handlers in two paste runs and nowhere with liveness. Deadlock is
not checked in the paste runs and the three joint runs, where identifiers, clocks and
commands run out by the bounds and a part (a command, a finished search) may really end;
all other runs check it.

### Fairness

All fairness is weak. A goroutine that can run eventually does; a call with a timeout
eventually returns; nothing is assumed of clients, operators, remote servers, SAM bridges or
child processes.

* `paste_sweeps`: the two sweeps, which the scheduler runs for ever (`DueRuns` is the
  scheduler's side of this). Handlers are not fair.
* `sched_tasks`: the end of Start, the tick, spawning a picked task, the end of
  `execute` and both ways Stop can end. `DueRuns` also assumes that task functions
  return (`TasksReturn`); `StopReturns` does not.
* `services`: the monitor's tick (`TickStep`), the server's watcher and saves (`SrvStep`),
  the steps of a stop (`StopStep`, which waits for requests no longer than its timer) and those of
  a start after the PID file, which a signal may meet (`StartStep`, none of which waits for
  anybody), and the steps of a delivery (`Deliver`, whose requests have a timeout).
* `upkeep`: each actor that waits for or holds the manager's mutex, except one that waits for a
  SAM bridge (`Proceeds`: the waits for Tor and i2pd have a timeout, `samReadLine` has no
  deadline, `i2p/i2p.go:533`), the monitor goroutine, the health task and Close; the daily update check, the passing of
  days and the steps of an update; the loop in `Next`; the GeoIP task and the lookups
  (`sync.RWMutex` does not starve readers).

## 4. Findings

Each has a run whose counterexample is the code's behaviour; `PROJECT.json` quotes the
line it contradicts.

1. **Compatibility deletes leave the cached copy** (`compat_delete_cached`). Native readers
   are served the paste until the cache entry expires. The same happens when a native
   reader fills the cache between another handler's delete and its own `cachePaste`, and
   after `data delete`.
2. **A failing second backup of a day destroys the verified one** (`backup_kept`): the
   dated archive is truncated in place and removed on failure. Two other ways lead to the
   same loss: a crash in the middle of the write followed by the startup sweep, which counts
   the torn file as the newest; and the disk-full cleanup, which keeps an archive that is
   still being written.
3. **`Next` does not return on the day the clocks go back** (`cron_dst`): `advanceToHour` adds
   elapsed hours to local midnight and arrives where it started. On the day they go
   forward the run of a skipped hour does not happen.

Behaviour met while modelling that the models contain but no run is about:

* Pastes: a reused owner token is answered but its INSERT fails on `UNIQUE(token_hash)`
  (`handler/paste.go:558`, against `IDEA.md:269`); a token is refused and swept up to one second
  before its paste expires, because its row keeps whole seconds (`database/database.go:854`); concurrent readers can be served a
  burn-limited paste more than `burn_after` times (`BurnOvershootBounded` is the exact
  bound); GraphQL returns expired pastes until they are swept; `data delete` does not
  revoke the token when the paste is already gone; the web removal form leaves the cached copy.
* Scheduler: `wg.Add` comes after the unlock, so Stop may return before a picked task
  starts (`scheduler.go:358`, against `:204`); an interrupted first run is not retried
  (`:253`, against `:242`); `DisableTask` is undone by a restart; `RunNow` runs disabled
  tasks; the location given to `SetLocation` is never used.
* Backups: `RetentionSweep` uses `max_backups` unclamped, so 0 deletes all daily archives at
  startup; the cleanup looks in `dataDir/backup`, which need not be the backup directory.
  Restore writes file by file into a server that may be running (against `AI.md:46826`), and
  reads the archive a second time after verifying it (`maintenance/maintenance.go:227`, `:231`):
  what a backup of the same name has written in place by then (`:213`) is extracted unverified. An
  archive whose manifest has no checksum is not compared (`:539`).
* Requests: `GET /api/remove` deletes in maintenance; `POST /api/{version}/new` has no
  limiter; a request can count in a collected bucket; a host whose DNS refresh fails drops
  out of the trusted proxies; without a cached secret, or without random bytes for a nonce
  (`server/server.go:1925`), the CSRF check lets requests pass.
* Reports and keys: reading and marking a report on the status page are two statements
  (`AI.md:14743`), so two overlapping requests both open it, as does one after a failed mark; an
  update of a closed report restarts its 30 days; the grace of a rotated key counts from its
  generation (`AI.md:14766`); a second rotation overwrites the parked key. A server or command
  killed between the public and the private key leaves a public key that is served and whose
  private half nobody has; a first key that got no row is replaced by the next start without
  being parked, and its reports become unreadable.
* Maintenance mode: `health/monitor.go:42` says that `MaxAttempts` caps the healing attempts; the
  code only stops counting there and goes on trying (`:245`), as its test expects.
* Configuration: a `server.yml` that cannot be read when the server starts is only logged
  (`config/config.go:1687`, `main.go:776`): the server runs on defaults, and as the watcher
  starts from the file's present time (`config/config.go:2847`) nothing changes that before the
  next write. `persistPortOnly` then saves defaults over a file it cannot read (`:2796`, against the
  comment `:2797`), and a detected SMTP host is saved with the defaults over a malformed one. A
  reload drops command line flags; saves persist environment
  overrides; `pending_restart` is never set; `SetMode` rewrites every `mode:` line; an edit
  with an older modification time is not seen.
* Process: a second instance opens the database, sweeps and starts its scheduler before
  it checks the PID file; the check and the write are not atomic; a stopping instance
  removes the file without looking whose it is; a pid recycled by the client or by a command of
  the same program blocks a start (`pid/pid_unix.go:37`), although the file is stale in the sense of
  `pid/pid.go:12`; a shutdown that times out skips the
  deferred closes.
* Services: `installRunit` copies no binary; `copyBinary` writes in place; failing stops are
  ignored before a purge.
* Schema: `database.go:207` indexes a column that `:374` adds, so a database without
  `burn_after` cannot be opened (`NobodyLockedOut` leaves out files that lacked it).
* Logs: a second compressed rotation of a day overwrites the first; lines appended by
  others between rename and compression may be lost.
* TLS: `ssl_renewal` never sees the server's own certificates and a dns-01 certificate
  is not renewed while the server runs.
* Hidden services: a Tor whose first Start failed is not monitored; a failed I2P restart
  is not retried; Close overtaking Start can leave an i2pd child; a SAM bridge that accepts the
  connection and never answers keeps the manager's lock, and with it Close and the shutdown
  (`i2p/i2p.go:533`, `:301`), for ever.
* Updater: the release workflow tags `v1.2.3` what calls itself `1.2.3`
  (`.github/workflows/release.yml:54`), and `updater/updater.go:87` and `:98` compare the two as
  strings: the server is never up to date (against `:41`), `--update yes` installs the same release
  and runs itself again without end, and with `auto_install` so does the task, day after day. The
  client's order of versions (`client/main.go:425`) is none: 1.0.9 < 1.0.10 < 1.0.10-beta < 1.0.9.
  The tag `daily` matches no branch. On beta and daily two releases may alternate; HTTP
  statuses are not checked; the re-execution skips the graceful shutdown.
* GeoIP: an update holds the write lock during its downloads; a 200 answer that is no
  database, or a download beyond 512 MiB, which is cut there without an error
  (`geoip/geoip.go:517`), stays as the file. `os.Remove` failing is left out of the model.

## 5. Proofs

`tlapm` checks all proofs; there is no unproved step. They hold for every value of the
constants that satisfies the named assumptions in the modules, which TLC evaluates, and the
hypotheses a theorem states. Every inductive invariant was model-checked before it was proved.

| Theorem | Property | Hypotheses |
|---|---|---|
| `NotServedAgain`, `RemovalsAuthorised`, `ImplementsLife` | `BurnedNotServedAgain`, `RemovalAuthorised`, `LifeSpec` | – |
| `OwnersCanDelete` | `OwnerCanDelete` | – |
| `OvershootIsBounded` | `BurnOvershootBounded` | no call fails, finitely many handlers, no reader that does not count |
| `NeverOverlaps`, `FlagIsExact`, `HorizonBounded`, `LastRunNeverLost` | `NoOverlap`, `RunningExact`, `NextRunHorizon`, `LastRunKept` | – |
| `RollingAlwaysSound`, `RollingNeverGoesBack` | `RollingSound`, `RollingNeverLost` | – |
| `TypeCorrect` (Backups) | `TypeOK` | – |
| `ArchivesDoNotPileUp` | `NoAccumulation` | removals succeed |
| `RetentionNeverTakesNewest` | `RetentionLeavesNewer` | `MaxBackups >= 1` |
| `ChainGuards` | `RequestsGuarded` | – |
| `LimitsAreKept`, `RefusalsAreJust` | `LimitsKept`, `RefusedOnlyAtLimit` | – |
| `SecretsAreSound` | `SecretsSound` | – |
| `ReportsAreHandled`, `KeysStayUsable` | `ReportsHandled`, `KeysUsable` | – |
| `UpgradesAreSound`, `RestoreIsSound` | `SchemaSound`, `RestoreSound` | – |
| `CertificatesAreSound`, `ServiceIsSound`, `LogsAreSound` | `CertificatesSound`, `ServiceSound`, `LogsSound` | – |
| `PidFileIsSound` | `ProcessSound` without `ShutdownEnds` | – |
| `OneServiceChild` | `HiddenSound` without `CloseReturns` and `MonitoredTorReturns` | – |
| `UpdatesAreWhole` | `UpdaterSound` without `SettlesOnStable` and `StableCommandEnds` | – |
| `DatabasesStayWhole` | `GeoSound` without `LookupsAnswered` | – |
| `NoticesAreExact` | `MonitorSound` without `Recovers` and `FaultNoticed` | – |
| `HooksAreQuiet` | the safety part of `HooksSound` | – |
| `WatcherIsRight` | `ConfigFollowed` without `EditsTakeEffect` | there is always a token nobody holds |

The hypotheses are the conditions under which the code promises the property: a failing count
serves the paste without counting, as StikkedJSON and GraphQL always do; an archive that
cannot be removed stays; `max_backups: 0` asks the startup sweep for exactly that; and
`crypto/rand` does not repeat a token that the file or a process still holds.

A dash means that the theorem has no hypothesis, not that the property has no condition. These
say themselves where they end: `OwnerCanDelete` is about tokens that were stored, until
they are revoked or the whole second of the expiry comes; `RequestsGuarded` lists the bypasses of
the code; `ReportsReadable` ends with a second rotation or the age of the key, and says nothing
once the history `spoiled` is set (import, deletion, two replacements at once, an interruption
between the two files or before the first row); `RowNamesKey` wants commands that were neither
interrupted nor overlapping; `RestoreSound` ends with `suspect`, `WatcherKnowsFile` with `missed`,
`unread` or `unsaved`; `OncePerDay` leaves out overlapping requests and a failed mark;
`NoFalseRefusal` counts a namesake as a reason; `ClientMovesForward` is about numbered releases.

**PasteStoreProofs.** The inductive invariant `IInv` is needed because the properties
say nothing about handlers half-way: it adds that a stored row has views left, that only
pastes without a burn limit are cached, that a token row belongs to the paste created
with that token, that two handlers never hold the same fresh id, and, per label, what a
handler knows (a handler that loaded a burn-limited paste began before it was gone; one at
`remove` holds the operator's or the paste's own token). `FrameReq` shows that a step that
changes one handler and grows the tables monotonically keeps what other handlers know;
each action then only concerns its own handler. From `IInv`: `NotServedAgain`,
`RemovalsAuthorised`, and the refinement `ImplementsLife`.

`OwnersCanDelete` adds `OwnerInv`: the token row of every paste in `granted` is there until the
whole second of the paste's expiry, names that paste and is not revoked, so the sweep takes it
no earlier and a second INSERT with the same token fails on it. `OvershootIsBounded` adds `OvershootInv`, a count over the
handlers: while the paste is stored, what was served and what handlers that counted are about
to serve are at most its views; once it is gone, what was served and the handlers that still
hold a copy are at most the limit plus all handlers but the one whose view removed it.

**SchedulerProofs.** `IInv` joins the exact running flag, at most one goroutine per task, picked
tasks that are not executing, a process that is quiet when down, and the clock facts: no
recorded time is in the future, and an execution started after every run already recorded
for its task. The last is what `LastRunNeverLost` needs when `UpdateTaskRun` overwrites
`last_run`. Also `NeverOverlaps`, `FlagIsExact`, `HorizonBounded`.

**BackupsProofs.** `IInv` says that a job that builds a rolling archive has read data at least as
new as the archive it will replace, and that what it renames has been verified. It holds
with failing removals and any number of crashes. From it: `RollingAlwaysSound`,
`RollingNeverGoesBack`. `ArchivesDoNotPileUp` needs, per tier (`TierOK`), how far over its
limit the tier may be at each place of the daily job: one over only by the archive being
built, and within it without those on the list of removals. `RetentionNeverTakesNewest` needs `KeepersOK`: behind
every name on a list of removals there is an archive of the same or a later day on no list,
for the retention and for the cleanup that works against it. `TypeCorrect` needs `TotalOK`: while
the size cap removes archives, its total is at least what the archives still listed hold (`Data`),
whatever the cleanup took meanwhile, so subtracting a size never passes zero.

**RequestsProofs.** `ChainGuards` proves `RequestsGuarded`. A property of handled requests
is not inductive; `RequestsInv` adds, per stage of the chain, what a request that got so
far has passed (`Knows`): its histories bound what holds now (`Seen`), so what a middleware saw
is between what held all the time and what held at some time. And the count equals the
number of requests between two middlewares, for which `Req` is assumed finite. For the
limiter, `LimiterInv` relates the buckets to the history: a bucket in the map holds every
recent request its address was admitted with (`AdmittedRecorded`), and what any bucket
holds was really let through (`RecordedAdmitted`). The first bounds what passes, the second
excludes false refusals. `SecretsAreSound`: an insert happens only after a draw, what a
process holds is the row of the table, and the row never changes. That a token lives to
the end of its window rests on a lemma about integer division.

**RecoveryProofs.** `UpgradesAreSound`: an opener at statement `n` finds everything the
statements before `n` add (`SoFarPresent`), since no statement removes anything; only an
opener at the end has the database open. `RestoreIsSound`: a restore that extracts has
verified the archive, and between the verification and the second reading only a backup that
writes in place changes what is read; so, unless the restore is `suspect`, what is copied comes
from an intact archive and every entry that is done is new (`VerifiedFirst`).

**ReportsProofs.** `ReportsAreHandled`: the invariant follows a submission from sealing to
the answer, and knows of every request for a status page what it has read; a page that
could be opened a second time is one that two requests are at, or whose use could not be
recorded. `KeysStayUsable` has two invariants. `CleanInv`, for `RowNamesKey`: while nothing was
interrupted or overlapped one worker is at work, and its place says which of the files and the
row already belong to the new key. `WholeInv`, for `ReportsReadable`, holds through overlaps and
interruptions: at most one worker replaces the key (`OneReplaces`), without a row no key is
served (`RowOK`), and every key that is served or sealed with is the one on disk, the parked one
or past its grace (`AllSealedOK`).

**OperationsProofs.** `CertificatesAreSound`: a pair is replaced key first, and in between it
has a key and a certificate that do not fit. No start chooses it because a replacement only
begins where no certificate is alive (`PairsOK`, `MakerOK`). `ServiceIsSound`: the invariant
is about the list of steps a command still has to do; whatever remains of it, a purge comes
after the stop and enabling after the copy. `LogsAreSound`: in a good directory the lines of
rotated files lie in ranges that do not overlap and before those of the live file (`GoodDir`),
and the open handle and an interrupted rotation point at files that exist (`HandleOK`,
`RotorOK`). Every line that was removed is older than the files its removal left (`Retained`), and
later removals, which take any part of what is doomed, keep that: a file behind `n` newer ones is
not one of the `n` newest, so those stay newer than every removed line (`PruneRetains`).

**BackgroundProofs.** The joint properties of `services` and `upkeep` contain liveness; here are
their safety parts.

* `PidFileIsSound`. Two living processes have two pids (`PidsDistinct`). As long as no launch
  overlapped another start or stop, one instance at a time is on its way, it passes the check
  only when nobody else is alive, and from its write on the file is its own (`OneOnItsWay`,
  `AlonePastCheck`, `FileIsOwn`). Namesakes never touch the file.
* `OneServiceChild`. Exactly the holder of the lock is starting a child (`StepsOK`); only the
  published child is up or, while a start is awaited, only the newest (`ChildrenOK`). After Close
  nobody can start one, except the first start of an i2p child that Close overtook (`ClosedOK`,
  `FirstStart`). Until a command replaces it there is one identity (`OneIdentity`).
* `UpdatesAreWhole`. A download that passed its checksum is a whole release (`ProvenIsWhole`), and
  what a client is about to install is newer, to `VersionLessThan`, than what it has
  (`ClientIsNewer`). Between versions of three numbers that order is the numbers' (`NewerIsNotBefore`).
* `DatabasesStayWhole`. The file of a database is at least as new as the open handle
  (`FilesAreNewer`), so reopening never goes back.
* `NoticesAreExact`. The copy of the state a tick works with is the state until Enter or Exit changes
  it (`CopyIsState`), and the last notice tells the state but for the one about to be sent (`LastTells`).
* `HooksAreQuiet`. The dispatcher remembers the time of the last line about a host
  (`LinesRemembered`), and a Shutdown that returns has cancelled what still waits.
* `WatcherIsRight`. Until the watcher runs, the configuration agrees with the file or with what is
  being saved, unless a reading or saving failed or a version was missed (`Sound`); during a
  reload the next one does, unless the file changed since the stat (`CfgAgrees`). A start that finds no file saves one or remembers that it could not
  (`AbsentIsUnsaved`): without it, `ResolvePort` would save defaults without the token.

Only model-checked:

* liveness (`ExpiredEventuallyRemoved`, `RevokedEventuallyRemoved`, `DueRuns`,
  `StopReturns` and the liveness parts of the properties of `services` and `upkeep`):
  fairness is outside the prover;
* the search in `Cron` (induction over data) and the facts about `2 ^ n` in `BackoffGrows`.

## 6. Not modelled

* Metrics: counters that nothing in the program reads. Static pages, documentation, the
  client's screens and commands other than its update: no shared state. Shared
  libraries (formatting, translation, detection, cryptography): pure functions.
* Windows variants of service, daemon and update.
* Panics. A panic in a task run by `RunNow` would leave its flag set (`scheduler.go:278`).
* Arithmetic on client numbers: an unbounded number of minutes is multiplied into a
  duration (`handler/compat.go:370`) and may wrap around.
* Power loss (files are not synced before a rename) and the consistency of a copied live
  SQLite file.

`PROJECT.json` gives the reason per component and, for the hazards without a property, why.

## 7. Plan

1. `Expiry`: the conversions of client numbers to durations with wrap-around, against a
   reference definition.
2. Composition of `Scheduler` with `Backups`: catch-up and retry of `backup_daily`
   produce the second run of a day that finding 2 needs.
