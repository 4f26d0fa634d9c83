# A TLA+ model of ShellyAdmin

ShellyAdmin is one Go process over one SQLite file. It scans networks for Shelly
devices, keeps an inventory of them, and refreshes, provisions and updates them
from background jobs, driven by a web UI, a REST API, an MCP listener and a
scheduler. The code has no central scheduler and few transactions: it is a set
of goroutines that read rows, talk to devices for seconds or minutes, and write
rows back. The modules here model that: every SQL statement and every critical
section is one atomic step, and everything else interleaves.

- [Inventory of the system](#inventory-of-the-system)
- [Modules and their code](#modules-and-their-code)
- [Runs](#runs): what TLC checks, with which bounds and which fairness
- [Where code and documents disagree](#where-code-and-documents-disagree)
- [Proofs](#proofs)
- [What is not modelled, and the plan](#what-is-not-modelled-and-the-plan)

`PROJECT.json` has the exact correspondence from definitions to source lines,
the hazards with the properties that cover them, and the mutants: for each
property a faulty variant of the code that TLC must catch. The faulty variants
are in the modules, each in front of the definition it varies and marked
"Faulty variant"; no specification uses them.

## Inventory of the system

### Components with state of their own

| Component | State | Operations | What is hard | What makes it correct |
|---|---|---|---|---|
| Device reservations (`services/app_jobs.go`, `services/provisioning`) | two in-memory key sets, `activeProvision` and `activeFirmware` | reserve, work, release, by Provision, UploadUserCA, FirmwareUpdate, firmware_install | keys come from an inventory read before the lock; operations of one family share keys; the sets keep no count | no key outlives its operations; the two families exclude each other on a device; a device reported busy is busy |
| Background jobs (`services/jobs`, `db/jobs.go`) | the `jobs` table, job goroutines, `jobSpawnMu`, the service context | four triggers, progress, terminal write, staleness rule, recovery at boot, drain at shutdown | check and insert are separate statements; rows survive crashes, goroutines do not; statements fail and are only logged | one refresh at a time; finished rows stay finished; "running" means somebody runs it; a gate never stays closed |
| Refresh worker pool (`services/jobs/refresh.go`) | an unbuffered channel, workers, shared result list and counter | send, check of the context, probe, close, wait, terminal write | cancellation at any point; `UpsertDevices` takes absence for a miss | every device once; never a partial fleet; honest progress; termination |
| Device inventory (`db/devices.go` and its writers) | the `devices` table, rows in flight | eight kinds of writer, deletion | read, minutes of I/O, write of the whole row; `UpsertDevices` reads outside its transaction | unique and stable device numbers; status columns that agree; results that are not overwritten by failures |
| Runtime lock (`services/runtimelock`) | one row with owner and time; a heartbeat per process | claim, heartbeat, release, take-over, forced clearing | read and write are not one transaction; staleness is a matter of timing | at most one instance; a dead one does not block the next |
| Background workers (`services/workers`) | tickers, time of the last run, snapshot files | firmware-check schedule, session sweep, audit retention, auto backup | settings change under a waiting timer; the last run is forgotten at a restart; a run may fail with its file on disk; files are ranked by the wall clock | snapshots lie apart as the settings asked; the newest are the ones kept |
| MCP controller (`services/mcp`, `app_mcp.go`) | a listener, its token, a mutex | start, stop, reconcile after a settings change | a save reads its row back before it waits for the mutex; an import reconciles nothing; a bind may fail | one listener; it ends up as the settings say |
| Audit log (`db/auditlog.go`) | a hash chain of rows | append, prune, clear, verify | appends from every goroutine on snapshots of the database; pruning by time, chaining by id | no link breaks in the middle; only old rows go |
| Login (`api/handler_auth.go`, `sessions`, `totp`, `app_auth.go`) | credential, sessions, second factor, pending enrolment (in the cookie) | login, logout, setup, change of name and password, enrol, verify, disable | each handler is many statements; a change beside a login in progress; the second factor is keyed by a name that changes | a change ends the old sessions; the second factor follows the name; a backup code works once |
| Tokens and limiters (`services/tokens`, `loginlock`, `middleware`) | tokens, failure counter, attempt windows | create, revoke, expire, use, count, lock | window edges, eviction, time read before the mutex, unprotected read-increment-write | limits hold and failures count; no route is open to the wrong scope |
| Secret box (`core/secretbox`, `db/rotate.go`, `rotate_key.go`) | key, sealed columns | seal, open, copy of the database, rotate | rotation is a process of its own beside a server that may boot | one key for all blobs, and the server has it |
| Credentials, templates, backup (`services/credentials`, `templates`, `backup`) | credentials, groups, templates, assignments | save, delete, assign, import | references checked in one statement and written in another; an import of several transactions | no reference to what does not exist |
| Device and client (`core/shellyclient`) | the device's password, configuration, firmware; the client's nonce | call, challenge, one retry | restarts outdate the nonce; answers are lost after the call has taken effect | the right credential is not refused |
| Provisioner, setters, auto-update (`core/provisioner`, `core/setters`, `core/firmware`) | calls made and to make | apply sections, upload a certificate, set a schedule, one-call actions | Go's map order; a sequence of calls that fails half way; two requests on one device | "ok" means that all that was read of the section is in force |
| Firmware install (`services/jobs/firmware_install.go`) | a status per target, the jobs row | trigger, quiet period, poll, give up | timeouts that depend on one another, writes that overtake one another, updates behind the job's back | "current" means updated, rollbacks apart; the last row is final |

### How they interact

- HTTP and MCP requests call the services directly, on their own goroutines. The
  triggers of jobs insert a row and spawn a goroutine; only `RefreshDevices`
  holds a mutex across that, and waits for the end of its job.
- A job and its row share nothing but the row's id. The gates read the row, the
  goroutine writes it, the shutdown and the next boot write it too.
- All device writers meet only in the table. The reservations keep provisioning
  and firmware apart, and nothing else: the actions of the UI reserve nothing.
- The MCP listener has an `AppService` of its own (`mcp.Build`), so it shares tables
  with the rest of the process, and neither mutexes nor reservations.
- Everything that is written to a device goes through `shellyclient`, one client
  per request, with the credential that was right when the request began.
- A save of the settings reconciles the listener; workers read the settings at each
  tick; a boot reads them once.
- `main()` marks the jobs of the previous process as interrupted, claims the
  runtime lock, restarts interrupted jobs, starts the workers and listens, in that
  order; `Stop` goes back through the same in reverse with one deadline of 10 s.

## Modules and their code

| Module | Models | Proofs |
|---|---|---|
| `Reservations` | the two sets and the four kinds of operation that use them | `ExclusionProofs` |
| `Jobs` | the jobs table, triggers, goroutines, staleness, recovery, shutdown, crash | `JobsProofs` |
| `RefreshPool` | the worker pool of one refresh job | `JobsProofs` |
| `Inventory` | the devices table and its writers | `InventoryProofs` |
| `RuntimeLock` | the single-instance lock | `ExclusionProofs` |
| `Access` | login with second factor, sessions, setup, change of name and password, enrolment | `AccessProofs` |
| `Gate` | login limiter and lockout, session or token, CSRF, scopes and the route table, life of the tokens | `GateProofs` |
| `Audit` | the hash-chained log, its writers, retention and clearing | `StoreProofs` |
| `AppendLog` | abstract: the log that `Audit` implements | `StoreProofs` |
| `Vault` | sealed columns, credentials, groups, templates, assignments, import, key rotation | `StoreProofs` |
| `Workers` | the auto-backup worker | `ControlProofs` |
| `Control` | settings saves, imports and the MCP listener; extends `Workers` | `ControlProofs` |
| `Device` | one device (external) and the client that calls it | `DeviceWorkProofs` |
| `Provision` | provisions, uploads and actions on that device; extends `Device` | `DeviceWorkProofs` |
| `Install` | the firmware install job; extends `Provision` | `DeviceWorkProofs` |
| `DeviceWork` | the composition of the three, with the properties | `DeviceWorkProofs` |

`RuntimeLock`, `RefreshPool` and `Audit` share a proof module with another one; their
`Init`, `Next`, `Spec` and the like have a prefix (`Lock`, `Pool`, `Audit`) to be told apart there.
`MC<module>` instantiates a module for TLC (symmetry sets, the host function of
the lock, the templates and actions of `DeviceWork`, state constraints); each
`.cfg` is one run.

**Reservations.** `op[o]` is a request or job between its first inventory read
and its deferred release: `idle` → `reserving` (targets resolved, keys built) →
`working`. `BeginProvision`, `BeginUpload` and `BeginFirmware` are the checks of
each entry point; `Reserve` is the critical section of `Reserve*Targets`;
`StartDevice` and `EndDevice` are the loop over the allowed devices, one at a
time but for an install (`Width`); `Release` is the deferred call. The device's
key depends on whether it is enrolled (`KeyOf`), and enrolment changes under the
operation's feet (`Enrol`, `ForgetDevice`, `RefreshAuth`, and the row a provision
writes back after a 401). `shared` is auxiliary: it records the keys that two live operations of
one family have held together.

**Jobs.** A trigger is a goroutine that stops between its statements: `Gate`
(read the latest row), `InterruptStale`, `Create`; `ScanStatus` and `ConfirmScan`
write to the row they have read in the same way. A job goroutine (`worker`)
makes `Progress`, knows its end (`Decide`) and writes it (`Finish`); between the
two last the shutdown or a staleness rule can get in. The process goes through
`Boot`, `RecoverOne` per interrupted row, `Serve`, `Signal`, `BeginStop`,
`FinishStop`, and can `Die` at any moment, which leaves only the table. `updated_at`
is kept as what is asked of it, "older than the grace window" (`Age`). A statement
that fails spends one of `MaxFaults`; what the code then does (log, go on, return)
is a disjunct of the action.

**RefreshPool.** `Send` is the rendezvous on the unbuffered channel, and the
producer is represented by the number of devices sent. A worker that finds the
context cancelled counts its device as done, drops it and leaves. `IncrementJobDone`
may have no effect: a failing statement is only logged, and a row that is no longer
running is not touched. `EndCancelled`
and `EndUncancelled` are the two branches after `wg.Wait`.

**Inventory.** A writer holds the rows it has read (`snap`) and works through
them; what each operation makes of a row is a function of the row read and of the
device's answer (`RefreshedRow`, `BulkRow`, `CheckedRow`, `SingleRow`).
`UpsertDevices` is two steps, `ReadExisting` and `Commit`. Of the columns the
model keeps `device_num`, `consecutive_misses` (up to 2, the largest value that
is told apart), `online`, `last_refresh_ok`, `auth_required`, and one flag each
for the firmware cache and for the fields of a full probe. `heard` is auxiliary
(the answer on which the status is based), and so is `raced` (some write rested on
a device number that had changed since it was read).

**RuntimeLock.** Time is relative: the row has an age in seconds and every
instance a timer. `ReadLock` and `Claim` are the two statements of `Acquire`;
`Heartbeat` and `Release` write over and delete the row whoever owns it, as the
code does, and any number of heartbeats may fail. `Jitter` bounds how late a statement
runs after its time. `excused` is auxiliary: it is set by the known ways round the lock
(two boots at once, a live owner with the same hostname, `unlock --force`); so is
`silent`, set when a row is taken from a live owner that has written nothing for the
threshold.

**Access.** A handler is a goroutine (`req`) that stops between its statements.
A login is `BeginLogin` (password compared with the row), `ReadStatus`,
`ReadTotp`, `WriteTotp` (a burnt backup code) and `Issue`; a change is
`BeginChange`, `CheckCurrent`, `SaveCredential`, `ReadOldTotp`, `WriteNewTotp`,
`DeleteOldTotp` and two `RevokeSessions`, under `authMu` where the code holds it.
A password is known by its generation, a TOTP secret by its number. The secret of an
enrolment that is not yet verified is in the client's cookie: `pending[s]` are the secrets
in the cookies a session was ever sent, and `BeginVerifyEnroll` and `VerifyEnrollTOTP`
take any of them, one that was verified before included. `excuse`
records that a write rested on a row that had changed since it was read, that a
disabling fell into the move of the row, or that the copy under the old name could
not be deleted (`app_auth.go:99` drops that error): in the last case a spent backup
code can be used again after the name has been changed back.

**Gate.** `LoginArrives` reads the clock and `LimitLogin` is the critical section
of the limiter, with its compaction every so many hits; between the two time may
pass (`MaxLate`). The list of stamps is a function of the attempts, because the code
only filters and counts it; a request of another client may compact it
(`CompactForOther`). `CheckLock`, `ReadFailures`, `WriteFailure` and `RecordSuccess`
are the statements of `loginlock`, on the row of the name the operator had when the
request began; `Rename` leaves the rows where they are, and `RecordFails` is a failing
statement, which is only logged. `Authenticate` admits a cookie or a token and
`Served` is the chain of middleware and handler checks for a route of the table
(`AuthRoutes`, from `openapi.go`, and the routes of `router.go` that ask for no scope).
Time is kept as ages.

**Audit.** A writer's transaction is `ReadLast`, `Stamp`, `Insert`. It starts with
a SELECT, so SQLite refuses its write when anything else has committed since
(`stale`), and the row is lost. The pruner computes its cutoff in one step and
deletes in another. The log is the set of rows; `id`, which AUTOINCREMENT never
gives out twice, stands for a row's content and so for its hash, and `prev` for its
`prev_hash`. `Mismatches` are the rows at which `VerifyAuditChain` stops or would stop.

**Vault.** A sealed value is the key it is sealed with. The requests check and write
in separate steps, as the services do; an import is the sequence of transactions
that `ImportBackup` makes. `rotate-key` is a process beside the server:
`RotateStarts` looks at the runtime lock and goes on if the row cannot be read, is stale
or is not there (`SeesNoServer`), `RotateBacksUp` copies the database file,
`RotateCommits` re-seals all in one transaction. A deletion passes over a template that it
cannot read (`BeginDelete`). `mishap` and `raced` mark the
known ways out of the properties.

**Control.** A save is `BeginKeep` (resolve the placeholder) or a write with a token,
`WriteRow`, `Reread`, `Reconcile` and `Build`; the last two hold the controller's
mutex. `Workers` contributes time, the clock and the snapshot files. Its settings,
`keep` and `interval`, are read anew at each tick, as every save may have changed them
(`SettingsSaved`); `AutoBackupFails` is a run that ends with an error and its file on disk.
`pace` is auxiliary: the interval in force when a file was written.

**Device, Provision, Install.** A request holds the calls it has still to make for
its section (`ops`); `Call` makes the next one. A call succeeds, meets a challenge
and is retried once, or fails for one of the reasons the client tells apart; a
lost answer may or may not have taken effect. Sections, the entries of a
section, and the entries that `Schedule.List` answers with come in any order (`Listed`).
`ProvisionAssumption` says what templates and actions may hold. A template is checked for its
size and section names only, so `RawPayload` admits a `Misfit`, a value of the wrong type, for
a payload and inside it, and `Read` is what the type assertions leave of it: mostly
nothing, but the password "<nil>" of an `auth` section. Actions are validated, so `IsSetter` asks
for a method of the catalog or a SetConfig of the right shape. The row is marked "needs a password"
after a 401, and may be after any other failure whose text has "401" or "403" in it
(`MayWriteRow`). The install job is per target `Trigger`, `Quiet`,
`Check`, and `PollAgain` or `PollMoved`, each change of status followed by `Persist`, the write of
the snapshot that was taken at the change. `alone`, `calm` and `kept` are auxiliary: that no other
request wrote to the device (nor a restart emptied the buffer of an upload), that the device did
not restart within the call, that the password did not change. So is `moved`: how the version can be
another than the one the job compares with (the row was `outdated`, an update `landed`, the
firmware was `reverted`).

## Runs

There are twelve, one per component or question. A property that mentions an exception ("unless
raced", "unless a statement failed") names one that the code really has; where a
document denies it, it is listed [below](#where-code-and-documents-disagree). Such a property does
not catch the race or fault it names, which happens; it shows that nothing else has its effect, and
the note of the hazard says so. Each
module has a type invariant `TypeOK` (`PoolTypeOK`, `LockTypeOK`, `AuditTypeOK`). It is proved in every module, and
in most of them it is also the first conjunct of one property of the run.

**Reservations** (one device, three operations, install width 2):
`NoLeakedReservation` (a key is in a set only while an operation that was
allowed it is in flight), `ExclusionUnlessShared` (the two families meet on one
MAC key only if a family shares it) and `ProtectionLostOnlyToOwnFamily` (a working
operation loses its key only to a release of its own family). One device is enough
for TLC because keys of different devices do not interact, and three operations are
what it takes for a pair of one family and one of the other; the proofs have no such
bound.

**JobsSafety** (two HTTP goroutines, one MCP goroutine, the scheduler, all four
triggers, two rows, two boots, one failed statement): `OneLiveRefresh`,
`RunningRowHasWorker`, `CleanStop`, `TerminalIsFinal`.
Two rows and two callers give every race between two triggers; two boots give a
crash and a recovery; one failing statement gives each error path.
**JobsLiveness** checks `ScanGateReopens`: a hung scan does not keep the gate
closed while the service is up and its status polled. The property presupposes that
progress writes and confirmations cease, because `ConfirmScan` renews `updated_at`
even of a running row: confirming over and over would keep a hung scan alive. The
fairness (`PollSpec`) is that runnable goroutines run, time passes, and the browser
polls `ScanStatus`, which it does every two seconds while a scan is shown as running
(`Scan.svelte:17`). There is no fairness on `WorkerStep`: a job may hang.

**RefreshPool** (five devices, three workers): `OnlyWholeFleetIsUpserted`,
`DoneIsHonest` (progress is never ahead of the devices that workers are through with), and under fairness `UncancelledEnds` and `EndsOnceAllSent`. Workers
take devices more than once and the last round is not full. Fairness is the Go
scheduler's and the timeout of a probe; nothing forces a cancellation.

**Inventory** (two devices, two writers, two operations, any number of deletions):
`OfflineIffTwoMisses`, `UniqueUnlessRaced`, `CacheLostOnlyTo`, `FalseOkOnlyFromBulk`.
Two operations of any two kinds are what a stale read-modify-write takes; `Commit`
may hand out the new numbers in any order, as the scan results come in any order.

**RuntimeLock** (three containers, two of them with one hostname, heartbeat 3,
threshold 3, jitter 1): `OneUpUnlessSilent`, what the lock does guarantee with the two intervals
equal, as they are in the code: a second instance comes up only in a way round the lock, or by
booting while the live owner has been silent for the threshold. Under fairness also
`DeadLockIsTaken`. Three seconds are room for a heartbeat in time, a late and a lost one;
the theorem has any intervals. Fairness is that
time passes and that a container that is down is restarted (`unless-stopped`).
Without `silent` as an exception the property is what ADR-0015 and the comments promise. It is
false of the code: with 60 and 60, two hosts, no delay and no failing heartbeat, TLC has a second
container come up in the second of the owner's heartbeat.

**Access** (two handlers at once, two names, three passwords, one secret with one
backup code, two sessions, one failed statement): `RotationEndsSessions`,
`EnrolmentFollowsName`, `BackupCodeOnce`. Two handlers give every pair of a login, a
change, a setup, an enrolment and a disabling; a second name is what a change needs,
and a third password lets the name change and change back. Once both exceptions have been
met nothing is claimed, and the constraint `NotAllExcused` stops there.

**Gate** (two requests of one client, three attempts, one token, two names, window, lockout,
login limit and failures to the lockout 2, one tick of delay): `AttemptsPerWindow`, `FailuresCount`,
`TokenReach`. The limiter's store is per client, so one client is enough; two names give a rename
in the middle of a login. Small windows make their edges common, and three attempts are one more
than the store ever holds. The token is created with read scopes, with `admin`, and with lists that
validation refuses. The constraint `LoginsOrTokens` keeps the two halves apart, which share
no variable but the requests and the operator's name.

**Audit** (two writers, three rows, three times): `TimesInOrder`, `ChainUnbroken`, and
`ImplementsAppendLog`: with `id` and `prev` of each row for the abstract log,
`Audit` refines `AppendLog`, whose rows are appended one at a time, each tied to
the last, and forgotten but never altered. Three rows are a first, a middle and a last one.

**Vault** (two requests, two keys): `KeyAgreement`, `NoDanglingRef`,
`NoOrphanAssignment`, `BackupIsComplete`. One credential, group, template and device
are enough for a reference to lose its end. States after a mishap or a race, in which
the properties claim nothing, are not explored further.

**Control** (two saves, two tokens and one from the environment; intervals 1 and 2, clock up to 3,
up to two snapshots): `ListenerFollowsRow`, `OneListener`, `SnapshotsSpread`. Two saves are enough for
one to read back before, and reconcile after, the other. A run, a save of another interval and
two more runs fit into the time. The constraint `Focus` keeps listener and worker apart, which share
the settings row and the process only, and stops when the clock was set back, after which nothing is
claimed of the snapshots.

**DeviceWork** (two requests and an install with a second target, two passwords, nine
templates, four actions): `OkMeansInForce` (of a section reported ok all that the code read
is in force), `RightCredentialIsAccepted`, `CurrentMeansUpdated`, `PolledBeforeGivingUp`,
`CompletedRowIsFinal`. The constraint `Focus` leaves out what would only multiply
states: two requests that touch different things, a second mishap (a failed call or a
restart of the device), and steps of the second target while a request or another
install runs beside it. The templates are chosen so that every kind of section
comes up, with a password change beside a section that comes before or after it,
and with invalid, empty and misshapen payloads. `InForce` promises nothing for a key of a `sys`
section that the code does not know: `normalizeSysPayload` drops it, and the section
is ok. Of the fields it does know the model has five, one of each way of taking them.
Nor does it look at what `Webhook.Update` changes in a webhook.
Without "reverted" as an exception `CurrentMeansUpdated` is what the comment on the success
criterion of `installOne` says; TLC refutes it with a rollback beside the install.

## Where code and documents disagree

Met while the modules were written. The first ones and the one on `firmware_install.go:259` were
confirmed by TLC, with the property that the document states in place of the weaker one that
is now checked.

- ADR-0004:15 allows firmware updates beside provisioning "only on disjoint device sets".
  Two provisions of one device share a key; the first release (`app_jobs.go:162`)
  deletes it under the second, and an update gets in. The same with an `ip:` key taken
  before enrolment beside a `mac:` key taken after it, and between the HTTP side and the
  MCP listener, whose reservations are separate (`main.go:178` speaks of a "single shared
  AppService").
- ADR-0004:12 says "`scan` is exclusive (only one scan at a time)". Recovery leaves the
  old row "interrupted" (`jobs/recovery.go:26`), so each boot restarts all interrupted
  scans of the past; and `StartScan` (`jobs/scan.go:33`) checks and inserts without a lock.
- `jobs/refresh.go:274`: with more devices than workers, a client that goes away makes all
  workers leave, and the producer waits for a receiver for ever with `jobSpawnMu` held;
  `app.go:72` says that jobs "check it at progress points and mark their DB row as
  "interrupted" before exiting".
- `db/devices.go:120`: `UpsertDevices` stamps success on every row it is given, and a bulk
  refresh gives it the silent and refusing devices too; `docs/ARCHITECTURE.md:69` says that
  "`last_seen` represents the last successful device retrieval".
- `runtimelock.go:55`: `StaleAfter` is the heartbeat interval, 60 s; ADR-0015:65 says
  "fresher than 5 × the heartbeat interval" and :43 that two containers "will be detected
  at startup". The row of a live owner is stale in the second its heartbeat is due, and a second
  container that boots then comes up beside it.
- Recovery skips an interrupted refresh (`jobs/recovery.go:45`), although its restart
  policy is `auto` and `docs/ARCHITECTURE.md:77` describes it as restarted.
- A hung refresh holds `jobSpawnMu`, so the staleness rule described at
  `jobs/types.go:24` never gets to look at its row.
- A provision checks for a running scan (`provisioning.go:105`), but a scan can
  start while a provision runs; ADR-0004:14 allows provisioning only "while scan is not running".
- `ConfirmScan` (`jobs/scan.go:169`) writes back the pending list it computed from its
  first read. If the scan completes in between, its results are overwritten by an empty
  list, where the comment above it says that the devices not accepted stay pending.
- Confirming part of the pending scan results counts a miss for all other devices,
  those that the scan did find included (`db/devices.go:130`).
- The firmware_check action of a single device (`services/actions.go:116`) writes a
  failed check over the cached result, which `applyCheckResult` avoids in the job.
- `main()` marks running jobs as interrupted (`main.go:146`) before it tries for the
  runtime lock: a boot that is then refused has interrupted the live instance's rows.
- `app_auth.go:67` says of a failing move of the second factor that "the whole credential
  change is aborted and the old credential remains in place"; the new credential has been
  saved by then.
- `handler_logs_backup.go:93` says that an import commits "inside a single transaction";
  it is a sequence of them, and does not reconcile the MCP listener.
- An export carries the MCP token sealed, as it is stored, and the import validates it as
  plain: a bundle of a server with a token is refused.
- `mcp/controller.go:126` says that "concurrent saves serialize cleanly"; each save reads its
  row before it waits for the mutex, so the older row may be the last to be applied.
- `handler_tokens.go:125` says that the list "deliberately allows PAT access"; the code
  admits sessions only (`TokenReach`).
- `openapi.go:19` says that a route with an empty scope is one of the "cookie-only routes that
  reject PAT-authed callers entirely"; such a route takes `admin`, and a token with that scope
  reaches all but the token routes and the change of the login.
- `POST /logout` (`router.go:132`) is outside the table and asks for no scope, so any token
  passes; and `GET /api/scan/status` writes: it marks a stale scan interrupted (`jobs/scan.go:118`).
- `handler_totp.go:67` says that a second enrolment "discards the previous pending secret" and :143
  that a wipe keeps the sealed secret from staying around; both live in the client's cookie, of
  which the server has no record: an earlier cookie can be verified again, and its row is
  written with no code used.
- `credentials.go:71` says that a credential "still referenced by a template" is not deleted;
  a template that cannot be read is passed over (:83).
- `rotate_key.go:70` says that a live server is refused; a lock row that cannot be read or
  parsed lets the rotation go on, and with `StaleAfter` equal to the heartbeat interval the row
  of a healthy server can be stale.
- `provisioner.go:103`: a `kvs`, `script` or `gen2_rpc` section that is no object is reported ok,
  "keys written", "scripts configured", "gen2 methods applied", and nothing was; a `lat`, `lon` or
  port of `sys` that is no number is left out without a word (:363, :406); an `auth` section without `pass`
  sets the password "<nil>" (:168).
- `provisioning.go:190` marks a device as asking for a password when the detail of any
  failed section has "401" or "403" in it, an error code or a number of the payload too.
- After a prune the first remaining row refers to one that is gone, and
  `VerifyAuditChain` (`db/auditlog.go:86`) reports it, although nobody altered the log.
- `workers.go:253` logs "crashed twice"; the scheduler gives up at its first quick crash.
- `firmware_install.go:259`: "Any movement off the original means the OTA landed". A rollback
  moves the version too; and the original is the inventory's, so a device
  that had been updated behind it is current at the first poll without an install.
- A device that needs a password is skipped by a provision without a credential reference,
  even if a credential is assigned to it (`provisioning.go:146`).

## Proofs

TLAPS checks every theorem for all values of the constants that satisfy the named
assumptions, all of which TLC evaluates in the runs. The theorems about an
invariant have the usual shape: the initial states satisfy it, each action keeps
it (one lemma or step per action), and temporal logic does the rest.

**Reservations** (`InstallConcurrencyAssumption` only; any sets of devices and
operations). `NoLeakedReservation` is not inductive alone: a release deletes a
key that another operation may hold, and whether that leaves somebody unprotected
depends on who else holds it. `IndInv` adds that the sets are disjoint, that work
stays within what was allowed, that two holders of one key are recorded in
`shared`, and that a holder whose key is not in `shared` is protected by its set.
`ProtectionLostOnlyToOwnFamily` follows from the types alone: only a `Release` takes
keys out of a set (`LostByRelease`), and the one that does held them. Theorems:
`TypeCorrect`, `IndInvHolds`, `NoLeak`, `Exclusion`, `SkipIsHonest`,
`ProtectionIsFamilyAffair`.

**RefreshPool** (`FleetAssumption`; any fleet size and any concurrency setting,
zero and negative ones included). `OnlyWholeFleetIsUpserted` needs to know where
every device is while the pool is at work: each one that was sent is in the result
or in exactly one worker's hand, unless the job was cancelled. That is `IndInv`
(`HoldsWhileBusy`, `TakenWereSent`, `NoneLost`, `NoDeviceTwice`). `DoneIsHonest`, that the counter
and the devices in hand are no more than were sent, is inductive on top of it and uses the cardinality of the set of busy workers.
Theorems: `IndInvHolds`, `WholeFleet`, `ExactlyOnce`, `HonestProgress`.

**Inventory** (`InventoryAssumption`: finitely many devices). The consistency of
status columns must also be known of the rows in flight, because they overwrite
the table; `OfflineIffTwoMisses` states it for both. A lemma for each operation
says that it keeps a row's type, number and consistency (`KeepsRow`). New numbers lie above
every number the writer has read, and if some number has changed since then
`raced` is set: that gives unique numbers at a `Commit`. The two action properties
about lost check results and false successes need a second invariant,
`WritersSound`: an operation on single rows works on rows it has read, what a
confirmation hands to `UpsertDevices` has answered in full, and a device that is
not in the table has no check result. On top of it one lemma for each operation says what it
makes of the two columns (`KeepsCheck`, `Honest`). Theorems: `IInvHolds`,
`UniqueNumbers`, `StatusFollowsMisses`, `NumberKept`, `WritersAreSound`, `CheckIsKept`,
`FalseOkIsFromBulk`.

**RuntimeLock** (`LockAssumption`; any instances and hosts, any two intervals, any delay, any
number of failing heartbeats). `LockIndInv` says that the row of a live instance is its own and
as old as its last write, but for the delay of the claim, and that a claim in progress whose read
still stands cannot meet a live instance of another host unless that one was silent.
No relation between the two intervals is assumed: that the row of a healthy owner is never stale is not
a theorem, and false of the code's 60 s and 60 s. Theorems: `LockIndInvHolds`, `OneInstance`.

**Jobs** (`JobsAssumption`: bounds are natural numbers, the classes of callers are
disjoint; any number of callers, rows, boots and failed statements).
`OneLiveRefresh` is no matter of the table, whose gate is check-then-insert, but of
`jobSpawnMu`: the caller that spawned a refresh waits for it and holds the mutex of
its service meanwhile (`Holders`, `Waiters`, `Waited`), so that two live refreshes
would have one holder wait for both. `TerminalIsFinal` rests on `FreshIds` and `LiveRows`:
nobody but its own goroutine completes a row, and an id is used once. `CleanStop`
needs `Stopping`, which follows the order of the shutdown: first HTTP, then the MCP
listener, then the scheduler have gone, unless a wait was cut short (`late`). That
`LatestJob` finds the row it should is an induction over the ids, by their least element
(`LeastExists`). Theorems: `InvariantHolds`, `RefreshIsAlone`, `NoAbandonedRow`,
`StopIsClean`, `TerminalRowsStay`.

**Vault** (`VaultAssumption`: the marks of unsealed values are no keys; any number of
requests and keys). `KeyAgreement` is not inductive: whether a rotation may commit
depends on what it saw when it looked at the lock row. `Inv` adds that a rotation that
may still write beside a server is marked so (`RotationIsWatched`), whether the server booted later
or its row was stale or unreadable at the look, which makes the commit a mishap; that once every process that had the database open has closed it the write-ahead log
is folded, and otherwise somebody was killed (`WalIsFolded`), for `BackupIsComplete`; and what a request has found out by its last
check and relies on in its next write (`RefsHold`, `Bundles`, `GroupsHold`), for the
two referential ones. Theorems: `InvariantHolds`, `KeysAgree`, `RefsExist`, `GroupsExist`,
`CopyIsComplete`.

**Control and Workers** (`ControlAssumption`: "off" is neither a token nor a request;
`WorkersAssumption`; any number of saves, any tokens, and any intervals and numbers of
files, which every save may change). `OneListener` needs that between the shutdown of the old listener and the
building of the new one `Reconcile` holds the mutex and there is none (`Building`), and that
with a token in the environment no save gets to the controller (`Locked`).
`ListenerFollowsRow` needs that what a save has read back is still the row unless somebody
has written since (`Fresh`). `SnapshotsSpread` needs that no snapshot is later than the
last run (`Spaced`); with it a new snapshot lies the interval that is in force behind all others
(`pace`), whatever it was before, and dropping the surplus oldest keeps the newest. Theorems: `InvariantHolds`,
`ListenerIsAlone`, `ListenerIsTheRows`, `SnapshotsLieApart`.

**Audit and AppendLog** (`AuditAssumption`: the bounds are natural numbers; any number of
writers). The core is `SnapshotsHold`: a transaction that may still insert knows
the row that is last now, because a commit in between would have outdated it. With
`StampsHold` (its time is not before any row's) an insert keeps order and chain. For a
prune: the predecessor of a surviving row is not earlier than any surviving row before
it, so it survives too, and only the first survivor can lose its link (`ForgetKeepsChain`).
Here `TimesInOrder` is used, and therefore the clock must not have been set back. The
refinement does not need it: an `Insert` is an `AppendRow` of the next id tied to the last
row, a prune or a clear is a `Forget` of the deleted ids, and unique ids make sure that no other row
goes with them. Theorems: `AuditInvariantHolds`, `RowsAreInOrder`, `ChainHasNoBreak`,
`LogIsAppendOnly`.

**Access** (`AccessAssumption`: finitely many requests; any number of requests, sessions,
names, passwords, secrets and codes). A session that a change of the password has outdated
stays until the handler of that change gets to it, so `RotationEndsSessions` needs who
that is: `Covered` says that every good session is of the current credential or of a name
that a handler past its save has yet to revoke. `EnrolmentFollowsName` needs where the row is
while `authMu` is held: at the old name, at both, or at the new one, step by step
(`RowPlaced`, `MutexSound`). `BackupCodeOnce` rests on a secret being in one row only, but
for the copy that a change has yet to delete (`SecretsSound`), and on a code that was accepted
being marked in the row that counts since its enrolment was last verified (`CodesSound`). Both needed an exception that the run had been too
small to show: the disabling during a move, and the delete that fails. Theorems:
`InvariantHolds`, `SessionsEnd`, `FactorFollowsName`, `CodesAreSpent`.

**Gate** (`GateAssumption`: the windows and limits are positive, stamps are kept at least
a window long; any number of requests, tokens and names). `AttemptsPerWindow`
holds because an attempt that was let through on time is still in the store with the
age it has (`OnTimeRemembered`): neither the filter of a later request, whose own time is not
in the future, nor a compaction drops a stamp that is less than a window old. So who
is let through on time has counted all others that were. `FailuresCount` needs the same, name by
name, of what a request has read and is about to write (`BasesCount`). That one failure can undo more than one
other was found here; `lost` counts them all, and the ones whose record failed. `TokenReach` is a fact
about the table of routes, class by class, and holds for every set of scopes. Theorems: `InvariantHolds`,
`BudgetIsKept`, `FailuresAreCounted`, `TokensReach`.

**DeviceWork** (`DeviceAssumption`, `ProvisionAssumption`, `InstallAssumption`; any
number of requests, install targets, failures and restarts, and any templates, payloads of the wrong
type included, actions, passwords and timeouts). What `Read` leaves of a payload has the shape its
section's calls are made from (`ReadTyped`); nothing else is assumed of it. `OkMeansInForce` looks at a request after
its last call; what makes it inductive is `Plan`, which says of a request in the middle
of a section how far it has come. For a section of one `SetConfig` that is the call
itself, for a map of entries that each one is set or its call is to come (`EntriesPlan`).
For webhooks the calls to come are the section's but for the first `k`, and after `k`
calls a hook that was to go is there exactly as often as it has been created again
(`HooksAfter`): here the order delete all, delete, update, create counts. For the
auto-update either the list is to come or there is a deletion to come for every auto-update entry
that the device has, in whatever order they were listed. For an upload the chunks sent so far are
the buffer. All of it holds while nobody else writes to the device (`alone`), and the
lemmas say for each call what it does to each of these; a call that fails
leaves the request with a status other than ok.

`RightCredentialIsAccepted` needs `CredentialHolds`: while the password has not changed
under the request it is the request's own, or the device has none; and a retry
without a restart has a fresh nonce. So a decisive call that gets through to the check is authorized.

The install job meets the requests only in the device's version. `CompletedRowIsFinal`
needs `JobHolds`: a goroutine that has ended, or whose last write is under way, has left
a final status in the results, of which the terminal write takes all; each progress write
before it may well be outdated. `PolledBeforeGivingUp` needs `PollsHold`: a goroutine that has not
polled is at the end of the quiet period exactly, and `Normalize` puts the deadline behind
that (`Deadline`). `CurrentMeansUpdated` needs `VersionHolds`: the version that the job compares
with is the device's, unless something moved it, and `moved` remembers what. Theorems:
`InvariantHolds`, `OkSectionsAreInForce`, `RightCredentialIsNotRefused`, `CurrentIsUpdated`,
`GivesUpAfterPolling`, `CompletedJobsAreFinal`.

Only model-checked: the liveness properties `ScanGateReopens`, `UncancelledEnds`,
`EndsOnceAllSent` and `DeadLockIsTaken`, because liveness under fairness is out of the
reach of the prover. Every invariant and every action property of a passing run is also proved. Proved
and not checked by a run: `SkippedOnlyIfBusy`, `NoDeviceTwice`, `NumberKeptUnlessRaced`
and the inductive invariants.

## What is not modelled, and the plan

Not to be modelled, because there is no state of the service behind it: the wording and
decoding of requests, the web UI, the CLI's rendering, SQL schema and migrations, metrics,
and the algorithms of the cipher, the password hash and the one-time codes, which appear
as verdicts. Compliance rules are evaluated over one row and are data of the operator. The
scanner's probing is an input of `Inventory`: what counts is which rows it delivers.
Settings other than the ones named above are clamped one by one and do not interact.

To come, in this order:

1. `Boot`: composition of `Jobs` and `RuntimeLock` along `main()`, for the order of
   marking and claiming.
2. `ScanPool`: workers and the pending list of a scan, composed with `Inventory`.
