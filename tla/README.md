# SG-Gateway: TLA+ models and proofs

SG-Gateway is a VPN gateway with a web panel. The panel (`app/`, Flask and
SQLite) stores clients, connection settings and their pending changes; a root
daemon (`hostd/sg_hostd`) renders engine configs from the database, tests
them, installs them and restarts services, in threads of its own, in helper
processes and in root jobs; a dispatcher (`app/udp_edge`) shares UDP/443
between protocols. This directory holds TLA+ modules of the parts where order,
failure and concurrency decide whether the gateway is right, the TLC
configurations that check them on small instances, and proofs for every
instance.

## Inventory

| part | state | operations | hard because | modelled in |
| --- | --- | --- | --- | --- |
| Xray settings transactions (`app/xray/settings_transactions.py`) | `connection_settings`, `runtime_settings_transactions` | begin, commit, rollback, refine the candidate, direct update | several processes; each operation is two to four SQL statements; a crash leaves a transaction open | `XraySettings`, `XraySettingsSQL` |
| Xray apply path (`client_runtime._apply_xray` and its callers) | candidate, live and previous config file, service, lock, job | test, apply, restore, manual rollback | four callers, one of them without the lock; every step can fail or be the last | `XrayApply` |
| Link exports, subscriptions | none of their own | read the settings, read the pending transaction, list the links of a device | reads of what appliers change | `XrayApply`, `ClientCatalogue` |
| UDP/443 edge (`app/udp_edge`) | session table, selector, cached settings | classify, forward, relay, expire, reload | batch of events over a table that changes inside the batch; limits; crash and restart | `UdpEdge` |
| Client catalogue (`app/clients`, routes in `app/main.py`) | clients, devices, credentials and their status | create, edit, enable, disable, delete, apply, restore a snapshot | an apply that fails is undone by a snapshot taken earlier, while others change the same tables | `ClientCatalogue` |
| Engines behind `clients.apply` (AmneziaWG 3.1, Xray, Mihomo, sing-box, SG Client, NaiveProxy) | config, backup, service each; `clients-apply.lock` | apply one after the other, partly outside the lock | partial failure, timeouts, stale rows | `ClientCatalogue`, `Engines` |
| Mihomo's own page and helper (`app/mihomo`) | form, candidate with metadata, applied metadata, backups | build, test, apply, restart, roll back | no lock; two writers of one file; a helper that is killed | `Engines` |
| Xray and core updates (`xray_update_runtime.py`, `core_update_runtime.py`) | binary, its backup | choose, download, verify, swap, check, undo | binary and config must fit before and after | `Engines` |
| Routing, GeoFiles and WARP (`app/routing`) | two data files, managed rules, WARP profile, saved form, backups | check, apply, roll back, enable, disable, test | five files of one meaning, replaced one by one by processes that share no lock with `clients.apply` | `Routing` |
| Backups: full, data, clients-and-keys, SQLite copies | archives, staging trees, safety copies | create, verify, promote, restore, undo | partial restore, a restart in the middle of the job | `Restore` |
| Operation jobs (`operation_jobs.py`, `operation_job_runner.py`) | job files | start, run, poll | a job that dies, a start whose answer is lost | in the module of what each job does |
| Panel update (`deploy/update-from-github-core.sh`) | release tree, backup, database | download, swap, migrate, check, roll back | a crash between two stages of a shell script | — |
| TLS, authentication, installers, pages | — | — | — | — |

What makes each part correct is stated by the properties of its module (see
*Runs*), and the places where it is easy to get wrong are the hazards of
`PROJECT.json`. Components left out are listed there with the reason.

**Interaction.** The panel reaches hostd over a UNIX socket, one thread per
command, and stops waiting before hostd stops working. hostd starts helpers
(`python -m app.routing.*_helper`, `app.mihomo.helper`) and kills them at a
timeout. Long operations are `systemd-run` jobs whose progress is a file the
panel polls. All of them share SQLite, the files under `/etc/sg-gateway`,
`/usr/local/share/xray` and the services, and four locks: `clients-apply.lock`,
the GeoFiles lock, and one per kind of binary update.

## Modules

* `XraySettings` — the settings row and the transaction table, and what their
  operations promise: one step each. A *settings value* is any member of
  `Configs`; `settings` is the row of `connection_settings`, `tx[i]` row `i` of
  the transaction table, `nextId` SQLite's AUTOINCREMENT. `Published` is what
  client links should show: the snapshot of the open transaction, or the row.
  `commit` and the direct update are one statement in the code too; `begin`,
  `rollback` and `update_candidate_config` are not, so theirs are promises only.
* `XraySettingsSQL` — the operations as the SQL statements they are. In
  sqlite3's default mode a SELECT holds no lock afterwards, so what a caller
  read before its first write may be stale: `call[s]` is what session `s` has
  read, `Overtaken(s)` that it no longer holds, and the history `crossed` the
  transactions an overtaken call wrote over or beside. Two `begin` that found
  nothing open both insert a row; the UPDATE of a `rollback` is keyed by id
  alone and turns an applied row into "rolled_back". The properties say that
  these are the only ways a promise of `XraySettings` is broken
  (`FreshCallsAreAtomic`), and what is kept even then.
* `XrayApply` — composes these sessions with the panel's requests
  (`update_xray_profiles`, the fingerprint and SNI forms, `xray.apply.start`),
  the four appliers, `xray.rollback`, and link readers. Each request and
  applier is the session that runs its own calls, so that anybody may act
  between two of their statements. Each applier has a program counter; one
  action is the code between two points where another process may act: a
  statement, the candidate file, the test, the backup, the live file, the
  service. A settings value is a record of what config.json is rendered from
  (`server`) and what only links carry (`client`, the TLS fingerprint).
* `UdpEdge` — the selector loop with its session table. One action per event
  handler; `Select` and `EndBatch` frame the batch, so that events of a batch
  meet a table changed earlier in the same batch.
* `ClientCatalogue` — composes the catalogue, the panel's requests (`rq`), the
  hostd threads that run `clients.apply` (`wk`) and the engines. `client`,
  `device` and `status` are the three tables, `domain` whether NaiveProxy's
  connection settings name a host; `live`, `backup` and `running` are each
  engine's config file, its backup and what its service serves, all as sets of
  devices. One action is one transaction of the panel or one step of an
  engine's apply: read the rows, (read them again), install, restart, restore,
  settle the statuses. What cards, plain feeds and SG documents offer is
  defined over this state. `alone` and `sole` in a request's record remember
  whether anything, or anything on the same client, ran beside it; they only
  serve the properties.
* `Engines` — one engine from the inside: binary, configuration, metadata,
  service, backups. Mihomo's form, helper, rollback, its path through
  `clients.apply` and its status page; the update of its binary or of Xray's.
  A configuration is the option it was rendered with, which only some versions
  load, and the generation of the credentials in it. The helper does not look
  at what `systemctl` answers when it stops Mihomo or starts it again after a
  failure; such a failure is an outcome of `Stop` and `Recover`, and `unseen`
  remembers it.
* `Routing` — the panel's staging of pairs and forms and every privileged
  operation of `app/routing`, helper by helper, with the config.json that
  `clients.apply` writes beside them. A pair stands for the two files of one
  source, a rule for what a field of the form says of a category; `live` is
  what a GeoFiles backup holds. The files are copied, and copied back, one by
  one (`CopyIp`, `CopySite`; `RestoreIp`, `RestoreBackup`; `UndoIp`, `Undo`).
* `Restore` — uploads, verification, promotion, the root jobs that restore full
  and clients-and-keys archives with their safety archive and undo, the panel's
  own restore of SQLite copies (`SafetyCopy`, `CopyOver`, `InitDb`, `Unstage`
  are the steps of `restore_backup_transaction`) and their retention, with
  clients edited and applied meanwhile. Data is where it comes from: this
  server or the archive's.
* `StagedChange` — what the maintenance jobs promise, as an abstract
  specification: nothing is touched before it has been checked and saved, done
  means exactly what was wanted, rolled back means exactly what was there.
  `Restore` implements it (`ImplementsStagedChange`): `Core` maps the disk to
  a world, `Meant` says which world an archive means for this server, and
  `Phase` maps job steps and requests to phases.
* `MC*` — values for the constants. `*_proofs` — theorems and proofs.

## Runs

| run | question | bounds, and why they are enough |
| --- | --- | --- |
| `sql` | Which interleavings of single statements, with callers dying anywhere, leave two transactions open or change a closed one; is every other write the whole operation at once? | 2 callers, 3 transactions, 2 values, alike: every pair of operations overlaps, and a third begin meets what two have left |
| `serial` | With one operator who waits, does the service run what links publish, after any sequence of save, test, apply, restore, legacy migration and failed restarts? Do links leak only across a close? | 2 transactions, 2 server and 2 client parts, one reader |
| `locked` | Under the lock: are only tested configs installed, do commits publish what runs, do links move only at a commit, with failing tests, kills and every statement apart? | 2 interchangeable appliers, both `xray.apply` (the path of `clients.apply` with an early exit and a handler of its own), one request, 2 transactions, one value xray rejects |
| `closes` | Is every transaction closed? | 2 appliers (one may be the job), one request, 1 transaction |
| `udp_table` | Does the table keep its bound, and evict the session seen longest ago? | 3 senders for 2 slots, 4 datagrams |
| `udp_settings` | Do sessions stay pinned, do settings take effect, do queues drain, with crashes, restarts, send errors and too few descriptors? | 2 senders (one per address family), 1 descriptor, 2 datagrams, clock 0..2 |
| `single` | Is what the panel answers, shows and hands out true of the engines, and is a failed change undone? | 1 client, 2 devices, access to everything or to Xray only, 3 operations, 2 faults: a change, its undoing and one more operation each meet a fault |
| `overlap` | Does undoing a change leave other clients alone; are two changes that are both "applied" both served? | 2 requests, 2 threads, 2 clients, 2 operations, 1 fault |
| `routing` | Do config.json and the GeoFiles stay usable together, does a failed operation change nothing (but for `route.apply` failing at its very last write), do the two files stay from one source? | 2 sources that lack different categories, 3 forms (WARP rules; optional rules; a template), 2 helpers, 2 revisions of the clients, 1 fault; either 6 operations that wait for one another or 3 that may overlap: six is the shortest that stages, checks and applies two pairs, and three helpers' work is what a race on the pair needs |
| `restore` | Does a restore end unless it is killed, as a whole or as before, and serve what it reports? | 5 archives (full with HTTPS, a broken full one, clients-and-keys with and without HTTPS, a SQLite copy), HTTPS here or not, 1 job, 3 copies for a retention of 2, 1 edit, 2 faults: the restore and its undo each meet one |
| `engines` | Does each operation of Mihomo, or an update of a binary, do what it answers; do page and profiles show what runs, failures of `systemctl` that the helper passes over excepted? | 3 versions (one below Xray's minimum), 2 options that different versions load, 2 actors, 3 operations of which two may overlap, 1 rotation, 1 fault |
| `userrules` | Does a GeoFiles update keep user rules, as `docs/ROUTING.md` promises? It does not, see *Findings* | 1 helper, otherwise as `routing` |

`MaxTx`, `MaxTime`, `MaxSent`, `MaxOps`, `MaxFaults`, `MaxUsers`, `MaxUploads`,
`MaxCopies`, `MaxEdits`, `MaxBeside` and `MaxCreds` are bounds of the model, not
of the code; each is named where it guards an action. `MaxFaults` counts what
goes wrong by itself (a command that fails although it could succeed, a process
that is killed), never what fails for a reason in the state. The runs that say
`CHECK_DEADLOCK FALSE` end when these bounds are used up, and the system is
at rest then.

### Fairness

`closes` assumes that a started applier or request keeps running (threads of
the panel and of sg-hostd, a systemd job), and nothing about users.
`udp_settings` assumes that the loop keeps running and that systemd restarts
it after a failure (`Restart=on-failure`); a stopped service stays stopped,
arrivals, replies and the clock are not fair. `restore` assumes that a job's
next command ends (each has a timeout), that a `clients.apply` under way ends,
and that the restart which systemd has been asked to make fires; it assumes
nothing about requests, uploads or edits, and jobs may be killed.

### Assumptions

* `ServedIsPublished` in `serial`: `xray run -test` accepts every valid config
  and rendering does not fail (`TestsMayFail = FALSE`); `XrayApply_testfail.cfg`
  shows what happens otherwise. In the branch of the except handler that
  removes a config that did not exist before, `systemctl stop` is taken to
  succeed. Settings that reach rendering carry their FinalMask base already;
  the write `_preserve_live_hysteria_finalmask` makes for older ones is left out.
* A `systemctl restart` that is executed ends with the configuration on disk
  running or nothing running. `daemon-reload` or `enable` may fail before it,
  and the old one runs on.
* `closes` has one transaction; tests, applies and SNI edits but no "save" and
  no `clients.apply`: a later `begin` would close what an earlier one left and
  hide it. `KillApplier` also stands for a job that raises before its `try`
  (`operation_job_runner.py:44`); nobody is killed in this run.
* Outside `Restore`, the file writes of an undo (`_restore_backup`,
  `atomic_write_json` of the old file, `_restore` of the Mihomo helper) succeed,
  unless the process is killed.
* `Swaps = FALSE` in `routing`: no source is being checked while a pair is
  applied. `Kills = {"stop", "revive"}`: hostd's timeout strikes a GeoFiles
  helper where it waits for Xray, not between the two copies or before an undo.
  With other values `PairTogether` fails, see *Known deviations*.
* `Brings`, `Overlap`, `Mixed = FALSE` in `restore`: an archive with HTTPS is
  restored to a server with HTTPS, restores are not started during another, and
  one behaviour has uploads or SQLite copies. The first two exclude known
  deviations, the third only keeps the instance small.
* `alone` in `routing`, `single` and `engines`: what an operation promises about
  everything it leaves is stated for operations that wait for one another, as
  the panel's pages make an operator do; what is promised whatever overlaps is
  stated separately (`PairTogether`, `BackupsAreWhole`, `OverlapsAgree`,
  `FailedChangeIsUndone`, the update half of `AnswerIsTrue`).

## Findings

* `userrules`: a GeoFiles update rebuilds the rules from the saved form and
  looks for user rules under keys the form does not write, so user rules for a
  direct connection or through WARP are dropped without a word, although
  `docs/ROUTING.md` says that they are kept or the update is refused.

### Known deviations

Behaviour met while modelling that a reader may not expect, and that the
properties therefore except by name or by a constant. For the first five a
configuration that is not among the runs reproduces the behaviour:

* `tlc -config XrayApply_jobrace.cfg MCXrayApply`: the background job works
  without the lock, so the file that is tested need not be the body that is
  installed.
* `tlc -config XrayApply_testfail.cfg MCXrayApply`: when the candidate test
  fails, `_apply_xray` restores `config.json.previous` although `config.json`
  was not touched, so the config of the apply before the last comes back.
* `tlc -config XrayApply_testleak.cfg MCXrayApply`: "save and test" keeps its
  transaction pending while the test runs; a `clients.apply` started meanwhile
  applies and commits it.
* `tlc -config XrayApply_relabel.cfg MCXrayApply`: a test that is over finds
  its transaction open, a `clients.apply` that had picked it up installs and
  commits it, and the UPDATE of the test's rollback marks the applied row rolled
  back and brings the former settings back, while Xray serves the new ones. An
  `xray.apply` that loses the lock does the same to its holder's transaction.
* `tlc -config ClientCatalogue_undone.cfg MCClientCatalogue`: when the first
  apply of a creation put NaiveProxy into service with a bootstrapped domain and
  the second fails, domain and credential are taken away, the repeated apply
  skips NaiveProxy, and the deleted client is still served.

Xray settings. An `xray.apply` that loses the lock rolls back the transaction
of the lock's holder (`client_runtime.py:1793`). `rollback` and
`update_candidate_config` check the status in a SELECT of its own and write by
id (`settings_transactions.py:161`, `:210`); `begin` checks for open rows in a
SELECT of its own, so that two overlapping calls both open one
(`settings_transactions.py:60`). The next `begin` finds both and closes both.
The fingerprint and SNI forms may write a pending candidate back as the
settings (`main.py:1670`). `xray.rollback` takes no lock and leaves the
settings row (`operation_jobs.py:372`). The UDP edge loads the settings row
directly and so follows candidates that are not applied.

Clients. `OverlapsAgree` is stated for Xray because it fails for the two
engines that are also applied outside `clients-apply.lock`
(`awg31_integration.py:28`, `naiveproxy_client_runtime_patch.py:159`): with
`Truthful("awg31")` or `Truthful("naive")` in its place TLC finds, without any
fault, a thread that reads the rows, a request that disables a client and is
told "applied", and the first thread then installing what it had read.
Giving a client or device AmneziaWG 3.1 by editing it fails always:
`repository.py:803` builds the payload inside its write transaction, and
`awg31_lifecycle._payload` writes the settings row on a connection of its own,
which waits for the first until SQLite reports "database is locked". Undoing a
deletion brings the client back without its subscription tokens
(`repository.py:1047`). Two requests that change one client may undo each
other (`main.py:1410`). `disable_client` answers "removed" although an engine
that is not critical failed (`main.py:1445`). AmneziaWG addresses repeat
after 253 device ids (`awg31_lifecycle.py:72`).

Routing. `_smart_system_rules` treats a `warp4` rule for Russian sites as
direct. `geo.rollback` restores the config.json of its backup: clients added
since are gone until the next `clients.apply`, and an old WARP profile is
back; it also backs up first, so a second rollback undoes the first. A failed
`warp.test` makes managed rules through WARP unloadable, and with them every
`clients.apply`. The saved form is not part of any backup. `route.apply` writes
it last and outside its try (`templates.py:574`): when that write fails the
answer is an error, and rules, config.json and the service are the new ones
with nothing undone; `FailedOperationChangesNothing` says of this failure that
everything but the form is as applied (`AppliedUnsaved`). A routing or WARP
helper that overlaps a `clients.apply` may overwrite its config.json. A helper
killed between the two copies, or before an undo, leaves one file of each
source, and so does a source that is checked during an apply, whose files may
be copied in part (`Swaps`); `docs/ROUTING.md:58` calls the replacement atomic.
A backup that hostd interrupts stays in its directory as the newest one, and a
rollback to it is refused.

Restores. The undo of a SQLite restore finds its safety copy by path and does
nothing when it has been cleaned up meanwhile (`backups.py:298`). Undoing the
restore of an archive with HTTPS on a server without
leaves HTTPS on (`Brings`), since what the safety archive lacks stays. Two
restore jobs do not exclude each other (`Overlap`). A job killed while it hides
credentials of switched-off protocols leaves them disabled. Changes made
between promotion and the safety archive belong to the old state; changes
between the safety archive and the swap are lost. `delete_old_backups` sorts
by name, so a `pre-restore` copy counts as older than every scheduled one
(`backups.py:96`).

Engines. Where nothing is to listen any more, Mihomo's helper runs `systemctl
stop` without looking at its answer, removes the configuration and reports that
the service is stopped (`helper.py:264`): it may go on serving the old one.
After a failed step it starts the old configuration again in the same way
(`helper.py:238`) and reports the first failure only. `AnswerIsTrue` says what
is still true then, of the files; `RestIsServed` excepts it (`clean`).
"Test" of a Mihomo form makes a backup too, so the rollback after it
changes nothing. The `finally` of a test puts back what it had saved, also over
an apply that overlapped it. Candidate and metadata are two files. hostd's
limit of 180 s ends a helper in the middle of an apply. An apply after which
sing-box fails is reported as failed and stays applied ("partly"). The path of
`clients.apply` that switches Mihomo's listeners off has no backup. An Xray
recovery update commits a pending settings transaction before it may fail.
A killed job stays "running" on the page.

## Theorems

TLC checks the instances above; the proofs hold for every value of the
constants that satisfies the named assumptions.

* `XraySettings_proofs`: lemmas on the promised operations. The inductive
  invariant `TxInv` is the type invariant (rows at and past `nextId` are unused,
  all others are not) with `OnePending`: a pending row is the one begun last.
  With it the newest and the oldest open row are the same (`PendingRow`).
* `XraySettingsSQL_proofs`: for any number of callers. `SqlInv` strengthens the
  type invariant by `ReadsOfBegunRows` (a session undoes or refines only a row
  that was begun) and `TwoOpenWereCrossed`: of two open rows both are in
  `crossed`, because the second was inserted by an overtaken begin. From it
  follow, write by write, that a call which is not overtaken takes the step of
  `XraySettings` (`FreshWritesAreAtomic`), `RowsKeepTheirOutcome`,
  `SecondOpenIsBlind`, and that what links publish moves only as
  `PublishedOnlyByCommit` says.
  `OneCallerIsAtomic` is a refinement with the identity mapping: with
  `Sessions = {s}` what `s` has read cannot be stale (`ReadIsFresh`); with it
  the invariant of `XraySettings` gives `OneCallerOpensOne` and
  `OneCallerClosesOnce` for the statements.
* `XrayApply_proofs`: `IInv` is the type invariant with `SqlInv`. The type
  invariant says that a session is inside a call exactly where its request or
  applier waits for one (`CallsMatch`), so every step is a step of
  `XraySettingsSQL` or leaves its variables alone, and the promises of the
  table carry over. Three more invariants stand on it.
  `TestedInv` (`LockedApplyInstallsTested`): an applier tests the shared
  candidate file while it holds the body it wrote there, and past the test that
  body is valid, because only the lock's holder writes the file.
  `CommitInv` (`LockedCommitIsHonest`): the candidate of an open row that is
  not `crossed` is the settings row, and from the rendering on an applier's
  body is the candidate of the row it will commit, if that is still open and
  not crossed; a begin, rollback or commit by somebody else can close the row
  but not change it unless it is overtaken, and nobody without the lock touches
  the files. The theorem excludes what breaks it: the unlocked job
  and manual rollback, edits that bypass the transactions, and settings that
  still need the Hysteria2 rewrite (see *Known deviations*).
  `ServesInv` (`SerialServesPublished`), with `Steady` (`OnePending` and
  `ReadIsFresh`: callers that wait for one another are like a single one): at
  most one actor is busy, and for each program counter what is left of `Agree`
  (config.json is what links publish, or the rewrite will make it so, and the
  service runs it): kept up to the installation, from there replaced by the
  same statement about the backup, and regained by the commit for the new value
  and by the undo for the old.
* `UdpEdge_proofs`: the same for the edge; the bound on the table uses
  `FiniteSetTheorems`.
* `Routing_proofs`: type correctness, then `PairsStayTogether` and
  `FinishedBackupsAreWhole` for any number of overlapping helpers, pairs and
  forms. `PairTogether` is not inductive: nothing in it says that the second
  copy completes the first, that an undo puts back files that belong together,
  or that the holder is the only one who copies. `Holds` adds it per helper:
  the lock is held exactly by a GeoFiles operation, what such an operation
  would install and put back is even, and between the copies the first file
  is the candidate's. `Paired` is the conjunction over all helpers. The
  theorems are conditional on `Careful` (no swap of the candidate during an
  apply, no kill between two copies or before the undo), since without it the code breaks them.

  The other five theorems are about operations that wait for one another
  (`alone`). `InTurn` relates each step of an operation to the record of how it
  found everything (`h[a].start`): which of the files it has replaced so far
  (`Lives`), what the service runs (`Serves`), that what it is going to install
  loads with the files that will be there (`Aims`), and that backups and the
  previous config are such that restoring them does no harm (`Backed`). At
  "done" and "idle" this is `RulesInForce`, `ServedIsInstalled` and "nothing has
  changed"; `RulesStayLoadable` and `ClientsKept` are read off its steps. All
  need `Harmless`: helpers are killed only where nothing has been written yet,
  or all is undone or answered. `RulesInForceInTurn` needs a config.json at
  first (`TRUE \notin Fresh`), `ServedInTurn` no kill at the last revival; see
  *What the proofs have shown about the model*.
* `Engines_proofs`: `EnginesTypes`, `AnswersAreTrue` and `RestServed`, for any
  number of actors, versions, options and operations. `Updates` says that one
  update holds the flock and that the binary is the old or the new one as its
  step says, whatever else overlaps; `Stories` says of an operation alone,
  step by step, which of binary, configuration, metadata and service it has
  replaced and that what it saved is what it found; an answer is given in a
  state where that makes it true. `RestIsServed` needs one more part, `Cleanly`:
  every backup has metadata of the options it was rendered with, so that a
  rollback leaves page and service in agreement.
* `Restore_proofs`: `RestoreTypes`, `RestoredIsServed`, `UndoneIsServed`,
  `CopyAnswersTrue` and `RestoreImplementsStagedChange`, for any number of panel threads, of jobs one after the
  other, of archives, domains, edits and faults. `WhereForward` and `WhereBack`
  say which step a job's number stands for, with a certificate or without.
  The properties speak of a job's last step only, so the inductive invariant
  `Orderly` says of every step what the disk holds of the archive already
  (`OnFull`, `OnClients`), what has been put back (`Backwards`), that xray has
  run the restored clients since the first apply whatever other applies and
  edits do beside it (`Up`), that a panel generation newer than the probe's
  has the disk's environment (`Restarted`), that the archive handed over still
  fits this server when the job starts (`Asked`, `Fits`), and that a SQLite
  restore's safety copy is what was live (`Copying`). It holds when restores
  wait for one another (`~Overlap`, `Alone`).

  The refinement maps a job's number to a phase (`PhaseAt`). `Shape` reduces
  the twenty actions of a job to four shapes: it ends, takes one of its two
  harmless first steps, goes one step on, or turns back; the wait for the panel
  is the step that becomes `Finish` or `Undone`, and there `Orderly` gives the
  equality of the whole `Core` with what was meant (`Meaning`) or saved
  (`PutBack`). The first needs one more invariant, `Calm`: until a restore has
  changed something the server is whole and nothing is hidden, so that this is
  true of the safety archive. Three hypotheses are the run's own: at most one
  job, no archive that brings HTTPS to a server without, and no archive with
  hidden credentials. Without the first two the refinement is false, see below.

* `ClientCatalogue_proofs`: `CatalogueTypes`, `FailedChangesAreUndone`,
  `AnswersAreTrue`, `NothingIsInFlight` and `OverlappingAgree`, for any number
  of clients, devices, menus, requests and hostd threads, from
  `CatalogueAssumption`. None is inductive. Undoing a change puts back what
  the request remembered, so `RequestOK` says that snapshots are well-formed
  and that a creation's is empty (its undo deletes instead of restoring). The
  undone client then equals its snapshot only if nobody else wrote its rows:
  `Apart` says that a request which is `sole` is the only one under way on its
  client, and `Undoable` that such a request finds its rows as in its snapshot
  before its write and after its undo. Workers only reword statuses
  (`WorkerReworded`) and so cannot break this. `ServedOnce` (each waiting
  request has exactly one worker, and only waiting requests are answered) is
  what lets an answer, a timeout or a crash move requests without disturbing
  it; `WorkersOK` ties the lock to the program counters.

  The answer to a request alone is about the end of a sequence of five engines
  under the lock and two after it, so `AloneOK` says what the worker of an
  undisturbed request has `Achieved` wherever it stands: which rows and which
  body the engine at hand has (`Rendered`), which engines before it are settled
  or at least no longer pending (`Passed`), and the same for the second apply
  of AmneziaWG 3.1 and for NaiveProxy (`Repeated`, `Loaded`). A step is about
  one engine (`WorkerOnly`) and keeps what was achieved for the others
  (`OnlyKeeps`), so that one lemma per stage is enough (`PlacingStep`,
  `ResultStep`, `RepeatStep`). The last step gives `AllDone`, from which both
  `AnswerIsTrue` and `NothingInFlight` follow. `AloneOK` asks nothing of the
  state in which such a request begins: each apply settles all rows it finds,
  whatever faults, kills or restored snapshots left there.

  `OverlapsAgree` has no request alone. `Agreeing` says that without faults
  either Xray is settled and no worker is at it, or a worker is putting the
  present rows there (`Covers`), or some request still `Owes` an apply: it will
  call hostd, its worker has not reached Xray, or it was told that it failed.
  A write of rows makes its own request owe; a worker that begins Xray pays,
  because `clients-apply.lock` keeps every other worker from Xray and the rows
  it reads are those of that moment. When all is quiet and each was told
  "applied", nobody owes.

### What the proofs have shown about the model

Attempts that failed for a reason in the code:

* `ServesOld` was first stated for every restore. With two jobs one after the
  other it is false: a restore that is killed between its file overlay and its
  rebuilding leaves an nginx site of another domain than its certificate's, or
  no config.json, and the safety archive of the next restore has what is there,
  so that its undo brings that back or leaves what it cannot bring back
  (`restore_hardening_patch.py:370`, `full_backup_runtime.py:804`). The run has
  one job and could not show it. `ServesOld` now asks that the server was whole
  when the safety archive was taken (`Settled(Mine(j))`).
* For the same reason the refinement of `StagedChange` is false with two jobs:
  the undo of the second refreshes nginx from the certificate the killed one
  has laid over, so the site it reports as rolled back is not the one that was
  there. With an archive that brings HTTPS to a server without (`Brings`) an
  undo leaves the certificate, which the safety archive lacks. TLC finds both
  in seconds when `Jobs` or `Brings` of the run are changed.
* With every statement a step of its own, `OnePending` and `ClosedForGood` are
  false of the transaction table, and so is every promise of `XraySettings` for
  two callers. What is left was found by asking of each write which of its reads
  it depends on (`Overtaken`): which calls may open a second row, which one may
  change a closed row, and that the rows such a call touches (`crossed`) are all
  that `CommitPublishesWhatRuns` and `PublishedMovesOnlyByCommit` must except.
* `CommitPublishesWhatRuns` fails with settings from before Hysteria2
  obfuscation while nothing is served: a `clients.apply` that read the table
  before a request opened its transaction rewrites the settings row directly
  (`normalise_hysteria2_config`), so the next apply renders, and commits, a value
  that is not the open row's candidate. The run and the theorem have no such
  settings (`Legacy = {}`); TLC finds it when the run is given some.
* `RulesInForce` fails on a server that had no config.json at first: a
  `route.rollback` to the backup taken then brings back the managed rules and
  leaves config.json (`templates.py:582`), which has the newer ones until the
  next `clients.apply`. The theorem assumes a config.json at first, as the run
  does.
* `ServedIsInstalled` fails with two faults, a manifest that cannot be written
  and then a kill while Xray is started again on the files put back. The run
  has one fault; the theorem excludes a kill there.

And one in the model: `Card` of `ClientCatalogue`, the state a client's card
shows, was a CASE with overlapping arms, which TLC reads from the top and the
logic does not. `AnswersAreTrue` could not be proved of it. It is now the chain
of early returns that `_status` is (`access.py:62`).

### What is only model-checked

Every invariant and every action property that a passing run checks is stated
by a theorem. `EveryTransactionCloses`, `QueuesDrain` and `JobsEnd` are liveness
properties under fairness, outside the prover's reach, and stay with TLC.

## Not modelled

* The stages of the panel update are a shell script on one host, with a backup
  and a rollback of its own; the Python side only starts it and reads its log.
* TLS certificates: certbot and nginx behind one helper; only their refresh, as
  a restore uses it, is in `Restore`.
* NaiveProxy's settings form and rollback command, AmneziaWG's settings form
  and the arithmetic of addresses.
* Text: config.json, YAML, links, QR codes, help and activity pages; the byte
  tests of the UDP classifier; authentication; the installers.

## Plan

1. An abstract `Catalogue` (each request one step: applied, or nothing) that a
   request alone in `ClientCatalogue` implements, as a PROPERTY of `single`.
2. `PanelUpdate`: the stages of `update-from-github-core.sh` with a crash
   between any two, as another instance of `StagedChange`; the update of a
   binary in `Engines` is one too.
3. TLS issue and renewal, NaiveProxy's own commands.
