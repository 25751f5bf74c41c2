# EOAT Atlas: models, checks and proofs

EOAT Atlas keeps track of end-of-arm tools (EOATs), the machines they run on, the places they are
stored in and the tools, robots, audits and documents around them. A FastAPI service over MySQL is
the authority; a Qt desktop client keeps a disposable SQLite cache of it and polls for changes; a
set of launch, deployment and release programs brings new versions of both to their users.

This directory holds TLA+ models of that system, the TLC configurations that check them, and proofs
checked by TLAPS. `PROJECT.json` lists runs, mutants, theorems, hazards and findings, and maps every
definition to the lines of source it stands for.

    tlc -config AtlasWrites_writes.cfg MCAtlasWrites     # one run
    tlapm AtlasWritesProofs.tla                         # one module of proofs

## 1. The system

### Parts that are modelled

**Write service** (`src/server/eoat_api/write_services.py`, `write_routes.py`, `app.py`, `database/`).
State: the tables of EOATs and machines with `row_version` and `is_active`, the location history
(`eoat_installations`, `eoat_storage_assignments`), `idempotency_records`, `change_feed`, and the row
locks and snapshots of the transactions in progress. Operations: move to a machine, to storage, to an
unknown location; close an installation; edit, archive and restore an asset. One request is one
transaction: `get_write_session` opens it, `finalize_write_transaction` commits or rolls back before
the answer is released. Many requests run at once. Hard: locks are taken in several steps; a plain
SELECT reads the transaction's snapshot and a `FOR UPDATE` reads the newest commit; the two tables of
the location history have no constraint between them; clients retry; InnoDB chooses deadlock victims.
Correct when: an EOAT is in one place, a machine holds one EOAT, an archived EOAT is not installed,
no update is lost, an idempotency key executes once, history is only ever closed, and every request is
answered.

**Change feed and data state** (`data_state.py`, `services.py`). State: `data_revision` in the single
row of `data_state`, advanced in `before_commit` under that row's lock; `change_feed` with its
AUTO_INCREMENT ids, drawn when a row is flushed. Imports advance the revision and add no feed row.

**Client cache and synchronisation** (`src/core/data_gateway`). State: the cached entities, their
`data_revision` and the feed cursor. `SyncCoordinator.standard_refresh` asks for the changes after the
cursor and rebuilds only if there are any; `deep_refresh` takes one snapshot, which carries the feed's last
id as its cursor, and replaces the cache file. A write made by this client is followed by a standard refresh
of its own (`gateway.py:298`), on whichever thread made it.

**Freshness state machine and poller** (`src/core/data_freshness.py`, `data_freshness_qt.py`). State:
the polling state, the current revision, each page's displayed revision and stale mark; a single-shot
timer and one status request at a time on a worker thread.

**Window** (`src/app/atlas/minimalist/window.py`, `settings_page.py`). Starts loads by hand or because a
poll found a new revision, defers them while a settings edit or another load is open, queues a retry
when the edit is resolved, and takes the loaded bundle and its revision to the pages. Hard: a load of
several steps on one thread, a status request on another, the cache written from both sides, and
callbacks that arrive in any order. Correct when: the poller never falls asleep, an unmarked page
displays the current revision, a refresh misses no write that preceded it, and a deferred refresh
takes place.

**Deployment helper** (`deployment/privileged/eoat_atlas_deploy_helper.py`). State on disk: a record per
deployment or host change, one lock file for both, the `current` and `previous` links, the release
directories, the six files of the web host and their backups. Operations: begin, stage, activate,
abort, rollback, recover; install and rollback of the host configuration. Each is a root process of its
own, started over SSH. Hard: a process may be killed between any two file operations and only the
record tells what it had done; the lock names a transaction and not a process, so nothing keeps two
processes off one transaction; the current link is read before the lock is taken. Correct when: an
unfinished transaction keeps the lock, a free lock means the service runs what `current` names, links and
host files change under their own transaction, and what recovery advises is accepted. The code keeps the
first three only as long as no two operations overlap on one transaction, and not the last (section 3).

**Compatibility and fit check** (`services.py`, `write_services.py:540-666, 779-812`,
`src/core/compatibility_engine.py`). State: three tables of relationships (tool and machine, EOAT and
machine, EOAT and tool), each row with a verdict, a first and a last day and `is_active`; the tools'
`is_active`. Operations: create, patch and archive a relationship; the fit check, which an
installation runs unless it is overridden; the alternatives and guided options; the desktop's verdict
over the rows of a snapshot. Hard: rows of one pair overlap in time; the tables are read one by one
without a lock while others change them; the search for a duplicate row is a read before a write.
Correct when: what is offered fits, what is installed fitted, and the desktop does not refuse what the
server accepts.

**Location resolver** (`location_resolver.py`, the placement routes, the audit import). State: the open
and closed lifecycle rows with their times, and the observations imported from the audit workbook, which
carry a day and no time. Operations: the three relocations and the close, dated now or by the client;
entering an audit; importing; resolving one EOAT and listing the EOATs on a machine. Hard: two kinds of
evidence of different precision arrive in any order, and the list of machines joins them by machine number,
which is unique only within a plant. Correct when: the last move is shown until a newer audit replaces it,
and lifecycle rows alone never show two EOATs on one machine (which holds within a plant).

**Bootstrap** (`bootstrap/core.py`, `bootstrap/migration.py`). State on the user's disk: version
directories, `active_launcher.json`, `last_known_good_launcher.json`, the cached signed policy, a receipt
per update. Operations: update, offline launch, migration of a legacy shortcut. Hard: no lock; the active
pointer is switched before the health check; a process may end between any two writes. Correct when: a
pointer always names a complete directory, a confirmed launcher stays launchable, and a launcher that was
never confirmed is at least visible in a receipt.

**Desktop publishing and share launcher** (`scripts/publish_release.py`, `release_tools/launcher.py`).
State: `latest.json`, the packages in `Current` and `Archive` and `publish.lock` on the share;
`app_versions`, `current.json` and the last known good manifest on the user's machine. Operations:
publish, with the withdrawal of a failed one; update and launch. Hard: the publisher reads the share
before it takes the lock; launchers take none and read the manifest a second time. Correct when: what
`latest.json` names can be installed, an application is never replaced by an older one and starts without
the share.

**Publication** (`deployment/convergence/services.py`). State: tags, branch, GitHub release and assets;
the record and the public receipt on the operator's machine. Operations: `publish_start`,
`publish_resume`: eight steps, each verified and recorded, every recorded one verified again on resume.
Hard: a process may end between an effect and its record; two consoles may work on one publication.
Correct when: users see a release only whole, and the record is never ahead of the world.

**Coordinated release** (`deployment/privileged/coordinated_release_retry.py`). State: the API link and
the web link, what the service runs, a receipt per transaction. Operations: activate, with its own
rollback, and `post_activation_rollback`. Hard: two links are switched one after the other, without a
lock, and the way back may fail as well. Correct when: at rest the links and the service name one pair,
unless a transaction was cut short and its receipt says so.

The parts meet at few points. The client sees the write service through the revision and the feed
(`ClientFreshness`); the write service calls the fit check (`RefuseInstall` of `AtlasWrites`, whose inside
is `Compatibility`); the resolver reads the lifecycle rows it writes (`CurrentLocation`); the helper and
the coordinated release switch the links the service is started from; the publication produces what the
bootstrap and the share launcher install. Within a module interacting parts are composed: feed, cache,
poller and window in `ClientFreshness`, publishers and launchers in `DesktopRelease`, deployments and host
changes in `DeployHelper`.

### Parts that are not modelled

| Part | State and operations | Why not |
|---|---|---|
| Cache file (below `ClientFreshness`) | two renames, validation, history cache; the refresh that follows a write of this client (`gateway.py:297-301`), a second writer of the cache | next in the plan; in the model replacing the file is one step, and the load alone replaces entities |
| Shared workbook (`core/globalization`) | workbook lock, stale takeover, pending updates | the legacy backend; in the plan |
| Versioning (`release_tools/versioning.py`) | several version files under a lock file | sequential; in the plan |
| Signed install path (`launcher/cli.py`), single-instance guard, repair | installed releases | in the plan, as a variant of `LauncherUpdate` |
| Server updater, release manager, cutover rehearsals | operator workflows | they call the parts above over SSH and write reports |
| Authentication, annotations, tags, audits, maintenance, documents | single rows under a version check | every modelled request is taken as authorised; the rows are written as `update_asset` writes an asset |
| Read-only web client, desktop pages, reports, legacy Excel tools, development services | presentation, conversion of spreadsheets | no state shared with the rest |

Each is a component of `PROJECT.json` with its reason.

## 2. Modules

| Module | What it is |
|---|---|
| `EoatPlacement` | The promise: each asset has a version and may be active; each EOAT is in one place; every change is one step. |
| `AtlasWrites` | The write service, one action per step between two lock requests. |
| `AtlasWritesProofs` | Its inductive invariant and safety theorems, that it implements `EoatPlacement`, its action properties; and the properties of `CurrentLocation`. |
| `Compatibility` | Relationship rows, fit check, offers and the desktop's verdict, while rows change. |
| `CompatibilityProofs` | Its three properties, for every instance. |
| `CurrentLocation` | Lifecycle rows against audit observations, and what is shown. |
| `EoatsAndMachines` | The two sets `AtlasWrites` and `CurrentLocation` are both about. |
| `ClientFreshness` | Feed, revision, cache, poller, state machine and window together. |
| `ClientFreshnessProofs` | Its five safety properties, for every instance. |
| `DeployHelper` | Records, lock, links, service and host files under helper processes that may be killed. |
| `DeployHelperProofs` | Its types, and its five properties until operations overlap on a transaction, for every instance. |
| `CoordinatedRelease` | Two links, the service and the receipts under overlapping helper runs. |
| `CoordinatedReleaseProofs` | Its two properties and its types, for every instance. |
| `LauncherUpdate` | Bootstrap processes and the shortcut migration on one install root. |
| `LauncherUpdateProofs` | Its four properties and its types, for every instance. |
| `DesktopRelease` | Publishers and launchers around one share. |
| `DesktopReleaseProofs` | Its four properties and its types, for every instance. |
| `Publication` | Eight steps in git and GitHub, their record and the receipt, by several consoles. |
| `PublicationProofs` | Its two invariants, for any number of consoles and assets. |
| `MC...` | One for each of the modules that are run: symmetry sets and, for `LauncherUpdate`, the manifests. |

### AtlasWrites

A request goes through `phase`:

| Phase | Step that leaves it | Code |
|---|---|---|
| `idle` | `Receive` | the route parses the request; the first read opens the snapshot |
| `received` | `ClaimKey`, `AnswerKnownKey` | `idempotent`: locking read of the key's record |
| `keyed` | `LockRow`, `RefuseRow` | `_entity_by_identifier(lock=True)`, `check_version`, the archive check |
| `target` | `LockTarget`, `RefuseInstall` | the target's row with `with_for_update`; fit check, tool and robot checks |
| `relocate` | `CloseLocations` | `_close_active_locations` |
| `insert` | `FlushInstallation`, `RefuseOccupied` | the flush that the unique markers may refuse |
| `ready` | `Commit` | change feed, idempotency record, commit |
| any | `Fail` | any other error, a deadlock victim, a broken connection |

What a transaction writes under its locks is invisible to others until it commits, so the tables
change in `Commit` and the locks carry the rest: a row of the location history is named by the request
that made it, and `lock` says which transaction owns each row, the uncommitted insert included.
`snap` holds the one thing read from a snapshot: which EOATs were installed when the request began.

Data left out. Dates, names and free text become `Fail` when the code refuses them. The fit check and
the checks of tool and robot are the nondeterministic `RefuseInstall`. An asset status with the code
"archived" refuses an installation as `is_active` does; one flag stands for both. A machine may be
archived while an EOAT is installed on it: the code checks EOATs only. `POST /installations` is
`move_to_machine` under another key scope. A gap lock is kept per idempotency key, where InnoDB may
lock a wider gap; a lookup by `lower(...)` without an index may lock more rows than the one it finds;
both only add waiting, which the `retries` run already has. Closing an installation that is removed
returns early.

### ClientFreshness

A server write is one transaction: `FlushWrite` draws its feed id, `CommitWrite` advances `revision`.
Revisions count commits, so entities are a set of writes, and a view is at revision *n* when it holds
*n* of them. A poll is `StartCheck`, `AnswerPoll` or `FailPoll` at the server, and `PollSucceeded` or
`PollFailed` in the GUI thread, each of which ends with scheduling the next. A load goes through the
phases changes, snapshot, replace, entities, revision on its worker, then `DataLoaded` or `DataFailed`
and `ClearWorkerRefs` in the GUI thread. Window actions are `RefreshNow` (standard or deep),
`StartEdit`, `SaveEdit`, `DiscardEdit` and `RetryDeferred`. `Restart` ends all threads and keeps the
cache; `Restore` puts back a backup of the server that is older than all the writes, which resets the
AUTO_INCREMENT counter too.

Feed ids are drawn at the flush and become visible at the commit, so a write may commit after one with a
larger id, and a client whose cursor has passed both is never told of it. The history variable `overtaken`
holds such writes; `Told` is what the feed does tell of. `taken`, in the cache and the load, says after how
many restores a snapshot was taken. `CursorCovers` and `RefreshIsFresh` name their exceptions by these.

Simplifications. The seven pages always receive the same revision together and are one page. `shown`
keeps the last bundle while a foreground refresh blanks the page. The window may always poll: the
fairness assumption says it is not kept minimized with `poll_while_minimized` off.
`pause_refresh_while_editing` has its default, TRUE. `Automatic` is the setting
`refresh_when_data_changes`, whose default is "notify". Replacing the cache file is one step, and a
cache that records no revision does not occur. The refresh that follows a write of this client is left out:
the load is the only writer of cached entities and cursor. The legacy backend, which does not poll, is out.

### DeployHelper

`at[p]` says which operation helper process `p` executes, on which transaction, and the last step it
took; most steps are named by the state just saved. `at[p].state` is the part of the record that the
process has in memory: every save writes all of it back, over whatever another process has saved since. An
operation starts with the checks of its entry
(`Begin`, `Stage`, `Abort`, `Activate`, `Rollback`, `Install`, `HostRollback`) and goes on in the steps
of `BeginStep`, `StageStep`, `AbortStep`, `ActivateStep`, `UndoStep`, `HostStep` and `RestoreStep`.
`SaveStep` writes the record and reads the lock; `RewriteLock` is the second half of `_save`, which
replaces the lock file even if it is no longer there. Creating the lock and writing it are two steps
(`CreateLock`, `WriteLock`), with `lock = Unwritten` in between. `Crash` ends a process and keeps what
is on disk. `ActivateStep` and `UndoStep` share the rollback: the automatic one continues as `undo`.

Nothing in the helper keeps two processes off one transaction, and nothing in the model does: an operation
starts whenever its own checks pass. `overlaps` counts the operations that start on a transaction another
process is at work on, and the properties speak of behaviours without one. The exception is global and not
of the one transaction, because a process whose lock is gone may put a lock file in place over that of any
other transaction (`RewriteLock`). `MaxOverlaps` bounds the count: once it is reached no operation starts,
and those under way go on to their ends.

Simplifications. Verification of archives, manifests, runtimes, NGINX and systemd files is a refusal
that may or may not happen; health succeeds only for a running service, and after an activation only
for the activated release. Two checks of one operation with no save between them are one step, and so are
reading the record and checking it. Six host files are old, mixed or new. `SOURCE_VERIFIED`,
`FILES_PREPARED` and the three `*_VALIDATED` host states lie inside steps. A deployment id that has a record
is refused; a host id may be used again, and starts over with a new record. The service stops only in a
restart. A reboot, which may empty the directory of the lock file, is left out.

### Compatibility

`Begin` takes the snapshot a request reads from (`actor_context` is the first read of the transaction).
`BeginCreate`, `Create` and `RefuseCreate` are the creation of a relationship, the only write that reads
before it writes; `Update`, `ArchiveRow`, `ArchiveTool` and `RestoreTool` are patches that lock what they
change, and are one step. `BeginInstall`, `RefuseTool`, `ReadPair` (once per table) and `Decide` are the fit
check within an installation; what happens to the installation then is in `AtlasWrites`. `FitCheck`,
`Alternatives`, `Options` and `DesktopSetup` are operators over the rows: the first judges a pair by the
row that took effect last, the second and third by any row in force, and the desktop by any active row.

Simplifications. The three tables are one set of rows, keyed by pair and first day as they are. Robots
are left out. Status codes are classes of verdicts. A request does not last over midnight. The free-text
scoring of `compatibility_engine` ranks what has passed and decides nothing. In the desktop a relation
carries neither status nor dates, so it passes pairs the server refuses; only the other direction is a
property.

### CurrentLocation

A placement request is one step, since its interleavings are the subject of `AtlasWrites`:
`MoveToMachine`, `MoveToStorage`, `CloseInstallation` and `MarkLocationUnknown` close the open rows and
open one, dated now, back or ahead. `Number` gives each machine its number, which two machines of different
plants may share. A lifecycle row names a machine, but what is resolved, from a row or from an audit, is a
number, and `CurrentEoats` goes by it. `Audit` writes into the workbook and `Import` takes its latest audits
over. `Resolve` is the decision of `resolve_eoat_locations`, `CurrentEoats` the list of EOATs on a machine.
Two instants a day give two events of one day an order. Names are not normalised: places are values.
Its specification is `LocationSpec`, so that one module can extend it beside `AtlasWrites` and prove what
each says of the same rows.

### LauncherUpdate

Every step of `update()` ends with one write: `Begin` (cached policy, reconciliation), `Open` (receipt),
the receipts of the stages, `Install` (rename), `Activate` (pointer), `HealthPasses` or `HealthFails`,
`Confirm` or `RecordRollback`. `Fail` is the exception handler and `Crash` the end of a process at any of
them. `MigrateKeep`, `MigrateActive`, `MigrateLkg` and `MigrateShortcut` are `migrate_shortcut`. The install
root is fresh at first or has a confirmed launcher. Signatures and the bytes of packages are right or
refused. Two history variables name what the code leaves open: `overlapped` exempts overlapping calls from
three properties, because no lock keeps them apart, and `setBack` a migration that found a newer confirmed
launcher from `ConfirmedStaysLaunchable`. `PointersSound` holds without either.

### DesktopRelease

A publisher goes through `ReadShare`, `Acquire`, `Copy`, `Archive`, `Promote`, `Succeed`; an exception is
`Withdraw`, death is `PublisherDies`, and an operator may remove the lock of a publisher that is gone. A
launcher goes through `StartUpdate`, `Fetch`, `Place`, `Point`, `Cache`, with `InstallFails`, one `Reread`
and `FallBack`. History variables: `torn` (a promotion was cut short or withdrawn after its manifest),
`regressed` (overlapping publishers took `latest.json` back), `raced` (two launchers worked on one root).
Each names the only way in which a property may be lost.

### Publication

Each step is an effect (`Promote`, `EnsureTag`, `PushBranch`, `PushTag`, `EnsureRelease`, `UploadAssets`,
`VerifyAssets`, and `WriteReceipt`, `AttachReceipt`, `PublishRelease` for the last) followed by `Confirm`,
its independent verification, and the save of the record (`Look`, `Save`: the store looks and then
replaces). `Start` begins or resumes, `Reverify` goes through the recorded steps, `Fail` is an exception
anywhere, `Crash` the end of a console, `MoveHead` other work in the checkout. The sealed candidate stays as
it is, and a remote object either has its bytes or is somebody else's.

### CoordinatedRelease

The steps of `activate` are `Start`, `ExtractServer`, `StageFrontend`, `SwitchApi`, `SwitchWeb`, `Restart`,
`Accept`, `RecordActive`; a failure of any leads to `UndoApi`, `UndoWeb`, `UndoRestart`, `UndoVerify`,
`RecordRolledBack`. `StartRollback` to `WriteEvidence` are `post_activation_rollback`. `Stop` ends a helper at
any step and may leave a receipt it was writing torn. A restart serves what the API link names or nothing.

## 3. Runs

Every bound is a constant of the module or the size of a set in the cfg. `CHECK_DEADLOCK FALSE` is set
where budgets run out and the system may come to rest: a request is sent at most once, a deployment is begun
once, and changes, builds and transactions are counted. `publication` and `resumed` check deadlock (a
console may always start again).

| Run | Instance | Shows |
|---|---|---|
| `writes` | 2 EOATs, 2 machines, 1 location, 3 requests of every kind | `OnePlace`, `MachineHoldsOne`, `ArchivedNotInstalled`, `NoLostUpdate`, `HistoryKept`, `InstallsOnActiveMachine`, and the refinement `PlacementSpec` |
| `retries` | 1 EOAT, 1 machine, 1 location, 3 requests, one key shared | `ExecutedOncePerKey`, `ReplayedWasExecuted`, types, and `EveryRequestAnswered` under `FairSpec` |
| `fit` | 1 tool, machine and EOAT, 2 requests, 2 days, 2 changes, every imported set of rows | `OfferedFits`, `InstalledWhileFitting`, `DesktopFollows` |
| `location` | 2 EOATs, 3 machines (two share a number), 2 days, 4 writes, 2 audits | `LastMoveShown`, `TwoShownOnlyByAudit` |
| `serial` | 2 API writes that may overlap, 1 import, a failure, a restore | `CursorCovers`, `RefreshIsFresh` |
| `noticing` | 1 import, a failure, an edit, a restart, a restore | `PollerAwake`, `UnstaleMeansCurrent`, `DeepRefreshIsFresh`, and `RevisionNoticed` under `FairSpec` |
| `deploy` | 2 deployments, 1 host change, 2 helpers, 2 releases, 1 overlap | `OpenHoldsLock`, `FreeLockSound`, `CompletedRuns`, `PreviousWasCurrent`, `HostChangesAlone` |
| `coordinated` | 2 helpers, 3 releases, 3 transactions | `SettledIsConsistent`, `RolledBackIsRestored` |
| `launcher` | 2 processes, 2 transactions, 4 manifests (versions 1, 2, 3 and a mandatory rebuild of 2 that revokes 1), a legacy shortcut to version 1 | `ConfirmedStaysLaunchable`, `FallbackConfirmed`, `PointersSound`, `ActiveNeverOlder` |
| `desktop` | 2 publishers, 2 launchers, 2 versions, 3 builds | `LatestInstallable`, `AppNeverDowngraded`, `OfflineStartPossible`, `OneBuildPerVersion` |
| `publication` | 2 consoles, 2 assets | `PublicIsWhole`, `RecordTruthful` |
| `resumed` | 1 console, 2 assets | the finding below: `BlockedByMismatchOnly` is violated |

Why the bounds are enough. Two EOATs and two machines are needed for a swap and for two EOATs on one
machine; a third of either plays no part in a conflict, which is always between two requests over one row.
Three requests allow a place that exists and two requests that race over it, or an archive between a check
and a commit. A shared key needs a first executor, one that races with it and one that comes after the
commit. A fit check over one setup reads three pairs; two changes put one write before and one after each
read, or two rows on one pair. In `location` four writes are a place for either EOAT and a race for a
machine, two audits follow or precede them on either day, and of three machines two have one number and the
third has its own. For the client, a cursor goes wrong with one write on each side of a request, and with two
writes that commit in the other order than they drew their ids; an import and a restore are the other
exceptions that `serial` must meet. `noticing` spends its states on disturbances, one of each, which reaches
every transition of the state machine, and has one write, an import, which no feed row announces. A deployment
meets another one or a host change only through the lock and the links, so two deployments and one host change,
whose id may be used again, show every order; what an overlap leaves behind is seen in the steps that follow it.
Three coordinated transactions are an active pair, one that fails or is rolled back, and one
that starts from what it left. In `launcher` a confirmed launcher, on disk at first or made by the first
transaction, is followed by an update that fails, dies or races; with three versions a migration may meet a
newer launcher. In `desktop` a third build lets a
withdrawn version be published again. A crash ends a process whenever it likes. The runs have up to about
four and a half million states (`serial`). Symmetry is declared over sets whose members no definition distinguishes, and in no
run with a liveness property. (`AnyRow` of `AtlasWrites` chooses from a set that `OnePlace` makes a
singleton.)

**Fairness.** `AtlasWrites`: a received request is worked on until it is answered, and a transaction in a
cycle of lock waits is failed, because InnoDB detects deadlocks and has a lock wait timeout; nothing is
assumed of clients, and other failures need not happen. `ClientFreshness`: the Qt event loop delivers
timers and signals, and the two workers go on; nothing is assumed of the user, the writers or failures. The
other modules state safety only: a helper, launcher or publisher that was killed is started again by a
person, or never.

Every property of a passing run has a mutant: a definition with a plausible mistake (a lock not taken, a
flag not reset, the feed read before the snapshot) under which the run finds the property violated.

### Finding

`resumed`: `verify_step` demands of the completed step GITHUB_RELEASE_CREATED that the release still is a
draft (`deployment/convergence/services.py:412`), and of PRIMARY_ASSETS_UPLOADED exactly the sealed assets
(line 424). The last step uploads the receipt and then makes the release public, so a failure after either
effect blocks every resume, although ref, tag, release, assets and tree match the candidate.
`docs/RELEASE_DEPLOYMENT_CONSOLE.md:85`: "Resume first proves completed local/remote state still matches the
candidate.  A mismatched ref, release, asset, tree, archive, or manifest is blocked".

### Known disagreements

Formulas that the modules state and the code does not keep. No run lists them; with the instance given, TLC
shows a counterexample to each.

- `PageRevisionTruthful` (`ClientFreshness`; one API write). A poll that ends during a load writes its
  revision into the cache (`data_freshness_qt.py:197`), and the load then labels older entities with it.
  `docs/architecture/data_freshness.md:10`: the page revision is "the server revision represented by a
  loaded data view".
- `RefreshIsFresh` without its exceptions (`Told(load.since)` replaced by `load.since`, or without the
  conditions on `era` and `taken`; run `serial`). `sqlite_cache_design.md:12` makes none: "Standard Refresh
  checks compatibility and requests changes after the stored cursor. [...] If authoritative changes exist, this
  initial implementation reconciles through a full snapshot". In the code it misses changes that exist in three
  cases. Imports advance the revision and add no feed row, so the cached entities are kept
  (`sync_coordinator.py:24`). A feed id is drawn at the flush (`write_services.py:240`): if a write with a larger
  id commits first and the client refreshes, its cursor is past the smaller one, which commits later and is
  never listed. And after a restore the cursor is past the feed, or names a row of another history.
- `RestoredDataReloaded` (`MaxRestores = 1`). After a decrease the client announces that it "will safely
  reload before treating data as current" (`data_freshness.py:278`); the reload is a standard refresh with a
  cursor past the restored feed, so undone writes stay on display as current.
- `DeferredRefreshRuns` (under `FairSpec`, `Automatic = TRUE`, one edit). A poll during an edit overwrites the
  paused state, which is the only record of a deferred refresh, so the retry (`window.py:407`) does nothing.
  `window.py:269`: "Resume a refresh deferred solely for an unsaved Settings edit."
- `AdviceAccepted` (`DeployHelper`; two deployments). `recover` advises "rollback"
  (`eoat_atlas_deploy_helper.py:818`) for a deployment whose helper was killed at `PREFLIGHT_PASSED`,
  `ARTIFACT_TRANSFERRED`, `ROLLBACK_STARTED` or `COMPLETED`; neither rollback nor abort accepts these states,
  and the lock stays.
- `OpenHoldsLock`, `FreeLockSound`, `CompletedRuns`, `PreviousWasCurrent` and `HostChangesAlone`, each without
  `overlaps = 0` (`DeployHelper`; two deployments, a host change and two helpers; one overlap for the first
  three, `MaxOverlaps = 2` for the others). The lock names a transaction, and every process of that transaction
  passes `_assert_lock`. The comment at `eoat_atlas_deploy_helper.py:940` says of host changes and activations
  that they "can never interleave". They do:
  - `OpenHoldsLock`, in 13 steps on the updater's own path: the SSH transport of a running `stage` fails,
    `active_deployment.py:160-170` sends `abort`, which frees the lock, and the `stage` that still runs on the
    server saves its next states, up to STAGED_VALIDATED, without a lock. The comment there calls the abort
    "narrowly constrained to pre-activation states", which does not help against a process that has passed them
    in its memory.
  - `FreeLockSound`: a rollback of a host change begins while its install is still replacing files, and frees the
    lock over files of two configurations; or an abort accepted at STAGED_VALIDATED frees it while an activation
    that was accepted in the same state moves links.
  - `CompletedRuns`: an operator rolls back a deployment whose activation still waits to become healthy
    (`eoat_atlas_deploy_helper.py:737`); the activation then records COMPLETED over the restored link.
  - `PreviousWasCurrent` and `HostChangesAlone`: an activation whose lock a rollback or an abort has freed links
    `previous` after another deployment has moved `current`, or moves links while a host change that took the
    free lock is replacing files.
- `TwoShownOnlyByAudit` without its second case (`CurrentLocation`; two machines with one number). `list_machines`
  collects installed EOATs under `location.machine_number` (`repositories.py:385-407`), but a number is unique
  per plant (`models.py:356`): of two EOATs on same-numbered machines of two plants each machine shows both.
- `AppNeverDowngraded` without `raced` and `regressed` (`DesktopRelease`; two launchers, two publishers).
  `docs/RELEASE_AND_UPDATE.md:17` says that "newer local versions are never downgraded". Two launchers on one
  root that read different manifests may install the older version last, since neither compares again after its
  first look; and the manifest that a launcher reads after a failed install (`release_tools/launcher.py:335`) is not
  compared with what is installed, so one that overlapping publishers have taken back is installed. The
  same two cases are the exceptions of `OfflineStartPossible`.

## 4. Proofs

Every safety property of a passing run is a theorem. The theorems assume only what the modules declare of
their constants and hold for any number of assets, requests, days, writes, processes and overlaps; where the
code breaks a promise in some case, the property itself names the case (sections 3 and 5), and no theorem has
a hypothesis of its own. Each inductive invariant was checked by TLC before it was proved.

**AtlasWrites.** The properties are not inductive: that two transactions cannot both put an EOAT somewhere
depends on who holds which lock and on what has been checked under it. `IInv` says, for every request,

- what kind of request can be in which phase (`ShapeOK`, `PhaseOK`) and which rows it made (`RowsOK`);
- that from its first lock on it holds the row it names, and then its target (`LocksHeld`,
  `LocksOwned`);
- that what it checked under those locks is still so (`ChecksHold`), and that every active
  installation that collides with the one it is about to commit is locked by it (`LocationsClosed`);
- that versions only grow past what clients expect (`VersionsOK`);
- that the snapshot of an archiving request is right as long as the version it expects is the
  current one (`SnapshotOK`): an installation made since has bumped the version, so the stale check
  is made good by the version check under the lock;
- that whoever holds the gap of a key finds no executed request under it (`KeyOK`).

`Invariance` shows `Spec => []IInv`, with a lemma per action; `TypeCorrect`, `PlacesExclusive`,
`MachinesExclusive`, `ArchiveSafe`, `RetriesSafe`, `ReplaysAreExecuted` and `UpdatesNotLost` follow. `Refinement` shows `Spec => PlacementSpec`:
steps other than commits leave the placement alone (`PlacesUnchanged`), and a commit is one step of
`EoatPlacement` (`CommitSimulates`). `HistoryTheorem` and `InstallTheorem` are action properties
from the same invariant.

**ClientFreshness.** `PollerStaysAwake` is inductive with the types of two variables.
`UnstalePagesAreCurrent` needs no more than the types it cites. Both hold with restores, concurrent
writes and every value of the bounds.

What a refresh shows depends on what its load has read. `Seen` says in each phase where the writes are that
had committed when the user asked: nowhere yet, in the snapshot, in the cache, in the bundle. For a deep
refresh it is inductive with the types alone (`DeepInv`), because a deep load takes a snapshot whatever the
cursor says, and only one load at a time replaces the cache: `DeepRefreshShowsAll` holds for overlapping
writes, with imports and restores. A standard refresh skips the snapshot when the feed is empty after the
cursor. That is right when `CursorCovers` is: every committed write up to the cursor is in the cache, but for
those that were overtaken and cursors from before a restore. `FeedInv` strengthens it. `Order` says that ids in
the feed are distinct and that a cursor of this era is 0 or the id of a committed write, so a write that commits
below it has, by that very commit, been overtaken; `Covers` says of a snapshot that has not replaced the cache
yet what `CursorCovers` says of the cache. `FeedInvariance` and `CursorTells` need nothing else, and with
`SeenTold`, which is `Seen` for the writes the feed tells of, `RefreshShowsAll` follows: for any number of
writes at once, imports and restores. The snapshot's cursor is the last id of the feed; `LastIdBound` shows
that a bounded set of ids has one.

**CurrentLocation.** `LocationIInv` adds to the types that an EOAT has one open row (`OneRow`), a machine one open
installation (`OnePerMachine`), and that an open row is that of the last accepted write (`LastIsOpen`).
`LastMoveAlwaysShown` and `OnlyAuditsShowTwo` follow by the cases of `Resolve`; nothing is assumed of the numbers
of machines.

**Compatibility.** `InstallationsFitted`: `InstallInv` says that what a request has judged so far is what
its snapshot holds (`JudgedBySnapshot`, which also says that `held` is true if the snapshot fits); the snapshot is one
instant of the tables, so three reads of it are. `OffersFit`: `OfferInv` says that a pair has at most one
active row unless it is in `overlapped`, because a create sees every active row that was there when its
snapshot was taken. With one row in force "the newest" and "any" agree. `DesktopAlwaysFollows` needs only
the operators.

**Publication.** `IInv` says that each record, the saved one and those the consoles hold, is covered by the
world (`Truthful`), that a console performs only the step after its last completed one (`InOrder`), and how
far the last step has come (`ReceiptLast`). The facts in question never become false again (`WorldGrows`), so
another console cannot take them back. `ReleasesAreWhole` and `RecordsAreTruthful` follow.

**LauncherUpdate.** `DiskOK` says what each process may rely on (`ProcOK`): its receipt, the directory it has
placed and the pointer it has read are still there. Directories, receipts and pointers that exist go on
existing (`Grows`), so that no other process disturbs it, and `PointersAlwaysSound` needs nothing else. The
other properties are not true of overlapping calls; `SerialOK` says, as long as none have overlapped, that a
call is alone and from which pointer to which it is on its way (`Calm`), that the active launcher is not
older than the last known good one and has something to vouch for it (`Ordered`), and `ReceiptsOK` that what
a receipt calls confirmed is still covered. `ConfirmedLaunchable`, `FallbackVouched` and the action property
`NeverOlder` follow.

**DeployHelper.** `TypeInv` adds to the types that the transaction and the state a process has in memory suit
its operation (`Fits`), and that a deployment's record names its two releases. It holds whatever overlaps, and
`DeployTypeCorrect` is a part of it. The properties are true until operations overlap on a transaction, and
none of them is inductive without the helpers, so `IInv` says in that case (`overlaps = 0 => Alone`) where each
helper is. `HelpersOK`: the operation and last step a helper has reached determine the record of its transaction
and whether the lock names that transaction (`Placed`), and what it has done to links, service and files so far
(`Done`: an activation knows that `current` is still the release it has read, then that it is the target).
Since a lock names one transaction and, without overlaps, a transaction has one helper, only one helper is past
its lock stage, and the steps of the others leave what it relies on alone (`OthersKeep`). An install that uses
an id again is before its lock stage, although the lock may still name its id. `RecordsOK` is what a kill leaves
behind: an open transaction holds the lock, a service that does not run the current release means an activation
or rollback under way in the record that the lock names, and mixed files mean the same of a host change. The
theorems are `LockHeldWhileOpen`, `FreeLockAlwaysSound` and, as action properties, `CompletedRunsTarget`,
`PreviousLinkSound` and `HostFilesApart`; `StepKinds` sorts the steps into those that save a record, those that
touch links, and the rest. A step that starts an overlap, or follows one, owes nothing but the types.

**DesktopRelease.** Publishers take a lock, launchers take none, and both go on with manifests they read
earlier. `PublicationOK` is what the lock gives its holder: nobody else changes the share, its package is
in `Current` once it is copied, and its build is in nobody's manifest until `latest.json` names it.
`ManifestsOK` says of all manifests anyone may still go by (`Known`: latest, cached, remembered by a publisher
or held by a launcher) that a build has one manifest. `ShareOK` says that the package of a known manifest is in
`Current` or archived, that an archived version is behind the latest one, and that what `latest.json` names is
in `Current`, unless a publisher that still has the lock has just moved it away. A version therefore has one
package (`VersionsHaveOneBuild`), and `LatestCanBeInstalled` is the case in which no
such publisher is left; a promotion that was cut short is the exception `torn`. `NewestIsLatest` says that no
known manifest is newer than the latest one unless overlapping publishers took it back. A launcher that
compares versions and installs later may rely on its manifest only while it is alone on its root (`UpdateOK`,
unless `raced`); `NeverDowngraded` follows. For `OfflineStart`, a version directory is never removed or
given another build, and a manifest demands no more than its own version.

**CoordinatedRelease.** Nothing keeps two helpers apart, so what a call has done is known only as long as
none have overlapped (`SerialOK`). Then one helper runs at a time (`Alone`), and the step it has reached says
what its receipt, the links and the service are (`Reached`). `SettledIsConsistent` speaks of rest;
`Accounted` says the same of every moment, which makes it inductive: an activation has written "started"
before it moves anything, and a rollback moves the API link first, which tells it from one that has not
begun. The call gives that account up only at the checks that precede its record. `SettlesConsistent` and
the action property `RecordedMeansRestored` follow; the types hold with overlapping helpers too.

Only model-checked: the liveness properties `EveryRequestAnswered` and `RevisionNoticed`. Temporal proofs
under fairness are out of this prover's reach. The finding and the known disagreements of section 3 are
counterexamples, and nothing is proved about what they concern.

## 5. What is not checked

- What the properties except: imports, overtaken writes and restores for a standard refresh, overlapping
  operations for the deployment helper, same-numbered machines for the list of machines, and the history
  variables of `LauncherUpdate`, `DesktopRelease` and `CoordinatedRelease`. Sections 2 and 3 name them.
- The refresh after a write of this client (`gateway.py:297-301`), which may run beside a load.
- A refresh deferred because another load was running is not retried when that load ends.
- A status poll that precedes the first load only records its revision, so no automatic refresh
  follows; the page is marked stale.
- A helper killed between creating the lock file and writing it leaves a lock that no operation can
  release; the model has the state, and no document promises a way out. The same happens when a host id is used
  again: the new record has no backup, `_backup` (line 1255) dies of the directory that is already there, with
  the lock held, and a rollback dies of the missing backup. A reboot, which may empty the
  directory of the lock file, is left out.
- `AtlasWrites` and `Compatibility` rely on InnoDB's default REPEATABLE READ. The repository sets no
  isolation level; under READ COMMITTED the fit check could judge three tables at three instants (the
  mutant of `InstalledWhileFitting`).
- `InstalledWhileFitting` asks that a setup fitted at one instant of the request, not that it still fits at the
  commit; `RecordTruthful` speaks of a step once it is recorded, not of a head that moves during the first one.
- `OfferedFits` exempts pairs two overlapping requests created twice (`write_services.py:565`): nothing in
  the database keeps the second row out, and the offers then go by either row.
- An EOAT marked unknown falls back to an old audit if it has one, and a future `installed_at` makes every
  later move of that EOAT a conflict until that time; both are in `CurrentLocation`, and `LastMoveShown`
  speaks of writes that give a place.
- The bootstrap caches the policy before it checks it (`bootstrap/core.py:401`), and after a crash at
  ACTIVE_PENDING_HEALTH a second update to that version reports CURRENT (lines 425-428): `FallbackConfirmed`
  names this case.
- `migrate_shortcut` makes the shortcut's version active and last known good whatever newer launcher is in
  place (`bootstrap/migration.py:44-46`); nothing promises otherwise, and `setBack` names the case.
- An exception after `latest.json` was replaced deletes the package it names (`publish_release.py:209-215`),
  and a crash between archiving and replacing (200-207) leaves it naming one that has moved: `torn`.
- `ReceiptStore.write` looks and then replaces; two consoles may overwrite each other's record. `Look` and
  `Save` are two steps, and `RecordTruthful` holds all the same.
- In the coordinated release a rollback that fails leaves its receipt "started"; a helper that dies after
  creating the rollback record leaves it malformed for good (711-716); and preflight accepts a mixed pair
  (743-747). `SettledIsConsistent` names the first and the last; nothing asks for repair.

## 6. Plan

Done: `EoatPlacement`, `AtlasWrites`, `CurrentLocation`, `Compatibility`, `ClientFreshness`, `Publication`,
`LauncherUpdate`, `DeployHelper`, `DesktopRelease` and `CoordinatedRelease`, each with proofs of its safety
properties.

Left:

1. `CacheFile`: the two renames, validation and the history cache, below `ClientFreshness`.
2. `WorkbookLock`: stale takeover and pending updates. Then versioning, and the signed install path of the
   launcher as a variant of `LauncherUpdate`.
3. Proofs: what `DeployHelper` keeps when only one transaction's operations overlap; that the lifecycle rows of
   `CurrentLocation` implement `EoatPlacement` as those of `AtlasWrites` do; the abstract specifications of
   `CoordinatedRelease` and `DesktopRelease` as refinements.
