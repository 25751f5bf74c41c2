--------------------------- MODULE LauncherUpdate ---------------------------
(***************************************************************************)
(* The bootstrap's launcher self-update (bootstrap/core.py) and the         *)
(* migration of a legacy shortcut (bootstrap/migration.py) on one user's    *)
(* install root: immutable version directories, an active and a last known  *)
(* good pointer, the cached signed policy and one receipt per transaction.  *)
(* All of it is on disk and survives a process, which may die between any   *)
(* two writes.  Several bootstrap processes may run at once: the code takes *)
(* no lock.                                                                 *)
(*                                                                          *)
(* Simplified: signatures are valid, a package is what its manifest says or *)
(* the transaction fails, and an exception may be raised at any step.  The  *)
(* digest of a manifest is the manifest.                                    *)
(***************************************************************************)
EXTENDS Naturals

CONSTANTS
    Processes,       \* bootstrap processes
    Manifests,       \* signed launcher manifests, records of ManifestRecords
    LegacyVersion,   \* the version a direct launcher shortcut stands for
    MaxTxn,          \* bound: update transactions
    None,            \* no directory, pointer, policy, receipt
    Partial,         \* a version directory that holds the executable only
    Legacy           \* the digest written by the shortcut migration

Versions == {m.version : m \in Manifests} \cup {LegacyVersion}
Builds == {m.build : m \in Manifests}
Txns == 1 .. MaxTxn

ManifestRecords ==
    [version: Nat, build: Builds, minimum: Nat, mandatory: BOOLEAN, revoked: SUBSET Nat]

Pointers ==
    [version: Versions, build: Builds, digest: Manifests \cup {Legacy}]
Unfinished ==
    {"CHECKING", "DOWNLOADING", "PACKAGE_VERIFIED", "CANDIDATE_SMOKE_TESTING",
     "ACTIVATING", "ACTIVE_PENDING_HEALTH"}
Finished ==
    {"ACTIVE_CONFIRMED", "ROLLED_BACK", "FAILED_RECOVERABLE", "BLOCKED_REQUIRED_UPDATE"}
Receipts == [state: Unfinished \cup Finished, target: Versions]

ASSUME ManifestsAssumption == Manifests \subseteq ManifestRecords
ASSUME BoundAssumption == MaxTxn \in Nat /\ LegacyVersion \in Nat
ASSUME NullAssumption ==
    /\ {None, Partial} \cap Builds = {}
    /\ None # Partial
    /\ Legacy \notin Manifests
    /\ None \notin Manifests
    /\ None \notin Txns \cup Pointers \cup Receipts

VARIABLES
    versions,     \* launcher_versions: the build in each version directory
    staging,      \* transactions whose .staging directory exists
    active,       \* active_launcher.json
    lkg,          \* last_known_good_launcher.json
    policy,       \* cached_launcher_manifest.json
    receipts,     \* launcher_update_receipts
    procs,        \* the update() call each process is in
    migration,    \* the migrate_shortcut() call under way
    shortcut,     \* what the user's shortcut starts
    passed,       \* history: versions whose startup health check passed
    overlapped,   \* history: an update began or a migration wrote while another ran
    setBack       \* history: a migration has replaced a newer confirmed launcher

disk == <<versions, staging, active, lkg, policy, receipts, shortcut>>
history == <<passed, overlapped, setBack>>
vars == <<disk, procs, migration, history>>

Stages ==
    {"idle", "begun", "checking", "downloading", "verified", "staged", "installed",
     "activating", "pointed", "pending", "promoted", "restored"}

TypeOK ==
    /\ versions \in [Versions -> Builds \cup {None, Partial}]
    /\ staging \subseteq Txns
    /\ active \in Pointers \cup {None}
    /\ lkg \in Pointers \cup {None}
    /\ policy \in Manifests \cup {None}
    /\ receipts \in [Txns -> Receipts \cup {None}]
    /\ procs \in [Processes -> [pc: Stages, manifest: Manifests \cup {None},
                                txn: Txns \cup {None}, previous: Pointers \cup {None}]]
    /\ migration \in {"idle", "active", "both"}
    /\ shortcut \in {"legacy", "bootstrap"}
    /\ passed \subseteq Versions
    /\ overlapped \in BOOLEAN
    /\ setBack \in BOOLEAN

Idle == [pc |-> "idle", manifest |-> None, txn |-> None, previous |-> None]

PointerTo(m) == [version |-> m.version, build |-> m.build, digest |-> m]

Fresh ==
    /\ versions = [v \in Versions |-> None]
    /\ active = None
    /\ lkg = None
    /\ policy = None
    /\ passed = {}
    /\ shortcut = "legacy"

(* An install root on which an earlier update to m was confirmed.            *)
Confirmed(m) ==
    /\ versions = [v \in Versions |-> IF v = m.version THEN m.build ELSE None]
    /\ active = PointerTo(m)
    /\ lkg = PointerTo(m)
    /\ policy = m
    /\ passed = {m.version}
    /\ shortcut \in {"legacy", "bootstrap"}

Init ==
    /\ Fresh \/ \E m \in Manifests : Confirmed(m)
    /\ staging = {}
    /\ receipts = [t \in Txns |-> None]
    /\ procs = [p \in Processes |-> Idle]
    /\ migration = "idle"
    /\ overlapped = FALSE
    /\ setBack = FALSE

(***************************************************************************)
(* Pointers.                                                                *)
(***************************************************************************)
Valid(pointer) == pointer # None /\ versions[pointer.version] = pointer.build

ValidPointer(pointer) == IF Valid(pointer) THEN pointer ELSE None

Busy == {p \in Processes : procs[p].pc # "idle"}

(***************************************************************************)
(* One update() call.  Every step ends with one write to the disk.          *)
(***************************************************************************)
Goes(p, from, to) ==
    /\ procs[p].pc = from
    /\ procs' = [procs EXCEPT ![p].pc = to]

Ends(p, from) ==
    /\ procs[p].pc = from
    /\ procs' = [procs EXCEPT ![p] = Idle]
Record(p, state) == receipts' = [receipts EXCEPT ![procs[p].txn].state = state]

(* Verifying the manifest, reconcile() and the cached policy, which is       *)
(* written before any of the policy checks.  reconcile() removes the staging *)
(* directories of every transaction.                                         *)
Begin(p, m) ==
    /\ procs[p].pc = "idle"
    /\ \E t \in Txns : receipts[t] = None
    /\ staging' = {}
    /\ policy' = m
    /\ procs' = [procs EXCEPT ![p] = [Idle EXCEPT !.pc = "begun", !.manifest = m]]
    /\ overlapped' = (overlapped \/ Busy # {} \/ migration # "idle")
    /\ UNCHANGED <<versions, active, lkg, receipts, migration, shortcut, passed, setBack>>

Open(p) ==
    /\ procs[p].pc = "begun"
    /\ \E t \in Txns :
        /\ receipts[t] = None
        /\ \A s \in 1 .. (t - 1) : receipts[s] # None
        /\ receipts' = [receipts EXCEPT ![t] =
                [state |-> "CHECKING", target |-> procs[p].manifest.version]]
        /\ procs' = [procs EXCEPT ![p] =
                [@ EXCEPT !.pc = "checking", !.txn = t, !.previous = ValidPointer(active)]]
    /\ UNCHANGED <<versions, staging, active, lkg, policy, migration, shortcut, history>>

Revoked(m) == m.version \in m.revoked
\* Mutant of Downgrade: an older manifest is accepted.
DowngradeAllowed(p) == FALSE

Downgrade(p) ==
    /\ procs[p].previous # None
    /\ procs[p].previous.version > procs[p].manifest.version

SameVersion(p) ==
    /\ procs[p].previous # None
    /\ procs[p].previous.version = procs[p].manifest.version

Inconsistent(p) ==
    /\ procs[p].previous # None
    /\ procs[p].previous.version < procs[p].manifest.minimum
    /\ ~procs[p].manifest.mandatory

(* "launch active launcher": the call returns without another receipt.  The *)
(* active pointer is read a second time for this check.                     *)
ReportCurrent(p) ==
    /\ Ends(p, "checking")
    /\ ~Revoked(procs[p].manifest)
    /\ ~Downgrade(p)
    /\ SameVersion(p)
    /\ Valid(active)
    /\ active.digest = procs[p].manifest
    /\ UNCHANGED <<disk, migration, history>>

Download(p) ==
    /\ Goes(p, "checking", "downloading")
    /\ ~Revoked(procs[p].manifest)
    /\ ~Downgrade(p)
    /\ ~SameVersion(p)
    /\ ~Inconsistent(p)
    /\ Record(p, "DOWNLOADING")
    /\ UNCHANGED <<versions, staging, active, lkg, policy, migration, shortcut, history>>

VerifyPackage(p) ==
    /\ Goes(p, "downloading", "verified")
    /\ Record(p, "PACKAGE_VERIFIED")
    /\ UNCHANGED <<versions, staging, active, lkg, policy, migration, shortcut, history>>

Extract(p) ==
    /\ Goes(p, "verified", "staged")
    /\ staging' = staging \cup {procs[p].txn}
    /\ Record(p, "CANDIDATE_SMOKE_TESTING")
    /\ UNCHANGED <<versions, active, lkg, policy, migration, shortcut, history>>
\* Mutant of Install: a directory with another build is replaced.
InstallOver(p) ==
    LET m == procs[p].manifest
    IN  /\ Goes(p, "staged", "installed")
        /\ procs[p].txn \in staging
        /\ versions' = [versions EXCEPT ![m.version] = m.build]
        /\ staging' = staging \ {procs[p].txn}
        /\ UNCHANGED <<active, lkg, policy, receipts, migration, shortcut, history>>

(* The candidate is renamed into place, unless the version directory holds   *)
(* the same build already.  A directory with another build, or with the      *)
(* executable only, and a candidate that a second process has reconciled     *)
(* away raise: Fail.                                                         *)
Install(p) ==
    LET m == procs[p].manifest
    IN  /\ Goes(p, "staged", "installed")
        /\ procs[p].txn \in staging
        /\ versions[m.version] \in {None, m.build}
        /\ versions' = [versions EXCEPT ![m.version] = m.build]
        /\ staging' = staging \ {procs[p].txn}
        /\ UNCHANGED <<active, lkg, policy, receipts, migration, shortcut, history>>

Ready(p) ==
    /\ Goes(p, "installed", "activating")
    /\ Record(p, "ACTIVATING")
    /\ UNCHANGED <<versions, staging, active, lkg, policy, migration, shortcut, history>>

Activate(p) ==
    /\ Goes(p, "activating", "pointed")
    /\ active' = PointerTo(procs[p].manifest)
    /\ UNCHANGED <<versions, staging, lkg, policy, receipts, migration, shortcut, history>>

AwaitHealth(p) ==
    /\ Goes(p, "pointed", "pending")
    /\ Record(p, "ACTIVE_PENDING_HEALTH")
    /\ UNCHANGED <<versions, staging, active, lkg, policy, migration, shortcut, history>>
\* Mutant of HealthPasses: the last known good pointer is forgotten.
HealthPassesOnly(p) ==
    /\ Goes(p, "pending", "promoted")
    /\ passed' = passed \cup {procs[p].manifest.version}
    /\ UNCHANGED <<disk, migration, overlapped, setBack>>

HealthPasses(p) ==
    /\ Goes(p, "pending", "promoted")
    /\ passed' = passed \cup {procs[p].manifest.version}
    /\ lkg' = PointerTo(procs[p].manifest)
    /\ UNCHANGED <<versions, staging, active, policy, receipts, migration, shortcut, overlapped, setBack>>

Confirm(p) ==
    /\ Ends(p, "promoted")
    /\ Record(p, "ACTIVE_CONFIRMED")
    /\ UNCHANGED <<versions, staging, active, lkg, policy, migration, shortcut, history>>
\* Mutant of HealthFails: the failure is recorded, the pointer stays.
HealthFailsOnly(p) ==
    /\ Goes(p, "pending", "restored")
    /\ Valid(procs[p].previous)
    /\ UNCHANGED <<disk, migration, history>>

(* The health check fails, times out or answers for another version: the     *)
(* pointer read when the transaction was opened is written back.             *)
HealthFails(p) ==
    /\ Goes(p, "pending", "restored")
    /\ Valid(procs[p].previous)
    /\ active' = procs[p].previous
    /\ UNCHANGED <<versions, staging, lkg, policy, receipts, migration, shortcut, history>>

RecordRollback(p) ==
    /\ Ends(p, "restored")
    /\ Record(p, "ROLLED_BACK")
    /\ UNCHANGED <<versions, staging, active, lkg, policy, migration, shortcut, history>>

BlockRequired(p) ==
    /\ Ends(p, "pending")
    /\ procs[p].previous = None
    /\ Record(p, "BLOCKED_REQUIRED_UPDATE")
    /\ UNCHANGED <<versions, staging, active, lkg, policy, migration, shortcut, history>>

(* The handler of every exception raised after the receipt was opened: a     *)
(* policy check, a bad package, an occupied directory or a failing write.    *)
Fail(p) ==
    /\ procs[p].pc \notin {"idle", "begun"}
    /\ Ends(p, procs[p].pc)
    /\ Record(p, "FAILED_RECOVERABLE")
    /\ UNCHANGED <<versions, staging, active, lkg, policy, migration, shortcut, history>>

Crash(p) ==
    /\ procs[p].pc # "idle"
    /\ Ends(p, procs[p].pc)
    /\ UNCHANGED <<disk, migration, history>>

(***************************************************************************)
(* migrate_shortcut(): a legacy executable without metadata is kept in the  *)
(* version directory, which blocks; a complete directory becomes active and *)
(* last known good, and then the shortcut is rewritten.                     *)
(***************************************************************************)
MigrateKeep ==
    /\ shortcut = "legacy"
    /\ migration = "idle"
    /\ versions[LegacyVersion] = None
    /\ versions' = [versions EXCEPT ![LegacyVersion] = Partial]
    /\ UNCHANGED <<staging, active, lkg, policy, receipts, procs, migration, shortcut, history>>

LegacyPointer ==
    [version |-> LegacyVersion, build |-> versions[LegacyVersion], digest |-> Legacy]

MigrateActive ==
    /\ shortcut = "legacy"
    /\ migration = "idle"
    /\ versions[LegacyVersion] \in Builds
    /\ active' = LegacyPointer
    /\ migration' = "active"
    /\ overlapped' = (overlapped \/ Busy # {})
    /\ setBack' = (setBack \/ (lkg # None /\ lkg.version > LegacyVersion))
    /\ UNCHANGED <<versions, staging, lkg, policy, receipts, procs, shortcut, passed>>

MigrateLkg ==
    /\ migration = "active"
    /\ lkg' = LegacyPointer
    /\ migration' = "both"
    /\ UNCHANGED <<versions, staging, active, policy, receipts, procs, shortcut, history>>

MigrateShortcut ==
    /\ migration = "both"
    /\ shortcut' = "bootstrap"
    /\ migration' = "idle"
    /\ UNCHANGED <<versions, staging, active, lkg, policy, receipts, procs, history>>

MigrateCrash ==
    /\ migration # "idle"
    /\ migration' = "idle"
    /\ UNCHANGED <<disk, procs, history>>

(***************************************************************************)
(* offline_launch() and _active_transaction() read and write nothing.        *)
(***************************************************************************)
OfflinePointer == IF Valid(active) THEN active ELSE ValidPointer(lkg)

Allowed(m, v) == v \notin m.revoked /\ v >= m.minimum

OfflineLaunch ==
    CASE OfflinePointer = None -> "BLOCKED"
      [] OfflinePointer # None /\ policy = None -> "BLOCKED"
      [] OfflinePointer # None /\ policy # None /\ Allowed(policy, OfflinePointer.version) ->
            "OFFLINE_FALLBACK"
      [] OTHER -> "BLOCKED_REQUIRED_UPDATE"

Update(p) ==
    \/ \E m \in Manifests : Begin(p, m)
    \/ Open(p)
    \/ ReportCurrent(p)
    \/ Download(p)
    \/ VerifyPackage(p)
    \/ Extract(p)
    \/ Install(p)
    \/ Ready(p)
    \/ Activate(p)
    \/ AwaitHealth(p)
    \/ HealthPasses(p)
    \/ Confirm(p)
    \/ HealthFails(p)
    \/ RecordRollback(p)
    \/ BlockRequired(p)
    \/ Fail(p)
    \/ Crash(p)

Migrate == MigrateKeep \/ MigrateActive \/ MigrateLkg \/ MigrateShortcut \/ MigrateCrash

Next == (\E p \in Processes : Update(p)) \/ Migrate

Spec == Init /\ [][Next]_vars

(***************************************************************************)
(* Properties                                                               *)
(***************************************************************************)
(* A launcher that an update has confirmed stays launchable: the last known *)
(* good pointer names a complete version directory that is at least as new, *)
(* through failed updates, crashes and races; only overlapping calls, or a  *)
(* migration that found a newer launcher in place, may leave an older one.  *)
ConfirmedStaysLaunchable ==
    \A t \in Txns :
        receipts[t] # None /\ receipts[t].state = "ACTIVE_CONFIRMED" =>
            /\ Valid(lkg)
            /\ \/ lkg.version >= receipts[t].target
               \/ overlapped \/ setBack

(* What offline_launch calls "confirmed-good" has passed its startup health  *)
(* check, or came with the legacy shortcut; if it did not, an update of that *)
(* version was cut short after the switch and its receipt says so.           *)
FallbackConfirmed ==
    OfflineLaunch = "OFFLINE_FALLBACK" /\ ~overlapped =>
        \/ OfflinePointer.version \in passed
        \/ OfflinePointer.digest = Legacy
        \/ \E t \in Txns :
            /\ receipts[t] # None
            /\ receipts[t].target = OfflinePointer.version
            /\ receipts[t].state \in {"ACTIVATING", "ACTIVE_PENDING_HEALTH",
                                      "FAILED_RECOVERABLE", "BLOCKED_REQUIRED_UPDATE"}

(* "launcher downgrade is blocked": while update calls do not overlap, the   *)
(* active launcher only becomes older when the launcher that was active at   *)
(* the start of the update is restored, or by a shortcut migration.          *)
ActiveNeverOlder ==
    [][~overlapped' /\ active # None /\ active' # active =>
        \/ active'.version >= active.version
        \/ active'.digest = Legacy
        \/ \E p \in Processes : procs[p].pc = "pending" /\ active' = procs[p].previous]_vars

(* The pointers never name a version directory that is missing, incomplete   *)
(* or holds another build, whatever races and crashes: a start of the        *)
(* launcher finds what the pointer says.                                     *)
PointersSound ==
    /\ active # None => Valid(active)
    /\ lkg # None => Valid(lkg)
=============================================================================
