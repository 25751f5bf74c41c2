--------------------------- MODULE DesktopRelease ---------------------------
(***************************************************************************)
(* The desktop application from the publisher to one user's machine: the    *)
(* publishers (scripts/publish_release.py) promote packages on the release   *)
(* share, and the launchers of one local root (release_tools/launcher.py)    *)
(* install what latest.json names and start it.  Publishers exclude each     *)
(* other by a lock file, but read the share before they take it; launchers   *)
(* take no lock, neither against publishers nor against each other.          *)
(*                                                                           *)
(* Simplified: a package is named by its version and its content is its      *)
(* build identifier, which is fresh in every publication; a file copy is     *)
(* complete or raises; the share is unreachable whenever a launcher says so. *)
(***************************************************************************)
EXTENDS Naturals

CONSTANTS
    Publishers,     \* publish_release.py processes
    Launchers,      \* launcher processes on one local root
    MaxVersion,     \* bound: application versions
    Floors,         \* minimum supported versions that are published
    MaxBuilds,      \* bound: publications that take the lock
    None

Versions == 1 .. MaxVersion
Builds == 1 .. MaxBuilds

ASSUME BoundsAssumption == MaxVersion \in Nat /\ MaxBuilds \in Nat /\ Floors \subseteq Versions
ASSUME NullAssumption ==
    None \notin Publishers /\ None \notin Builds
    /\ None \notin [version: Versions, build: Builds, minimum: Versions]
    /\ None \notin [version: Versions, build: Builds]

VARIABLES
    latest,      \* Manifests/latest.json
    current,     \* Packages/Current: the build of each version's package
    archive,     \* Packages/Archive
    lock,        \* Manifests/publish.lock
    builds,      \* number of builds made
    pub,         \* each publisher's publication
    dirs,        \* app_versions: the build in each version directory
    installed,   \* current.json of the local root
    cached,      \* last_known_good_manifest.json
    run,         \* each launcher's update_and_launch
    torn,        \* history: a promotion was cut short or withdrawn too late
    regressed,   \* history: latest.json has moved to an older version
    raced        \* history: two launchers updated the root at once

share == <<latest, current, archive>>
root == <<dirs, installed, cached>>
history == <<torn, regressed, raced>>
vars == <<share, lock, builds, pub, root, run, history>>

Manifest == [version: Versions, build: Builds, minimum: Versions]
App == [version: Versions, build: Builds]

NoPub == [pc |-> "idle", version |-> None, build |-> None, minimum |-> None,
          previous |-> None, created |-> FALSE, moved |-> FALSE]
NoRun == [pc |-> "idle", manifest |-> None, retried |-> FALSE]

TypeOK ==
    /\ latest \in Manifest \cup {None}
    /\ current \in [Versions -> Builds \cup {None}]
    /\ archive \in [Versions -> Builds \cup {None}]
    /\ lock \in Publishers \cup {None}
    /\ builds \in 0 .. MaxBuilds
    /\ pub \in [Publishers ->
            [pc: {"idle", "read", "locked", "copied", "archived", "promoted"},
             version: Versions \cup {None}, build: Builds \cup {None},
             minimum: Versions \cup {None}, previous: Manifest \cup {None},
             created: BOOLEAN, moved: BOOLEAN]]
    /\ dirs \in [Versions -> Builds \cup {None}]
    /\ installed \in App \cup {None}
    /\ cached \in Manifest \cup {None}
    /\ run \in [Launchers ->
            [pc: {"idle", "read", "fetched", "placed", "pointed", "failed"},
             manifest: Manifest \cup {None}, retried: BOOLEAN]]
    /\ torn \in BOOLEAN /\ regressed \in BOOLEAN /\ raced \in BOOLEAN

Init ==
    /\ latest = None
    /\ current = [v \in Versions |-> None]
    /\ archive = [v \in Versions |-> None]
    /\ lock = None
    /\ builds = 0
    /\ pub = [p \in Publishers |-> NoPub]
    /\ dirs = [v \in Versions |-> None]
    /\ installed = None
    /\ cached = None
    /\ run = [l \in Launchers |-> NoRun]
    /\ torn = FALSE /\ regressed = FALSE /\ raced = FALSE

(***************************************************************************)
(* Publishing.                                                              *)
(***************************************************************************)
\* read_manifest(require_package=True)
PackageOf(m) == current[m.version] = m.build

ManifestOf(p) ==
    [version |-> pub[p].version, build |-> pub[p].build, minimum |-> pub[p].minimum]

Publishing(p, from, to) ==
    /\ pub[p].pc = from
    /\ pub' = [pub EXCEPT ![p].pc = to]

(* The version must be newer than the published one, whose package must be   *)
(* there.  This is read before the lock is taken.                            *)
ReadShare(p, version, minimum) ==
    /\ pub[p].pc = "idle"
    /\ latest # None => PackageOf(latest) /\ version > latest.version
    /\ minimum <= version
    /\ pub' = [pub EXCEPT ![p] = [NoPub EXCEPT
            !.pc = "read", !.version = version, !.minimum = minimum, !.previous = latest]]
    /\ UNCHANGED <<share, lock, builds, root, run, history>>

(* The lock, and then the tests, the build and its smoke test.               *)
Acquire(p) ==
    /\ pub[p].pc = "read"
    /\ lock = None
    /\ builds < MaxBuilds
    /\ lock' = p
    /\ builds' = builds + 1
    /\ pub' = [pub EXCEPT ![p].pc = "locked", ![p].build = builds + 1]
    /\ UNCHANGED <<share, root, run, history>>

\* Mutant of Copy: a package of this version is replaced.
CopyOver(p) ==
    /\ pub[p].pc = "locked"
    /\ current' = [current EXCEPT ![pub[p].version] = pub[p].build]
    /\ pub' = [pub EXCEPT ![p].pc = "copied", ![p].created = TRUE]
    /\ UNCHANGED <<latest, archive, lock, builds, root, run, history>>

(* The package goes to Packages/Current under its final name; a package of   *)
(* this version that is there already differs, and raises: Withdraw.         *)
Copy(p) ==
    /\ pub[p].pc = "locked"
    /\ current[pub[p].version] = None
    /\ current' = [current EXCEPT ![pub[p].version] = pub[p].build]
    /\ pub' = [pub EXCEPT ![p].pc = "copied", ![p].created = TRUE]
    /\ UNCHANGED <<latest, archive, lock, builds, root, run, history>>

Moves(p) ==
    /\ pub[p].previous # None
    /\ current[pub[p].previous.version] # None

(* The previous package, if it still is in Current, goes to the archive.     *)
Archive(p) ==
    LET previous == pub[p].previous.version
    IN  /\ pub[p].pc = "copied"
        /\ IF Moves(p)
           THEN /\ archive[previous] = None
                /\ archive' = [archive EXCEPT ![previous] = current[previous]]
                /\ current' = [current EXCEPT ![previous] = None]
           ELSE UNCHANGED <<archive, current>>
        /\ pub' = [pub EXCEPT ![p].pc = "archived", ![p].moved = Moves(p)]
        /\ UNCHANGED <<latest, lock, builds, root, run, history>>

Promote(p) ==
    /\ Publishing(p, "archived", "promoted")
    /\ PackageOf(ManifestOf(p))
    /\ latest' = ManifestOf(p)
    /\ regressed' = (regressed \/ (latest # None /\ latest.version > pub[p].version))
    /\ UNCHANGED <<current, archive, lock, builds, root, run, torn, raced>>

(* latest.json is read back, and the lock is released.                       *)
Succeed(p) ==
    /\ pub[p].pc = "promoted"
    /\ pub' = [pub EXCEPT ![p] = NoPub]
    /\ lock' = None
    /\ UNCHANGED <<share, builds, root, run, history>>

\* Mutant of Withdraw: the previous package stays in the archive.
WithdrawOnlyNew(p) ==
    /\ pub[p].pc \in {"locked", "copied", "archived", "promoted"}
    /\ current' = IF pub[p].created THEN [current EXCEPT ![pub[p].version] = None] ELSE current
    /\ pub' = [pub EXCEPT ![p] = NoPub]
    /\ lock' = None
    /\ torn' = (torn \/ pub[p].pc = "promoted")
    /\ UNCHANGED <<latest, archive, builds, root, run, regressed, raced>>

(* An exception: the previous package moves back, the new one is deleted,    *)
(* and the lock is released.  latest.json is not restored.                   *)
Withdraw(p) ==
    LET previous == pub[p].previous.version
        back == pub[p].moved /\ current[previous] = None
        without == IF pub[p].created THEN [current EXCEPT ![pub[p].version] = None] ELSE current
    IN  /\ pub[p].pc \in {"locked", "copied", "archived", "promoted"}
        /\ current' = IF back THEN [without EXCEPT ![previous] = archive[previous]] ELSE without
        /\ archive' = IF back THEN [archive EXCEPT ![previous] = None] ELSE archive
        /\ pub' = [pub EXCEPT ![p] = NoPub]
        /\ lock' = None
        /\ torn' = (torn \/ pub[p].pc = "promoted")
        /\ UNCHANGED <<latest, builds, root, run, regressed, raced>>

(* The lock is held, or the publication is not confirmed.                    *)
GiveUp(p) ==
    /\ Publishing(p, "read", "idle")
    /\ UNCHANGED <<share, lock, builds, root, run, history>>

(* The process ends; the lock file stays.                                    *)
PublisherDies(p) ==
    /\ pub[p].pc \in {"locked", "copied", "archived", "promoted"}
    /\ pub' = [pub EXCEPT ![p] = NoPub]
    /\ torn' = (torn \/ pub[p].pc = "archived")
    /\ UNCHANGED <<share, lock, builds, root, run, regressed, raced>>

(* An operator deletes the lock of a publisher that is gone.                 *)
RemoveStaleLock ==
    /\ lock # None
    /\ pub[lock].pc \in {"idle", "read"}
    /\ lock' = None
    /\ UNCHANGED <<share, builds, pub, root, run, history>>

(***************************************************************************)
(* update_and_launch.                                                       *)
(***************************************************************************)
\* _installed
Installed == IF installed # None /\ dirs[installed.version] = installed.build THEN installed ELSE None

\* Mutant of Older: any other version counts as older.
OlderOther(app, v) == app # None => app.version # v

Older(app, v) == app # None => app.version < v

Stops(l, from) ==
    /\ run[l].pc \in from
    /\ run' = [run EXCEPT ![l] = NoRun]

Running(l, from, to) ==
    /\ run[l].pc = from
    /\ run' = [run EXCEPT ![l].pc = to]

Updating == {l \in Launchers : run[l].pc # "idle"}

(* An older or missing application is updated.  A current or newer one is    *)
(* started, and an unreachable share starts the installed one or refuses:    *)
(* neither writes anything.                                                  *)
StartUpdate(l) ==
    /\ run[l].pc = "idle"
    /\ latest # None
    /\ Older(Installed, latest.version)
    /\ run' = [run EXCEPT ![l] = [NoRun EXCEPT
            !.pc = "read", !.manifest = latest]]
    /\ raced' = (raced \/ Updating # {})
    /\ UNCHANGED <<share, lock, builds, pub, root, torn, regressed>>

Fetch(l) ==
    /\ Running(l, "read", "fetched")
    /\ PackageOf(run[l].manifest)
    /\ UNCHANGED <<share, lock, builds, pub, root, history>>

(* A version directory with another build raises.                            *)
Place(l) ==
    LET m == run[l].manifest
    IN  /\ Running(l, "fetched", "placed")
        /\ dirs[m.version] \in {None, m.build}
        /\ dirs' = [dirs EXCEPT ![m.version] = m.build]
        /\ UNCHANGED <<share, lock, builds, pub, installed, cached, history>>

\* Mutant of Point: current.json is written before the version directory.
PointFirst(l) ==
    /\ Running(l, "fetched", "pointed")
    /\ installed' = [version |-> run[l].manifest.version, build |-> run[l].manifest.build]
    /\ UNCHANGED <<share, lock, builds, pub, dirs, cached, history>>

Point(l) ==
    /\ Running(l, "placed", "pointed")
    /\ installed' = [version |-> run[l].manifest.version, build |-> run[l].manifest.build]
    /\ UNCHANGED <<share, lock, builds, pub, dirs, cached, history>>

Cache(l) ==
    /\ Stops(l, {"pointed"})
    /\ cached' = run[l].manifest
    /\ UNCHANGED <<share, lock, builds, pub, dirs, installed, history>>

InstallFails(l) ==
    /\ run[l].pc \in {"read", "fetched", "placed", "pointed"}
    /\ run' = [run EXCEPT ![l].pc = "failed"]
    /\ UNCHANGED <<share, lock, builds, pub, root, history>>

(* latest.json is read once more: the publisher may have archived the        *)
(* package.  The second manifest is not compared with the installed version. *)
Reread(l) ==
    /\ run[l].pc = "failed"
    /\ ~run[l].retried
    /\ latest # None
    /\ latest.version # run[l].manifest.version
    /\ run' = [run EXCEPT ![l].pc = "read", ![l].manifest = latest, ![l].retried = TRUE]
    /\ UNCHANGED <<share, lock, builds, pub, root, history>>

(* The application that was installed before is started, or, when the        *)
(* manifest that was read first does not support it, the launch is refused.  *)
FallBack(l) ==
    /\ Stops(l, {"failed"})
    /\ UNCHANGED <<share, lock, builds, pub, root, history>>

LauncherDies(l) ==
    /\ Stops(l, {"read", "fetched", "placed", "pointed", "failed"})
    /\ UNCHANGED <<share, lock, builds, pub, root, history>>

Publish(p) ==
    \/ \E v \in Versions, m \in Floors : ReadShare(p, v, m)
    \/ Acquire(p)
    \/ Copy(p)
    \/ Archive(p)
    \/ Promote(p)
    \/ Succeed(p)
    \/ Withdraw(p)
    \/ GiveUp(p)
    \/ PublisherDies(p)

Launch(l) ==
    \/ StartUpdate(l)
    \/ Fetch(l)
    \/ Place(l)
    \/ Point(l)
    \/ Cache(l)
    \/ InstallFails(l)
    \/ Reread(l)
    \/ FallBack(l)
    \/ LauncherDies(l)

Next == (\E p \in Publishers : Publish(p)) \/ RemoveStaleLock \/ (\E l \in Launchers : Launch(l))

Spec == Init /\ [][Next]_vars

(***************************************************************************)
(* Properties                                                               *)
(***************************************************************************)
(* latest.json names a package that is in Packages/Current with the bytes of *)
(* that publication, so that every launcher can install it.  Only between    *)
(* the archiving of the previous package and the new manifest it does not,   *)
(* and after a promotion that was cut short there, or withdrawn when its     *)
(* manifest was public already.                                              *)
LatestInstallable ==
    latest # None =>
        \/ PackageOf(latest)
        \/ \E p \in Publishers : pub[p].pc = "archived" /\ pub[p].previous = latest
        \/ torn

(* RELEASE_AND_UPDATE.md says that newer local versions are never            *)
(* downgraded.  The installed application changes to a newer one only, even  *)
(* when overlapping publishers have taken latest.json back, with two         *)
(* exceptions that the document does not make: two launchers on one root     *)
(* may undo each other, and the second manifest a launcher reads is not      *)
(* compared with what is installed (README.md, "Known disagreements").       *)
AppNeverDowngraded ==
    [][installed # None /\ installed' # installed =>
        \/ installed'.version > installed.version
        \/ raced
        \/ regressed /\ \E l \in Launchers : run[l].pc = "placed" /\ run[l].retried]_vars

(* An installed application can be started without the share: current.json   *)
(* always names a version directory with that very build, and the cached     *)
(* manifest does not demand a newer version, unless two launchers have       *)
(* updated one root at once (raced: one caches a manifest after the other    *)
(* has pointed current.json at an older version) or overlapping publishers   *)
(* have taken latest.json back (regressed).                                  *)
OfflineStartPossible ==
    installed # None =>
        /\ dirs[installed.version] = installed.build
        /\ \/ cached = None
           \/ installed.version >= cached.minimum
           \/ regressed \/ raced

(* Two builds of one version do not both reach the field: a machine that has *)
(* the published version, and so is called current, runs the published       *)
(* build, unless a promotion was withdrawn late or publishers overlapped.    *)
OneBuildPerVersion ==
    installed # None /\ latest # None /\ installed.version = latest.version =>
        installed.build = latest.build \/ torn \/ regressed
=============================================================================
