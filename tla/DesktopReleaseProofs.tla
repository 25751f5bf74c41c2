------------------------ MODULE DesktopReleaseProofs ------------------------
(***************************************************************************)
(* Safety of DesktopRelease for every set of publishers and launchers and   *)
(* every bound.                                                             *)
(*                                                                           *)
(* The inductive invariant says what the lock gives its holder (nobody else  *)
(* changes the share, and its build is in no manifest yet), that every       *)
(* manifest anyone may still go by has its package in Current or in the      *)
(* archive, that versions only grow unless publishers overlapped, and how    *)
(* far a launcher that works alone has come with the manifest it read.       *)
(***************************************************************************)
EXTENDS DesktopRelease, TLAPS

Held == {"locked", "copied", "archived", "promoted"}   \* with the lock
Working == {"read", "fetched", "placed"}

\* The manifests that anyone may still go by.
Known(m) ==
    /\ m # None
    /\ \/ m = latest \/ m = cached
       \/ \E p \in Publishers : pub[p].previous = m
       \/ \E l \in Launchers : run[l].manifest = m

\* A published package is in Current or in the archive.
Kept(m) == current[m.version] = m.build \/ archive[m.version] = m.build

\* Publisher p has taken the package of manifest m away and still has the lock.
Away(p, m) == pub[p].pc = "archived" /\ pub[p].moved /\ pub[p].previous = m

\* A publication: who holds the lock, and what it has done to the share.
PublicationOK(p) ==
    LET q == pub[p]
    IN  /\ q.pc # "idle" => /\ q.version \in Versions /\ q.minimum \in Versions
                            /\ q.minimum <= q.version
                            /\ q.previous # None => q.previous.version < q.version
        /\ q.pc \in Held => lock = p /\ q.build \in 1 .. builds
        /\ q.created <=> q.pc \in Held \ {"locked"}
        /\ q.created => current[q.version] = q.build
        /\ q.moved => /\ q.pc \in {"archived", "promoted"} /\ q.previous # None
                      /\ current[q.previous.version] = None
                      /\ archive[q.previous.version] # None
        /\ q.pc \in Held \ {"promoted"} =>
              /\ \A m : Known(m) => m.build # q.build
              /\ installed # None => installed.build # q.build

\* A build has one manifest, which some publication has made.
ManifestsOK ==
    /\ \A m : Known(m) => m \in Manifest /\ m.build <= builds /\ m.minimum <= m.version
    /\ \A m, n : Known(m) /\ Known(n) /\ m.build = n.build => m = n
    /\ installed # None => installed.build <= builds

\* Nothing that was published is lost unless a promotion was torn.
ShareOK ==
    ~torn =>
        /\ \A m : Known(m) => Kept(m)
        /\ installed # None => Kept(installed)
        /\ latest # None => PackageOf(latest) \/ \E p \in Publishers : Away(p, latest)
        /\ ~regressed =>
              \A v \in Versions : archive[v] # None =>
                 \/ latest # None /\ v < latest.version
                 \/ \E p \in Publishers :
                       pub[p].pc = "archived" /\ pub[p].moved /\ pub[p].previous.version = v

\* Versions only grow unless latest.json has moved back.
NewestIsLatest ==
    ~regressed =>
        /\ \A m : Known(m) => latest # None /\ m.version <= latest.version
        /\ installed # None => latest # None /\ installed.version <= latest.version

\* An update: what it has put on the local root, if it is the only one.
UpdateOK(l) ==
    LET r == run[l]
    IN  /\ r.pc # "idle" => r.manifest # None
        /\ r.pc \in {"placed", "pointed"} => dirs[r.manifest.version] = r.manifest.build
        /\ ~raced /\ r.pc # "idle" =>
              /\ \A k \in Launchers : run[k].pc # "idle" => k = l
              /\ ~regressed /\ cached # None => cached.version <= r.manifest.version
              /\ r.pc = "pointed" =>
                    /\ installed # None
                    /\ installed.version = r.manifest.version
              /\ r.pc \in Working /\ installed # None /\ (r.retried => ~regressed) =>
                    installed.version < r.manifest.version
              /\ r.pc = "failed" /\ installed # None /\ ~r.retried =>
                    installed.version <= r.manifest.version

IInv ==
    /\ TypeOK
    /\ \A p \in Publishers : PublicationOK(p)
    /\ ManifestsOK /\ ShareOK /\ NewestIsLatest
    /\ \A l \in Launchers : UpdateOK(l)
    /\ OfflineStartPossible

(***************************************************************************)
(* What each step does to the record of its process.                        *)
(***************************************************************************)
PubType == [pc: {"idle", "read", "locked", "copied", "archived", "promoted"},
            version: Versions \cup {None}, build: Builds \cup {None},
            minimum: Versions \cup {None}, previous: Manifest \cup {None},
            created: BOOLEAN, moved: BOOLEAN]

RunType == [pc: {"idle", "read", "fetched", "placed", "pointed", "failed"},
            manifest: Manifest \cup {None}, retried: BOOLEAN]

\* None is no version's package and no manifest.
LEMMA NoneApart ==
  /\ None \notin Publishers /\ None \notin Builds
  /\ None \notin Manifest /\ None \notin App
BY NullAssumption DEF Manifest, App

LEMMA RecordTypes ==
  TypeOK <=> /\ latest \in Manifest \cup {None}
             /\ current \in [Versions -> Builds \cup {None}]
             /\ archive \in [Versions -> Builds \cup {None}]
             /\ lock \in Publishers \cup {None}
             /\ builds \in 0 .. MaxBuilds
             /\ pub \in [Publishers -> PubType]
             /\ dirs \in [Versions -> Builds \cup {None}]
             /\ installed \in App \cup {None}
             /\ cached \in Manifest \cup {None}
             /\ run \in [Launchers -> RunType]
             /\ torn \in BOOLEAN /\ regressed \in BOOLEAN /\ raced \in BOOLEAN
BY DEF TypeOK, PubType, RunType

LEMMA NoPubType == NoPub \in PubType
BY DEF NoPub, PubType

LEMMA NoRunType == NoRun \in RunType
BY DEF NoRun, RunType

\* The others keep theirs, and so does p what does not change.
PubSteps(p, from, to) ==
    /\ pub[p].pc = from /\ pub'[p].pc = to
    /\ pub'[p].version = pub[p].version /\ pub'[p].minimum = pub[p].minimum
    /\ pub'[p].previous = pub[p].previous
    /\ \A i \in Publishers : i # p => pub'[i] = pub[i]

PubEnds(p) ==
    /\ pub'[p].pc = "idle" /\ pub'[p].previous = None
    /\ pub'[p].created = FALSE /\ pub'[p].moved = FALSE
    /\ \A i \in Publishers : i # p => pub'[i] = pub[i]

LEMMA ReadShareEffect ==
  ASSUME TypeOK, NEW p \in Publishers, NEW v \in Versions, NEW m \in Floors, ReadShare(p, v, m)
  PROVE  /\ pub'[p].pc = "read" /\ pub'[p].version = v /\ pub'[p].minimum = m
         /\ pub'[p].previous = latest /\ pub'[p].created = FALSE /\ pub'[p].moved = FALSE
         /\ \A i \in Publishers : i # p => pub'[i] = pub[i]
         /\ pub' \in [Publishers -> PubType]
         /\ UNCHANGED <<latest, current, archive, lock, builds, torn, regressed>>
<1> DEFINE q == [NoPub EXCEPT !.pc = "read", !.version = v, !.minimum = m, !.previous = latest]
<1>1. /\ q.pc = "read" /\ q.version = v /\ q.minimum = m /\ q.previous = latest
      /\ q.created = FALSE /\ q.moved = FALSE
  BY DEF NoPub
<1>2. q \in PubType
  <2>1. m \in Versions /\ latest \in Manifest \cup {None}
    BY BoundsAssumption DEF TypeOK
  <2>2. QED
    BY <2>1 DEF NoPub, PubType
<1>3. pub' = [pub EXCEPT ![p] = q]
  BY DEF ReadShare
<1> HIDE DEF q
<1>4. UNCHANGED <<latest, current, archive, lock, builds, torn, regressed>>
  BY DEF ReadShare, share, history
<1>5. QED
  BY <1>1, <1>2, <1>3, <1>4, RecordTypes

LEMMA AcquireEffect ==
  ASSUME TypeOK, NEW p \in Publishers, Acquire(p)
  PROVE  /\ PubSteps(p, "read", "locked")
         /\ pub'[p].build = builds + 1 /\ pub'[p].created = pub[p].created
         /\ pub'[p].moved = pub[p].moved
         /\ builds + 1 \in Builds
         /\ pub' \in [Publishers -> PubType]
         /\ UNCHANGED <<latest, current, archive, torn, regressed>>
<1> DEFINE q == [pub[p] EXCEPT !.pc = "locked", !.build = builds + 1]
<1>1. builds + 1 \in Builds
  BY BoundsAssumption DEF Acquire, TypeOK, Builds
<1>2. pub[p] \in PubType
  BY RecordTypes
<1>3. /\ q.pc = "locked" /\ q.build = builds + 1 /\ q.created = pub[p].created
      /\ q.moved = pub[p].moved /\ q.version = pub[p].version /\ q.minimum = pub[p].minimum
      /\ q.previous = pub[p].previous
  BY <1>2 DEF PubType
<1>4. q \in PubType
  BY <1>1, <1>2 DEF PubType
<1>5. pub' = [pub EXCEPT ![p] = q]
  BY DEF Acquire
<1> HIDE DEF q
<1>6. UNCHANGED <<latest, current, archive, torn, regressed>>
  BY DEF Acquire, share, history
<1>7. QED
  BY <1>1, <1>3, <1>4, <1>5, <1>6, RecordTypes DEF PubSteps, Acquire

LEMMA CopyEffect ==
  ASSUME TypeOK, NEW p \in Publishers, Copy(p)
  PROVE  /\ PubSteps(p, "locked", "copied")
         /\ pub'[p].build = pub[p].build /\ pub'[p].created = TRUE /\ pub'[p].moved = pub[p].moved
         /\ pub' \in [Publishers -> PubType]
         /\ UNCHANGED <<latest, archive, lock, builds, torn, regressed>>
<1> DEFINE q == [pub[p] EXCEPT !.pc = "copied", !.created = TRUE]
<1>1. pub[p] \in PubType
  BY RecordTypes
<1>2. /\ q.pc = "copied" /\ q.build = pub[p].build /\ q.created = TRUE
      /\ q.moved = pub[p].moved /\ q.version = pub[p].version /\ q.minimum = pub[p].minimum
      /\ q.previous = pub[p].previous
  BY <1>1 DEF PubType
<1>3. q \in PubType
  BY <1>1 DEF PubType
<1>4. pub' = [pub EXCEPT ![p] = q]
  BY DEF Copy
<1> HIDE DEF q
<1>5. UNCHANGED <<latest, archive, lock, builds, torn, regressed>>
  BY DEF Copy, history
<1>6. QED
  BY <1>2, <1>3, <1>4, <1>5, RecordTypes DEF PubSteps, Copy

LEMMA ArchiveEffect ==
  ASSUME TypeOK, NEW p \in Publishers, Archive(p)
  PROVE  /\ PubSteps(p, "copied", "archived")
         /\ pub'[p].build = pub[p].build /\ pub'[p].created = pub[p].created
         /\ pub'[p].moved = Moves(p)
         /\ pub' \in [Publishers -> PubType]
         /\ UNCHANGED <<latest, lock, builds, torn, regressed>>
<1> DEFINE q == [pub[p] EXCEPT !.pc = "archived", !.moved = Moves(p)]
<1>1. pub[p] \in PubType
  BY RecordTypes
<1>2. Moves(p) \in BOOLEAN
  BY DEF Moves
<1>3. /\ q.pc = "archived" /\ q.build = pub[p].build /\ q.created = pub[p].created
      /\ q.moved = Moves(p) /\ q.version = pub[p].version /\ q.minimum = pub[p].minimum
      /\ q.previous = pub[p].previous
  BY <1>1 DEF PubType
<1>4. q \in PubType
  BY <1>1, <1>2 DEF PubType
<1>5. pub' = [pub EXCEPT ![p] = q]
  BY DEF Archive
<1> HIDE DEF q
<1>6. UNCHANGED <<latest, lock, builds, torn, regressed>>
  BY DEF Archive, history
<1>7. pub[p].pc = "copied"
  BY DEF Archive
<1>8. QED
  BY <1>3, <1>4, <1>5, <1>6, <1>7, RecordTypes DEF PubSteps

LEMMA PhaseEffect ==
  ASSUME TypeOK, NEW p \in Publishers, NEW from,
         NEW to \in {"idle", "read", "locked", "copied", "archived", "promoted"},
         Publishing(p, from, to)
  PROVE  /\ PubSteps(p, from, to)
         /\ pub'[p].build = pub[p].build /\ pub'[p].created = pub[p].created
         /\ pub'[p].moved = pub[p].moved
         /\ pub' \in [Publishers -> PubType]
<1> DEFINE q == [pub[p] EXCEPT !.pc = to]
<1>1. pub[p] \in PubType
  BY RecordTypes
<1>2. /\ q.pc = to /\ q.build = pub[p].build /\ q.created = pub[p].created
      /\ q.moved = pub[p].moved /\ q.version = pub[p].version /\ q.minimum = pub[p].minimum
      /\ q.previous = pub[p].previous
  BY <1>1 DEF PubType
<1>3. q \in PubType
  BY <1>1 DEF PubType
<1>4. pub' = [pub EXCEPT ![p] = q]
  BY DEF Publishing
<1> HIDE DEF q
<1>5. QED
  BY <1>2, <1>3, <1>4, RecordTypes DEF PubSteps, Publishing

LEMMA EndEffect ==
  ASSUME TypeOK, NEW p \in Publishers, pub' = [pub EXCEPT ![p] = NoPub]
  PROVE  PubEnds(p) /\ pub' \in [Publishers -> PubType]
<1>1. pub'[p] = NoPub /\ (\A i \in Publishers : i # p => pub'[i] = pub[i])
      /\ pub' \in [Publishers -> PubType]
  BY RecordTypes, NoPubType
<1>2. QED
  BY <1>1 DEF PubEnds, NoPub

(***************************************************************************)
(* Frames.                                                                  *)
(***************************************************************************)
LEMMA PublisherFrame ==
  ASSUME NEW p \in Publishers, Publish(p)
  PROVE  UNCHANGED <<dirs, installed, cached, run, raced>>
<1>1. CASE \E v \in Versions, m \in Floors : ReadShare(p, v, m)
  BY <1>1 DEF ReadShare, root, history
<1>2. CASE Acquire(p) \/ Copy(p) \/ Archive(p)
  BY <1>2 DEF Acquire, Copy, Archive, root, history
<1>3. CASE Promote(p) \/ Succeed(p) \/ Withdraw(p)
  BY <1>3 DEF Promote, Succeed, Withdraw, root, history
<1>4. CASE GiveUp(p) \/ PublisherDies(p)
  BY <1>4 DEF GiveUp, PublisherDies, root, history
<1>5. QED
  BY <1>1, <1>2, <1>3, <1>4 DEF Publish

LEMMA LauncherFrame ==
  ASSUME NEW l \in Launchers, Launch(l)
  PROVE  UNCHANGED <<latest, current, archive, lock, builds, pub, torn, regressed>>
<1>1. CASE StartUpdate(l) \/ Fetch(l) \/ Place(l)
  BY <1>1 DEF StartUpdate, Fetch, Place, share, history
<1>2. CASE Point(l) \/ Cache(l) \/ InstallFails(l)
  BY <1>2 DEF Point, Cache, InstallFails, share, history
<1>3. CASE Reread(l) \/ FallBack(l) \/ LauncherDies(l)
  BY <1>3 DEF Reread, FallBack, LauncherDies, share, history
<1>4. QED
  BY <1>1, <1>2, <1>3 DEF Launch

RunSteps(l, to) ==
    /\ run'[l].pc = to
    /\ run'[l].manifest = run[l].manifest /\ run'[l].retried = run[l].retried
    /\ \A i \in Launchers : i # l => run'[i] = run[i]

LEMMA RunEffect ==
  ASSUME TypeOK, NEW l \in Launchers,
         NEW to \in {"idle", "read", "fetched", "placed", "pointed", "failed"},
         run' = [run EXCEPT ![l].pc = to]
  PROVE  RunSteps(l, to) /\ run' \in [Launchers -> RunType]
<1> DEFINE r == [run[l] EXCEPT !.pc = to]
<1>1. run[l] \in RunType
  BY RecordTypes
<1>2. r.pc = to /\ r.manifest = run[l].manifest /\ r.retried = run[l].retried
  BY <1>1 DEF RunType
<1>3. r \in RunType
  BY <1>1 DEF RunType
<1>4. run' = [run EXCEPT ![l] = r]
  OBVIOUS
<1> HIDE DEF r
<1>5. QED
  BY <1>2, <1>3, <1>4, RecordTypes DEF RunSteps

LEMMA StopEffect ==
  ASSUME TypeOK, NEW l \in Launchers, run' = [run EXCEPT ![l] = NoRun]
  PROVE  /\ run'[l].pc = "idle" /\ run'[l].manifest = None
         /\ \A i \in Launchers : i # l => run'[i] = run[i]
         /\ run' \in [Launchers -> RunType]
<1>1. run'[l] = NoRun /\ (\A i \in Launchers : i # l => run'[i] = run[i])
      /\ run' \in [Launchers -> RunType]
  BY RecordTypes, NoRunType
<1>2. QED
  BY <1>1 DEF NoRun

LEMMA StartUpdateEffect ==
  ASSUME TypeOK, NEW l \in Launchers, StartUpdate(l)
  PROVE  /\ run[l].pc = "idle" /\ run'[l].pc = "read"
         /\ run'[l].manifest = latest /\ run'[l].retried = FALSE
         /\ \A i \in Launchers : i # l => run'[i] = run[i]
         /\ run' \in [Launchers -> RunType]
         /\ UNCHANGED <<dirs, installed, cached>>
<1> DEFINE r == [NoRun EXCEPT !.pc = "read", !.manifest = latest]
<1>1. r.pc = "read" /\ r.manifest = latest /\ r.retried = FALSE
  BY DEF NoRun
<1>2. r \in RunType
  BY DEF NoRun, RunType, TypeOK
<1>3. run' = [run EXCEPT ![l] = r]
  BY DEF StartUpdate
<1> HIDE DEF r
<1>4. run[l].pc = "idle" /\ UNCHANGED <<dirs, installed, cached>>
  BY DEF StartUpdate, root
<1>5. QED
  BY <1>1, <1>2, <1>3, <1>4, RecordTypes

LEMMA RereadEffect ==
  ASSUME TypeOK, NEW l \in Launchers, Reread(l)
  PROVE  /\ run'[l].pc = "read" /\ run'[l].manifest = latest /\ run'[l].retried = TRUE
         /\ \A i \in Launchers : i # l => run'[i] = run[i]
         /\ run' \in [Launchers -> RunType]
         /\ UNCHANGED <<dirs, installed, cached, raced>>
<1> DEFINE r == [run[l] EXCEPT !.pc = "read", !.manifest = latest, !.retried = TRUE]
<1>1. run[l] \in RunType /\ latest \in Manifest \cup {None}
  BY RecordTypes
<1>2. r.pc = "read" /\ r.manifest = latest /\ r.retried = TRUE
  BY <1>1 DEF RunType
<1>3. r \in RunType
  BY <1>1 DEF RunType
<1>4. run' = [run EXCEPT ![l] = r]
  BY DEF Reread
<1> HIDE DEF r
<1>5. UNCHANGED <<dirs, installed, cached, raced>>
  BY DEF Reread, root, history
<1>6. QED
  BY <1>2, <1>3, <1>4, <1>5, RecordTypes

\* Most steps of a launcher move it on and keep its manifest.
MovesOn(l, to) ==
    \/ to = "fetched" /\ Fetch(l)
    \/ to = "placed" /\ Place(l)
    \/ to = "pointed" /\ Point(l)
    \/ to = "failed" /\ InstallFails(l)

LEMMA MoveOnEffect ==
  ASSUME TypeOK, NEW l \in Launchers, NEW to, MovesOn(l, to)
  PROVE  /\ RunSteps(l, to) /\ run' \in [Launchers -> RunType]
         /\ run[l].pc # "idle" /\ to # "idle"
         /\ UNCHANGED <<cached, raced>>
<1>1. /\ run' = [run EXCEPT ![l].pc = to]
      /\ to \in {"fetched", "placed", "pointed", "failed"}
      /\ run[l].pc # "idle"
      /\ UNCHANGED <<cached, raced>>
  BY DEF MovesOn, Fetch, Place, Point, InstallFails, Running, root, history
<1>2. QED
  BY <1>1, RunEffect

LEMMA LaunchCases ==
  ASSUME NEW l \in Launchers, Launch(l)
  PROVE  \/ StartUpdate(l) \/ Reread(l)
         \/ \E to \in {"fetched", "placed", "pointed", "failed"} : MovesOn(l, to)
         \/ Cache(l) \/ FallBack(l) \/ LauncherDies(l)
BY DEF Launch, MovesOn

\* A launcher that stops without a word.
LEMMA QuietStop ==
  ASSUME TypeOK, NEW l \in Launchers, FallBack(l) \/ LauncherDies(l)
  PROVE  /\ run[l].pc # "idle" /\ run'[l].pc = "idle" /\ run'[l].manifest = None
         /\ \A i \in Launchers : i # l => run'[i] = run[i]
         /\ run' \in [Launchers -> RunType]
         /\ UNCHANGED <<dirs, installed, cached, raced>>
<1>1. /\ run' = [run EXCEPT ![l] = NoRun] /\ run[l].pc # "idle"
      /\ UNCHANGED <<dirs, installed, cached, raced>>
  BY DEF FallBack, LauncherDies, Stops, root, history
<1>2. QED
  BY <1>1, StopEffect

LEMMA CacheEffect ==
  ASSUME TypeOK, NEW l \in Launchers, Cache(l)
  PROVE  /\ run[l].pc = "pointed" /\ run'[l].pc = "idle" /\ run'[l].manifest = None
         /\ \A i \in Launchers : i # l => run'[i] = run[i]
         /\ run' \in [Launchers -> RunType]
         /\ cached' = run[l].manifest
         /\ UNCHANGED <<dirs, installed, raced>>
<1>1. /\ run' = [run EXCEPT ![l] = NoRun] /\ run[l].pc = "pointed"
      /\ cached' = run[l].manifest /\ UNCHANGED <<dirs, installed, raced>>
  BY DEF Cache, Stops, history
<1>2. QED
  BY <1>1, StopEffect

LEMMA GiveUpEffect ==
  ASSUME TypeOK, NEW p \in Publishers, GiveUp(p)
  PROVE  /\ PubSteps(p, "read", "idle")
         /\ pub'[p].build = pub[p].build /\ pub'[p].created = pub[p].created
         /\ pub'[p].moved = pub[p].moved
         /\ pub' \in [Publishers -> PubType]
         /\ UNCHANGED <<latest, current, archive, lock, builds, torn, regressed>>
<1>1. Publishing(p, "read", "idle")
      /\ UNCHANGED <<latest, current, archive, lock, builds, torn, regressed>>
  BY DEF GiveUp, share, history
<1>2. QED
  BY <1>1, PhaseEffect

LEMMA PromoteEffect ==
  ASSUME TypeOK, NEW p \in Publishers, Promote(p)
  PROVE  /\ PubSteps(p, "archived", "promoted")
         /\ pub'[p].build = pub[p].build /\ pub'[p].created = pub[p].created
         /\ pub'[p].moved = pub[p].moved
         /\ pub' \in [Publishers -> PubType]
         /\ latest' = ManifestOf(p)
         /\ UNCHANGED <<current, archive, lock, builds, torn>>
<1>1. Publishing(p, "archived", "promoted") /\ latest' = ManifestOf(p)
      /\ UNCHANGED <<current, archive, lock, builds, torn>>
  BY DEF Promote
<1>2. QED
  BY <1>1, PhaseEffect

\* A publication that is over.
Ends(p) == Succeed(p) \/ Withdraw(p) \/ PublisherDies(p)

LEMMA EndsEffect ==
  ASSUME TypeOK, NEW p \in Publishers, Ends(p)
  PROVE  /\ pub[p].pc \in Held /\ PubEnds(p) /\ pub' \in [Publishers -> PubType]
         /\ UNCHANGED <<latest, builds, regressed>>
<1>1. pub[p].pc \in Held /\ pub' = [pub EXCEPT ![p] = NoPub]
      /\ UNCHANGED <<latest, builds, regressed>>
  BY DEF Ends, Succeed, Withdraw, PublisherDies, Held, share, history
<1>2. QED
  BY <1>1, EndEffect

\* Before the lock is taken, a publisher changes nothing but its record.
Quiet(p) == (\E v \in Versions, m \in Floors : ReadShare(p, v, m)) \/ GiveUp(p)

LEMMA PublishCases ==
  ASSUME NEW p \in Publishers, Publish(p)
  PROVE  Quiet(p) \/ Acquire(p) \/ Copy(p) \/ Archive(p) \/ Promote(p) \/ Ends(p)
BY DEF Publish, Quiet, Ends

LEMMA StaleLockFrame ==
  ASSUME RemoveStaleLock
  PROVE  UNCHANGED <<latest, current, archive, builds, pub, dirs, installed, cached, run, torn,
                     regressed, raced>>
BY DEF RemoveStaleLock, share, root, history

\* A manifest comes into the world by a promotion.
LEMMA KnownByPublisher ==
  ASSUME TypeOK, NEW p \in Publishers, Publish(p), ~Promote(p)
  PROVE  latest' = latest /\ \A m : Known(m)' => Known(m)
<1>1. UNCHANGED <<cached, run>>
  BY PublisherFrame
<1>2. latest' = latest /\ \A i \in Publishers : pub'[i].previous \in {None, latest, pub[i].previous}
  <2>1. CASE Quiet(p)
    BY <2>1, ReadShareEffect, GiveUpEffect DEF Quiet, PubSteps
  <2>2. CASE Acquire(p)
    BY <2>2, AcquireEffect DEF PubSteps
  <2>3. CASE Copy(p)
    BY <2>3, CopyEffect DEF PubSteps
  <2>4. CASE Archive(p)
    BY <2>4, ArchiveEffect DEF PubSteps
  <2>5. CASE Ends(p)
    BY <2>5, EndsEffect DEF PubEnds
  <2>6. QED
    BY <2>1, <2>2, <2>3, <2>4, <2>5, PublishCases
<1>3. QED
  BY <1>1, <1>2 DEF Known

LEMMA KnownByPromotion ==
  ASSUME TypeOK, NEW p \in Publishers, Promote(p)
  PROVE  \A m : Known(m)' => Known(m) \/ m = ManifestOf(p)
<1>1. UNCHANGED <<cached, run>>
  BY PublisherFrame DEF Publish
<1>2. \A i \in Publishers : pub'[i].previous = pub[i].previous
  BY PromoteEffect DEF PubSteps
<1>3. QED
  BY <1>1, <1>2, PromoteEffect DEF Known

LEMMA KnownByLauncher ==
  ASSUME TypeOK, NEW l \in Launchers, Launch(l)
  PROVE  \A m : Known(m)' => Known(m)
<1>1. UNCHANGED <<latest, pub>>
  BY LauncherFrame
<1>2. /\ \A i \in Launchers : run'[i].manifest \in {None, latest, run[i].manifest}
      /\ cached' \in {cached, run[l].manifest}
  <2>1. CASE StartUpdate(l)
    BY <2>1, StartUpdateEffect
  <2>2. CASE Reread(l)
    BY <2>2, RereadEffect
  <2>3. CASE \E to \in {"fetched", "placed", "pointed", "failed"} : MovesOn(l, to)
    BY <2>3, MoveOnEffect DEF RunSteps
  <2>4. CASE Cache(l)
    BY <2>4, CacheEffect
  <2>5. CASE FallBack(l) \/ LauncherDies(l)
    BY <2>5, QuietStop
  <2>6. QED
    BY <2>1, <2>2, <2>3, <2>4, <2>5, LaunchCases
<1>3. QED
  BY <1>1, <1>2 DEF Known

(***************************************************************************)
(* Types.                                                                   *)
(***************************************************************************)
LEMMA PublisherTypes ==
  ASSUME TypeOK, NEW p \in Publishers, PublicationOK(p), Publish(p)
  PROVE  TypeOK'
<1> DEFINE S == /\ latest' \in Manifest \cup {None}
                /\ current' \in [Versions -> Builds \cup {None}]
                /\ archive' \in [Versions -> Builds \cup {None}]
                /\ lock' \in Publishers \cup {None}
                /\ builds' \in 0 .. MaxBuilds
                /\ pub' \in [Publishers -> PubType]
                /\ torn' \in BOOLEAN /\ regressed' \in BOOLEAN
<1>1. /\ pub[p] \in PubType /\ pub[p].previous \in Manifest \cup {None}
      /\ pub[p].version \in Versions \cup {None} /\ pub[p].build \in Builds \cup {None}
      /\ pub[p].pc # "idle" => pub[p].version \in Versions /\ pub[p].minimum \in Versions
      /\ pub[p].pc \in Held => pub[p].build \in Builds
  BY RecordTypes, BoundsAssumption DEF PubType, PublicationOK, Builds, Held
<1>2. pub[p].previous # None => pub[p].previous.version \in Versions
  BY <1>1 DEF Manifest
<1>3. CASE Quiet(p)
  <2>1. S
    BY <1>3, ReadShareEffect, GiveUpEffect, RecordTypes DEF Quiet
  <2>2. QED
    BY <2>1, RecordTypes, RecordTypes, PublisherFrame DEF TypeOK, PubType
<1>4. CASE Acquire(p)
  <2>1. lock' = p /\ builds' = builds + 1
    BY <1>4 DEF Acquire
  <2>2. builds + 1 \in 0 .. MaxBuilds
    BY <1>4, AcquireEffect, BoundsAssumption DEF Builds
  <2>3. S
    BY <1>4, <2>1, <2>2, AcquireEffect, RecordTypes
  <2>4. QED
    BY <2>3, RecordTypes, PublisherFrame DEF TypeOK, PubType
<1>5. CASE Copy(p)
  <2>1. current' \in [Versions -> Builds \cup {None}]
    BY <1>1, <1>5, RecordTypes DEF Copy, Held
  <2>2. S
    BY <1>5, <2>1, CopyEffect, RecordTypes
  <2>3. QED
    BY <2>2, RecordTypes, PublisherFrame DEF TypeOK, PubType
<1>6. CASE Archive(p)
  <2>1. /\ current' \in [Versions -> Builds \cup {None}]
        /\ archive' \in [Versions -> Builds \cup {None}]
    BY <1>2, <1>6, RecordTypes DEF Archive, Moves
  <2>2. S
    BY <1>6, <2>1, ArchiveEffect, RecordTypes
  <2>3. QED
    BY <2>2, RecordTypes, PublisherFrame DEF TypeOK, PubType
<1>7. CASE Promote(p)
  <2>1. ManifestOf(p) \in Manifest
    BY <1>1, <1>7 DEF Promote, Publishing, ManifestOf, Manifest, Held
  <2>2. regressed' \in BOOLEAN
    BY <1>7 DEF Promote, TypeOK
  <2>3. S
    BY <1>7, <2>1, <2>2, PromoteEffect, RecordTypes
  <2>4. QED
    BY <2>3, RecordTypes, PublisherFrame DEF TypeOK, PubType
<1>8. CASE Ends(p)
  <2>1. /\ current' \in [Versions -> Builds \cup {None}]
        /\ archive' \in [Versions -> Builds \cup {None}]
    <3>1. CASE Withdraw(p)
      BY <1>1, <1>2, <3>1, RecordTypes DEF Withdraw, Held
    <3>2. CASE Succeed(p) \/ PublisherDies(p)
      BY <3>2, RecordTypes DEF Succeed, PublisherDies, share
    <3>3. QED
      BY <1>8, <3>1, <3>2 DEF Ends
  <2>2. lock' \in {lock, None}
    BY <1>8 DEF Ends, Succeed, Withdraw, PublisherDies
  <2>3. torn' \in BOOLEAN
    BY <1>8, RecordTypes DEF Ends, Succeed, Withdraw, PublisherDies, history
  <2>4. S
    BY <1>8, <2>1, <2>2, <2>3, EndsEffect, RecordTypes
  <2>5. QED
    BY <2>4, RecordTypes, PublisherFrame DEF TypeOK, PubType
<1>9. QED
  BY <1>3, <1>4, <1>5, <1>6, <1>7, <1>8, PublishCases

LEMMA LauncherTypes ==
  ASSUME TypeOK, NEW l \in Launchers, UpdateOK(l), Launch(l)
  PROVE  TypeOK'
<1> DEFINE S == /\ dirs' \in [Versions -> Builds \cup {None}]
                /\ installed' \in App \cup {None}
                /\ cached' \in Manifest \cup {None}
                /\ run' \in [Launchers -> RunType]
                /\ raced' \in BOOLEAN
<1>1. run[l].manifest \in Manifest \cup {None}
  BY RecordTypes DEF RunType
<1>2. run[l].pc # "idle" =>
         /\ run[l].manifest \in Manifest
         /\ run[l].manifest.version \in Versions /\ run[l].manifest.build \in Builds
  BY <1>1 DEF UpdateOK, Manifest
<1>3. S => TypeOK'
  BY RecordTypes, LauncherFrame DEF TypeOK, RunType
<1>4. CASE StartUpdate(l)
  <2>1. raced' \in BOOLEAN
    BY <1>4, RecordTypes DEF StartUpdate, Updating
  <2>2. S
    BY <1>4, <2>1, StartUpdateEffect, RecordTypes
  <2>3. QED
    BY <1>3, <2>2
<1>5. CASE Reread(l)
  <2>1. S
    BY <1>5, RereadEffect, RecordTypes
  <2>2. QED
    BY <1>3, <2>1
<1>6. CASE \E to \in {"fetched", "placed", "pointed", "failed"} : MovesOn(l, to)
  <2>1. PICK to \in {"fetched", "placed", "pointed", "failed"} : MovesOn(l, to)
    BY <1>6
  <2>2. dirs' \in [Versions -> Builds \cup {None}] /\ installed' \in App \cup {None}
    <3>1. CASE Place(l)
      BY <1>2, <3>1, RecordTypes DEF Place, Running
    <3>2. CASE Point(l)
      BY <1>2, <3>2, RecordTypes DEF Point, Running, App
    <3>3. CASE Fetch(l) \/ InstallFails(l)
      BY <3>3, RecordTypes DEF Fetch, InstallFails, root
    <3>4. QED
      BY <2>1, <3>1, <3>2, <3>3 DEF MovesOn
  <2>3. S
    BY <2>1, <2>2, MoveOnEffect, RecordTypes
  <2>4. QED
    BY <1>3, <2>3
<1>7. CASE Cache(l)
  <2>1. S
    BY <1>1, <1>7, CacheEffect, RecordTypes
  <2>2. QED
    BY <1>3, <2>1
<1>8. CASE FallBack(l) \/ LauncherDies(l)
  <2>1. S
    BY <1>8, QuietStop, RecordTypes
  <2>2. QED
    BY <1>3, <2>1
<1>9. QED
  BY <1>4, <1>5, <1>6, <1>7, <1>8, LaunchCases

LEMMA TypeStep ==
  ASSUME TypeOK, \A p \in Publishers : PublicationOK(p), \A l \in Launchers : UpdateOK(l), Next
  PROVE  TypeOK'
<1>1. CASE RemoveStaleLock
  <2>1. lock' = None
    BY <1>1 DEF RemoveStaleLock
  <2>2. QED
    BY <1>1, <2>1, StaleLockFrame DEF TypeOK
<1>2. QED
  BY <1>1, PublisherTypes, LauncherTypes DEF Next

(***************************************************************************)
(* Consequences of the invariant that most steps need.                      *)
(***************************************************************************)
LEMMA ManifestFields ==
  /\ \A m \in Manifest : /\ m.version \in Versions /\ m.build \in Builds /\ m.minimum \in Versions
                         /\ m # None
  /\ \A a \in App : a.version \in Versions /\ a.build \in Builds /\ a # None
  /\ Versions \subseteq Nat /\ Builds \subseteq Nat
BY NoneApart DEF Manifest, App, Versions, Builds

\* Only one publisher holds the lock.
LEMMA OneHolder ==
  ASSUME IInv, NEW p \in Publishers, NEW i \in Publishers,
         pub[p].pc \in Held, pub[i].pc \in Held
  PROVE  i = p
BY DEF IInv, PublicationOK

LEMMA HolderFields ==
  ASSUME IInv, NEW p \in Publishers, pub[p].pc # "idle"
  PROVE  /\ pub[p].version \in Versions /\ pub[p].minimum \in Versions
         /\ pub[p].minimum <= pub[p].version
         /\ pub[p].previous # None =>
               /\ pub[p].previous \in Manifest /\ Known(pub[p].previous)
               /\ pub[p].previous.version \in Versions
               /\ pub[p].previous.version < pub[p].version
         /\ pub[p].pc \in Held => pub[p].build \in Builds /\ pub[p].build <= builds
<1>1. pub[p] \in PubType
  BY RecordTypes DEF IInv
<1>2. builds \in Nat /\ builds <= MaxBuilds
  BY BoundsAssumption DEF IInv, TypeOK
<1>3. PublicationOK(p)
  BY DEF IInv
<1>4. pub[p].previous \in Manifest \cup {None}
  BY <1>1 DEF PubType
<1>5. pub[p].pc \in Held => pub[p].build \in Builds /\ pub[p].build <= builds
  BY <1>2, <1>3, BoundsAssumption DEF PublicationOK, Builds
<1>6. QED
  BY <1>3, <1>4, <1>5, ManifestFields DEF PublicationOK, Known

LEMMA KnownFields ==
  ASSUME IInv, NEW m, Known(m)
  PROVE  /\ m \in Manifest /\ m # None
         /\ m.version \in Versions /\ m.build \in Builds /\ m.minimum \in Versions
         /\ m.build <= builds /\ m.minimum <= m.version
BY ManifestFields DEF IInv, ManifestsOK

LEMMA RunFields ==
  ASSUME IInv, NEW l \in Launchers, run[l].pc # "idle"
  PROVE  /\ Known(run[l].manifest) /\ run[l].manifest \in Manifest /\ run[l].manifest # None
         /\ run[l].manifest.version \in Versions /\ run[l].manifest.build \in Builds
BY KnownFields DEF IInv, UpdateOK, Known

LEMMA InstalledFields ==
  ASSUME IInv, installed # None
  PROVE  /\ installed \in App /\ installed.version \in Versions /\ installed.build \in Builds
         /\ installed.build <= builds
BY ManifestFields DEF IInv, TypeOK, ManifestsOK

\* While a publisher has the lock, the others only read.
LEMMA HolderAlone ==
  ASSUME IInv, NEW p \in Publishers, NEW i \in Publishers, i # p, pub[i].pc \in Held, Publish(p)
  PROVE  Quiet(p)
<1>1. lock = i /\ lock # None
  BY NoneApart DEF IInv, PublicationOK
<1>2. pub[p].pc \notin Held
  BY OneHolder
<1>3. ~Acquire(p)
  BY <1>1 DEF Acquire
<1>4. ~Copy(p) /\ ~Archive(p) /\ ~Promote(p)
  BY <1>2 DEF Copy, Archive, Promote, Publishing, Held
<1>5. ~Ends(p)
  BY <1>2, EndsEffect DEF IInv
<1>6. QED
  BY <1>3, <1>4, <1>5, PublishCases

\* What a launcher writes to current.json is a manifest it has read.
LEMMA LaunchInstalls ==
  ASSUME IInv, NEW l \in Launchers, Launch(l)
  PROVE  \/ installed' = installed
         \/ /\ Point(l) /\ installed' # None
            /\ Known(run[l].manifest)
            /\ installed'.version = run[l].manifest.version
            /\ installed'.build = run[l].manifest.build
<1>1. TypeOK
  BY DEF IInv
<1>2. CASE Point(l)
  <2>1. run[l].pc # "idle"
    BY <1>2 DEF Point, Running
  <2>2. /\ installed' \in App
        /\ installed'.version = run[l].manifest.version
        /\ installed'.build = run[l].manifest.build
    BY <1>2, <2>1, RunFields DEF Point, App
  <2>3. QED
    BY <1>2, <2>1, <2>2, RunFields, NoneApart
<1>3. CASE ~Point(l)
  <2>1. CASE \E to \in {"fetched", "placed", "pointed", "failed"} : MovesOn(l, to)
    BY <1>3, <2>1 DEF MovesOn, Fetch, Place, InstallFails, root
  <2>2. QED
    BY <1>1, <2>1, LaunchCases, StartUpdateEffect, RereadEffect, CacheEffect, QuietStop
<1>4. QED
  BY <1>2, <1>3

(***************************************************************************)
(* Publications.                                                            *)
(***************************************************************************)
\* The steps of another publisher.
LEMMA OtherPublication ==
  ASSUME IInv, NEW p \in Publishers, NEW i \in Publishers, i # p, Publish(p)
  PROVE  PublicationOK(i)'
<1>1. TypeOK /\ PublicationOK(i)
  BY DEF IInv
<1>2. pub'[i] = pub[i]
  BY <1>1, PublishCases, ReadShareEffect, GiveUpEffect, AcquireEffect, CopyEffect, ArchiveEffect,
     PromoteEffect, EndsEffect DEF Quiet, PubSteps, PubEnds
<1>3. CASE pub[i].pc \in Held
  <2>1. Quiet(p)
    BY <1>3, HolderAlone
  <2>2. UNCHANGED <<latest, current, archive, lock, builds>>
    BY <1>1, <2>1, ReadShareEffect, GiveUpEffect DEF Quiet
  <2>3. ~Promote(p)
    BY <1>3, OneHolder DEF Promote, Publishing, Held
  <2>4. (\A m : Known(m)' => Known(m)) /\ installed' = installed
    BY <1>1, <2>3, KnownByPublisher, PublisherFrame
  <2>5. QED
    BY <1>1, <1>2, <2>2, <2>4 DEF PublicationOK
<1>4. CASE pub[i].pc \notin Held
  BY <1>1, <1>2, <1>4 DEF PublicationOK, Held
<1>5. QED
  BY <1>3, <1>4

LEMMA OwnPublication ==
  ASSUME IInv, NEW p \in Publishers, Publish(p)
  PROVE  PublicationOK(p)'
<1>1. /\ TypeOK /\ PublicationOK(p) /\ installed' = installed
      /\ builds \in Nat
  BY PublisherFrame, BoundsAssumption DEF IInv, TypeOK
<1>2. CASE GiveUp(p)
  BY <1>1, <1>2, GiveUpEffect DEF PublicationOK, Held, PubSteps
<1>3. CASE \E v \in Versions, m \in Floors : ReadShare(p, v, m)
  <2>1. PICK v \in Versions, m \in Floors : ReadShare(p, v, m)
    BY <1>3
  <2>2. m <= v /\ m \in Versions /\ (latest # None => latest.version < v)
    <3>1. m <= v /\ (latest # None => v > latest.version)
      BY <2>1 DEF ReadShare
    <3>2. m \in Versions
      BY BoundsAssumption
    <3>3. latest # None => latest.version \in Nat
      BY <1>1, ManifestFields, RecordTypes
    <3>4. QED
      BY <3>1, <3>2, <3>3, ManifestFields
  <2>3. /\ pub'[p].pc = "read" /\ pub'[p].version = v /\ pub'[p].minimum = m
        /\ pub'[p].previous = latest /\ pub'[p].created = FALSE /\ pub'[p].moved = FALSE
    BY <1>1, <2>1, ReadShareEffect
  <2>4. QED
    BY <2>2, <2>3 DEF PublicationOK, Held
<1>4. CASE Acquire(p)
  <2>1. lock' = p /\ builds' = builds + 1
    BY <1>4 DEF Acquire
  <2>2. ~Promote(p)
    BY <1>4 DEF Acquire, Promote, Publishing
  <2>3. \A m : Known(m)' => m.build # builds + 1
    BY <1>1, <2>2, KnownByPublisher, KnownFields, ManifestFields
  <2>4. installed # None => installed.build # builds + 1
    BY <1>1, InstalledFields, ManifestFields
  <2>5. pub[p].pc = "read" /\ pub'[p].pc = "locked" /\ pub'[p].build = builds + 1
    BY <1>1, <1>4, AcquireEffect DEF PubSteps
  <2>6. QED
    BY <1>1, <1>4, <2>1, <2>3, <2>4, <2>5, AcquireEffect DEF PublicationOK, Held, PubSteps
<1>5. CASE Copy(p)
  <2>1. ~Promote(p)
    BY <1>5 DEF Copy, Promote, Publishing
  <2>2. pub[p].pc = "locked" /\ current' = [current EXCEPT ![pub[p].version] = pub[p].build]
    BY <1>5 DEF Copy
  <2>3. current'[pub[p].version] = pub[p].build
    BY <1>1, <2>2, HolderFields, RecordTypes
  <2>4. QED
    BY <1>1, <1>5, <2>1, <2>2, <2>3, CopyEffect, KnownByPublisher DEF PublicationOK, Held, PubSteps
<1>6. CASE Archive(p)
  <2>1. ~Promote(p)
    BY <1>6 DEF Archive, Promote, Publishing
  <2>2. pub[p].pc = "copied" /\ pub'[p].pc = "archived"
    BY <1>1, <1>6, ArchiveEffect DEF PubSteps
  <2>3. /\ current'[pub[p].version] = pub[p].build
        /\ Moves(p) => /\ current'[pub[p].previous.version] = None
                       /\ archive'[pub[p].previous.version] # None
    <3>1. current[pub[p].version] = pub[p].build
      BY <1>1, <2>2 DEF PublicationOK, Held
    <3>2. CASE Moves(p)
      <4>1. /\ pub[p].previous.version \in Versions /\ pub[p].previous.version # pub[p].version
            /\ current[pub[p].previous.version] # None
        <5>1. pub[p].previous # None /\ current[pub[p].previous.version] # None
          BY <3>2 DEF Moves
        <5>2. pub[p].pc # "idle"
          BY <2>2
        <5>3. /\ pub[p].version \in Versions /\ pub[p].previous.version \in Versions
              /\ pub[p].previous.version < pub[p].version
          BY <5>1, <5>2, HolderFields
        <5>4. pub[p].version \in Nat /\ pub[p].previous.version \in Nat
          BY <5>3, ManifestFields
        <5>5. QED
          BY <5>1, <5>3, <5>4
      <4>2. /\ archive' = [archive EXCEPT ![pub[p].previous.version] = current[pub[p].previous.version]]
            /\ current' = [current EXCEPT ![pub[p].previous.version] = None]
        BY <1>6, <3>2 DEF Archive
      <4>3. QED
        BY <1>1, <3>1, <4>1, <4>2, RecordTypes
    <3>3. CASE ~Moves(p)
      BY <1>6, <3>1, <3>3 DEF Archive
    <3>4. QED
      BY <3>2, <3>3
  <2>4. pub'[p].moved = Moves(p) /\ (Moves(p) => pub[p].previous # None)
    BY <1>1, <1>6, ArchiveEffect DEF Moves
  <2>5. QED
    BY <1>1, <1>6, <2>1, <2>2, <2>3, <2>4, ArchiveEffect, KnownByPublisher
    DEF PublicationOK, Held, PubSteps
<1>7. CASE Promote(p)
  BY <1>1, <1>7, PromoteEffect DEF PublicationOK, Held, PubSteps
<1>8. CASE Ends(p)
  BY <1>1, <1>8, EndsEffect DEF PublicationOK, Held, PubEnds
<1>9. QED
  BY <1>2, <1>3, <1>4, <1>5, <1>6, <1>7, <1>8, PublishCases DEF Quiet

LEMMA PublicationStep ==
  ASSUME IInv, Next, NEW i \in Publishers
  PROVE  PublicationOK(i)'
<1>1. CASE RemoveStaleLock
  <2>1. pub[i].pc \notin Held
    <3>1. lock # None /\ pub[lock].pc \in {"idle", "read"}
      BY <1>1 DEF RemoveStaleLock
    <3>2. QED
      BY <3>1 DEF IInv, PublicationOK, Held
  <2>2. pub' = pub /\ PublicationOK(i)
    BY <1>1, StaleLockFrame DEF IInv
  <2>3. QED
    BY <2>1, <2>2 DEF PublicationOK, Held
<1>2. ASSUME NEW l \in Launchers, Launch(l)
      PROVE  PublicationOK(i)'
  <2>1. UNCHANGED <<current, archive, lock, builds, pub>>
    BY <1>2, LauncherFrame
  <2>2. \A m : Known(m)' => Known(m)
    BY <1>2, KnownByLauncher DEF IInv
  <2>3. PublicationOK(i)
    BY DEF IInv
  <2>4. pub[i].pc \in Held \ {"promoted"} /\ installed' # None => installed'.build # pub[i].build
    BY <1>2, <2>3, LaunchInstalls DEF PublicationOK
  <2>5. QED
    BY <2>1, <2>2, <2>3, <2>4 DEF PublicationOK
<1>3. QED
  BY <1>1, <1>2, OwnPublication, OtherPublication DEF Next

(***************************************************************************)
(* Manifests.                                                               *)
(***************************************************************************)
\* A promotion announces a build that is in no manifest yet.
LEMMA PromotedFresh ==
  ASSUME IInv, NEW p \in Publishers, Promote(p)
  PROVE  /\ ManifestOf(p) \in Manifest /\ ManifestOf(p) # None
         /\ ManifestOf(p).version = pub[p].version /\ ManifestOf(p).build = pub[p].build
         /\ ManifestOf(p).minimum = pub[p].minimum
         /\ ManifestOf(p).build <= builds /\ ManifestOf(p).minimum <= ManifestOf(p).version
         /\ \A m : Known(m) => m.build # ManifestOf(p).build
         /\ installed # None => installed.build # ManifestOf(p).build
<1>1. pub[p].pc = "archived"
  BY DEF Promote, Publishing
<1>2. /\ pub[p].version \in Versions /\ pub[p].minimum \in Versions
      /\ pub[p].minimum <= pub[p].version
      /\ pub[p].build \in Builds /\ pub[p].build <= builds
  BY <1>1, HolderFields DEF Held
<1>3. /\ \A m : Known(m) => m.build # pub[p].build
      /\ installed # None => installed.build # pub[p].build
  BY <1>1 DEF IInv, PublicationOK, Held
<1>4. QED
  BY <1>2, <1>3, ManifestFields DEF ManifestOf, Manifest

LEMMA ManifestsStep ==
  ASSUME IInv, Next
  PROVE  ManifestsOK'
<1>1. TypeOK /\ ManifestsOK
  BY DEF IInv
<1>2. ASSUME \A m : Known(m)' => Known(m), builds' \in {builds, builds + 1},
             \/ installed' = installed
             \/ installed' # None /\ \E m : Known(m) /\ m.build = installed'.build
      PROVE  ManifestsOK'
  <2>0. builds \in Nat /\ builds <= builds'
    BY <1>1, <1>2, BoundsAssumption DEF TypeOK
  <2>1. /\ \A m : Known(m) => m.build \in Nat
        /\ installed # None => installed.build \in Nat
    BY KnownFields, InstalledFields, ManifestFields
  <2>2. \A m : Known(m) => m.build <= builds'
    <3>1. TAKE m
    <3>2. HAVE Known(m)
    <3>3. m.build <= builds
      BY <1>1, <3>2 DEF ManifestsOK
    <3>4. QED
      BY <1>2, <2>0, <2>1, <3>2, <3>3
  <2>3. installed' # None => installed'.build <= builds'
    BY <1>1, <1>2, <2>0, <2>1, <2>2 DEF ManifestsOK
  <2>4. QED
    BY <1>1, <1>2, <2>2, <2>3 DEF ManifestsOK
<1>3. ASSUME NEW p \in Publishers, Publish(p), ~Promote(p)
      PROVE  ManifestsOK'
  <2>1. builds' \in {builds, builds + 1}
    BY <1>1, <1>3, PublishCases, ReadShareEffect, GiveUpEffect, CopyEffect, ArchiveEffect, EndsEffect
    DEF Quiet, Acquire
  <2>2. QED
    BY <1>1, <1>2, <1>3, <2>1, KnownByPublisher, PublisherFrame
<1>4. ASSUME NEW p \in Publishers, Promote(p)
      PROVE  ManifestsOK'
  <2>1. installed' = installed /\ builds' = builds
    BY <1>1, <1>4, PromoteEffect, PublisherFrame DEF Publish
  <2>2. \A m : Known(m)' => Known(m) \/ m = ManifestOf(p)
    BY <1>1, <1>4, KnownByPromotion
  <2>3. QED
    BY <1>1, <1>4, <2>1, <2>2, PromotedFresh DEF ManifestsOK
<1>5. CASE RemoveStaleLock
  BY <1>1, <1>5, StaleLockFrame DEF ManifestsOK, Known
<1>6. ASSUME NEW l \in Launchers, Launch(l)
      PROVE  ManifestsOK'
  <2>1. builds' = builds
    BY <1>6, LauncherFrame
  <2>2. QED
    BY <1>1, <1>2, <1>6, <2>1, KnownByLauncher, LaunchInstalls
<1>7. QED
  BY <1>3, <1>4, <1>5, <1>6 DEF Next

LEMMA NewestStep ==
  ASSUME IInv, Next
  PROVE  NewestIsLatest'
<1>1. TypeOK /\ NewestIsLatest
  BY DEF IInv
<1>2. ASSUME latest' = latest, regressed' = regressed, \A m : Known(m)' => Known(m),
             \/ installed' = installed
             \/ installed' # None /\ \E m : Known(m) /\ m.version = installed'.version
      PROVE  NewestIsLatest'
  BY <1>1, <1>2 DEF NewestIsLatest
<1>3. ASSUME NEW p \in Publishers, Publish(p), ~Promote(p)
      PROVE  NewestIsLatest'
  <2>1. regressed' = regressed
    BY <1>1, <1>3, PublishCases, ReadShareEffect, GiveUpEffect, AcquireEffect, CopyEffect,
       ArchiveEffect, EndsEffect DEF Quiet
  <2>2. QED
    BY <1>1, <1>2, <1>3, <2>1, KnownByPublisher, PublisherFrame
<1>4. ASSUME NEW p \in Publishers, Promote(p)
      PROVE  NewestIsLatest'
  <2>1. installed' = installed /\ latest' = ManifestOf(p)
    BY <1>1, <1>4, PromoteEffect, PublisherFrame DEF Publish
  <2>2. \A m : Known(m)' => Known(m) \/ m = ManifestOf(p)
    BY <1>1, <1>4, KnownByPromotion
  <2>3. /\ latest' # None /\ latest'.version = pub[p].version
        /\ pub[p].version \in Nat
    BY <1>4, <2>1, PromotedFresh, ManifestFields
  <2>4. regressed' = (regressed \/ (latest # None /\ latest.version > pub[p].version))
    BY <1>4 DEF Promote
  <2>5. CASE ~regressed'
    <3>1. ~regressed /\ (latest # None => ~(latest.version > pub[p].version))
      BY <2>4, <2>5
    <3>2. latest # None => latest.version \in Nat
      BY <1>1, ManifestFields, RecordTypes
    <3>3. latest # None => latest.version <= latest'.version
      BY <2>3, <3>1, <3>2
    <3>4. /\ \A m : Known(m) => m.version \in Nat
          /\ installed # None => installed.version \in Nat
      BY KnownFields, InstalledFields, ManifestFields
    <3>5. /\ \A m : Known(m) => m.version <= latest'.version
          /\ installed # None => installed.version <= latest'.version
      BY <1>1, <2>3, <3>1, <3>2, <3>3, <3>4 DEF NewestIsLatest
    <3>6. \A m : Known(m)' => m.version <= latest'.version
      BY <2>1, <2>2, <2>3, <3>5
    <3>7. QED
      BY <2>1, <2>3, <3>5, <3>6 DEF NewestIsLatest
  <2>6. CASE regressed'
    BY <2>6 DEF NewestIsLatest
  <2>7. QED
    BY <2>5, <2>6
<1>5. CASE RemoveStaleLock
  BY <1>1, <1>5, StaleLockFrame DEF NewestIsLatest, Known
<1>6. ASSUME NEW l \in Launchers, Launch(l)
      PROVE  NewestIsLatest'
  <2>1. latest' = latest /\ regressed' = regressed
    BY <1>6, LauncherFrame
  <2>2. QED
    BY <1>1, <1>2, <1>6, <2>1, KnownByLauncher, LaunchInstalls
<1>7. QED
  BY <1>3, <1>4, <1>5, <1>6 DEF Next

(***************************************************************************)
(* The share.                                                               *)
(***************************************************************************)
\* What a steady share keeps: every step but those of a holder leaves it.
LEMMA ShareFrame ==
  ASSUME IInv, UNCHANGED <<latest, current, archive, torn, regressed>>,
         \A m : Known(m)' => Known(m),
         \/ installed' = installed
         \/ installed' # None /\ \E m : /\ Known(m) /\ m.version = installed'.version
                                        /\ m.build = installed'.build,
         \A i \in Publishers :
            /\ pub[i].pc = "archived" =>
                  /\ pub'[i].pc = "archived" /\ pub'[i].moved = pub[i].moved
                  /\ pub'[i].previous = pub[i].previous
  PROVE  ShareOK'
<1>1. ShareOK
  BY DEF IInv
<1>2. CASE torn
  BY <1>2 DEF ShareOK
<1>3. CASE ~torn
  <2>1. /\ \A m : Known(m)' => Kept(m)'
        /\ installed' # None => Kept(installed)'
    BY <1>1, <1>3 DEF ShareOK, Kept
  <2>2. latest' # None => PackageOf(latest)' \/ \E p \in Publishers : Away(p, latest)'
    BY <1>1, <1>3 DEF ShareOK, PackageOf, Away
  <2>3. ~regressed' =>
           \A v \in Versions : archive'[v] # None =>
              \/ latest' # None /\ v < latest'.version
              \/ \E p \in Publishers :
                    pub'[p].pc = "archived" /\ pub'[p].moved /\ pub'[p].previous.version = v
    BY <1>1, <1>3 DEF ShareOK
  <2>4. QED
    BY <2>1, <2>2, <2>3 DEF ShareOK
<1>4. QED
  BY <1>2, <1>3

\* A package is added under a name that is free.
LEMMA CopyShare ==
  ASSUME IInv, NEW p \in Publishers, Copy(p)
  PROVE  ShareOK'
<1>1. TypeOK /\ ShareOK
  BY DEF IInv
<1>2. /\ pub[p].pc = "locked" /\ current[pub[p].version] = None
      /\ current' = [current EXCEPT ![pub[p].version] = pub[p].build]
  BY DEF Copy
<1>3. /\ UNCHANGED <<latest, archive, torn, regressed, installed>>
      /\ \A m : Known(m)' => Known(m)
      /\ \A i \in Publishers :
            pub[i].pc = "archived" =>
                  /\ pub'[i].pc = "archived" /\ pub'[i].moved = pub[i].moved
                  /\ pub'[i].previous = pub[i].previous
  <2>1. Publish(p) /\ ~Promote(p)
    BY <1>2 DEF Publish, Promote, Publishing
  <2>2. QED
    BY <1>1, <1>2, <2>1, CopyEffect, PublisherFrame, KnownByPublisher DEF PubSteps
<1>4. \A v \in Versions, b \in Builds : current[v] = b => current'[v] = b
  BY <1>1, <1>2, NoneApart, RecordTypes
<1>5. CASE torn
  BY <1>3, <1>5 DEF ShareOK
<1>6. CASE ~torn
  <2>1. \A m : Known(m)' => Kept(m)'
    <3>1. TAKE m
    <3>2. HAVE Known(m)'
    <3>3. Known(m) /\ m.version \in Versions /\ m.build \in Builds
      BY <1>3, <3>2, KnownFields
    <3>4. Kept(m)
      BY <1>1, <1>6, <3>3 DEF ShareOK
    <3>5. QED
      BY <1>3, <1>4, <3>3, <3>4 DEF Kept
  <2>2. installed' # None => Kept(installed)'
    BY <1>1, <1>3, <1>4, <1>6, InstalledFields DEF ShareOK, Kept
  <2>3. latest' # None => PackageOf(latest)' \/ \E i \in Publishers : Away(i, latest)'
    <3>1. latest # None => latest.version \in Versions /\ latest.build \in Builds
      BY <1>1, RecordTypes, ManifestFields
    <3>2. QED
      BY <1>1, <1>3, <1>4, <1>6, <3>1 DEF ShareOK, PackageOf, Away
  <2>4. ~regressed' =>
           \A v \in Versions : archive'[v] # None =>
              \/ latest' # None /\ v < latest'.version
              \/ \E i \in Publishers :
                    pub'[i].pc = "archived" /\ pub'[i].moved /\ pub'[i].previous.version = v
    BY <1>1, <1>3, <1>6 DEF ShareOK
  <2>5. QED
    BY <2>1, <2>2, <2>3, <2>4 DEF ShareOK
<1>7. QED
  BY <1>5, <1>6

\* The package that goes to the archive is the one latest.json names.
LEMMA ArchiveShare ==
  ASSUME IInv, NEW p \in Publishers, Archive(p)
  PROVE  ShareOK'
<1> DEFINE o == pub[p].previous.version
<1>1. TypeOK /\ ShareOK /\ PublicationOK(p)
  BY DEF IInv
<1>2. /\ pub[p].pc = "copied" /\ pub'[p].pc = "archived" /\ pub'[p].moved = Moves(p)
      /\ pub'[p].previous = pub[p].previous
      /\ \A i \in Publishers : i # p => pub'[i] = pub[i]
      /\ UNCHANGED <<latest, torn, regressed>>
  BY <1>1, ArchiveEffect DEF PubSteps
<1>3. installed' = installed /\ \A m : Known(m)' => Known(m)
  <2>1. Publish(p) /\ ~Promote(p)
    BY <1>2 DEF Publish, Promote, Publishing
  <2>2. QED
    BY <1>1, <2>1, PublisherFrame, KnownByPublisher
<1>4. CASE torn
  BY <1>2, <1>4 DEF ShareOK
<1>5. CASE ~torn /\ ~Moves(p)
  <2>1. UNCHANGED <<current, archive>>
    BY <1>5 DEF Archive
  <2>2. QED
    BY <1>2, <1>3, <2>1, ShareFrame
<1>6. CASE ~torn /\ Moves(p)
  <2>1. /\ pub[p].previous # None /\ current[o] # None /\ archive[o] = None
        /\ archive' = [archive EXCEPT ![o] = current[o]]
        /\ current' = [current EXCEPT ![o] = None]
    BY <1>6 DEF Archive, Moves
  <2>2. /\ Known(pub[p].previous) /\ o \in Versions /\ o < pub[p].version
        /\ pub[p].previous.build \in Builds
    <3>1. pub[p].pc # "idle"
      BY <1>2
    <3>2. Known(pub[p].previous)
      BY <2>1, <3>1, HolderFields
    <3>3. QED
      BY <2>1, <3>1, <3>2, HolderFields, KnownFields
  <2>3. \A v \in Versions, b \in Builds :
           current[v] = b \/ archive[v] = b => current'[v] = b \/ archive'[v] = b
    BY <1>1, <2>1, <2>2, NoneApart, RecordTypes
  <2>4. \A m : Known(m)' => Kept(m)'
    <3>1. TAKE m
    <3>2. HAVE Known(m)'
    <3>3. Known(m) /\ m.version \in Versions /\ m.build \in Builds
      BY <1>3, <3>2, KnownFields
    <3>4. Kept(m)
      BY <1>1, <1>6, <3>3 DEF ShareOK
    <3>5. QED
      BY <2>3, <3>3, <3>4 DEF Kept
  <2>5. installed' # None => Kept(installed)'
    BY <1>1, <1>3, <1>6, <2>3, InstalledFields DEF ShareOK, Kept
  <2>6. \A i \in Publishers : ~Away(i, latest)
    <3>1. TAKE i \in Publishers
    <3>2. CASE i = p
      BY <1>2, <3>2 DEF Away
    <3>3. CASE i # p
      BY <1>2, <3>3, OneHolder DEF Away, Held
    <3>4. QED
      BY <3>2, <3>3
  <2>7. latest' # None => PackageOf(latest)' \/ \E i \in Publishers : Away(i, latest)'
    <3>1. SUFFICES ASSUME latest # None
                   PROVE  PackageOf(latest)' \/ \E i \in Publishers : Away(i, latest)'
      BY <1>2
    <3>2. /\ Known(latest) /\ latest.version \in Versions /\ latest.build \in Builds
          /\ PackageOf(latest)
      BY <1>1, <1>6, <2>6, <3>1, KnownFields DEF ShareOK, Known
    <3>3. CASE latest.version # o
      BY <1>1, <1>2, <2>1, <2>2, <3>2, <3>3, RecordTypes DEF PackageOf
    <3>4. CASE latest.version = o
      <4>1. Kept(pub[p].previous)
        BY <1>1, <1>6, <2>2 DEF ShareOK
      <4>2. latest.build = pub[p].previous.build
        BY <2>1, <2>2, <3>2, <3>4, <4>1, NoneApart DEF Kept, PackageOf
      <4>3. latest = pub[p].previous
        BY <2>2, <3>2, <4>2 DEF IInv, ManifestsOK
      <4>4. QED
        BY <1>2, <1>6, <4>3 DEF Away
    <3>5. QED
      BY <3>3, <3>4
  <2>8. ~regressed' =>
           \A v \in Versions : archive'[v] # None =>
              \/ latest' # None /\ v < latest'.version
              \/ \E i \in Publishers :
                    pub'[i].pc = "archived" /\ pub'[i].moved /\ pub'[i].previous.version = v
    <3>1. SUFFICES ASSUME ~regressed, NEW v \in Versions, archive'[v] # None, v # o
                   PROVE  latest' # None /\ v < latest'.version
      BY <1>2, <1>6
    <3>2. archive[v] # None
      BY <1>1, <2>1, <2>2, <3>1, RecordTypes
    <3>3. \A i \in Publishers : ~(pub[i].pc = "archived")
      BY <1>2, OneHolder DEF Held
    <3>4. QED
      BY <1>1, <1>2, <1>6, <3>1, <3>2, <3>3 DEF ShareOK
  <2>9. QED
    BY <2>4, <2>5, <2>7, <2>8 DEF ShareOK
<1>7. QED
  BY <1>4, <1>5, <1>6

LEMMA PromoteShare ==
  ASSUME IInv, NEW p \in Publishers, Promote(p)
  PROVE  ShareOK'
<1>1. TypeOK /\ ShareOK /\ PublicationOK(p)
  BY DEF IInv
<1>2. /\ pub[p].pc = "archived" /\ pub'[p].pc = "promoted"
      /\ \A i \in Publishers : i # p => pub'[i] = pub[i]
      /\ latest' = ManifestOf(p)
      /\ UNCHANGED <<current, archive, torn>>
  BY <1>1, PromoteEffect DEF PubSteps
<1>3. installed' = installed /\ \A m : Known(m)' => Known(m) \/ m = ManifestOf(p)
  BY <1>1, PublisherFrame, KnownByPromotion DEF Publish
<1>4. CASE torn
  BY <1>2, <1>4 DEF ShareOK
<1>5. CASE ~torn
  <2>1. /\ ManifestOf(p) # None /\ ManifestOf(p).version = pub[p].version
        /\ ManifestOf(p).build = pub[p].build
    BY PromotedFresh
  <2>2. current[ManifestOf(p).version] = ManifestOf(p).build
    BY <1>1, <1>2, <2>1 DEF PublicationOK, Held
  <2>3. \A m : Known(m)' => Kept(m)'
    BY <1>1, <1>2, <1>3, <1>5, <2>2 DEF ShareOK, Kept
  <2>4. installed' # None => Kept(installed)'
    BY <1>1, <1>2, <1>3, <1>5 DEF ShareOK, Kept
  <2>5. PackageOf(latest)'
    BY <1>2, <2>2 DEF PackageOf
  <2>6. ~regressed' => \A v \in Versions : archive'[v] # None => v < latest'.version
    <3>1. SUFFICES ASSUME ~regressed', NEW v \in Versions, archive[v] # None
                   PROVE  v < pub[p].version
      BY <1>2, <2>1
    <3>2. ~regressed /\ (latest # None => ~(latest.version > pub[p].version))
      <4>1. regressed' = (regressed \/ (latest # None /\ latest.version > pub[p].version))
        BY DEF Promote
      <4>2. QED
        BY <3>1, <4>1
    <3>3. pub[p].version \in Nat /\ v \in Nat /\ (latest # None => latest.version \in Nat)
      BY <1>1, <1>2, HolderFields, ManifestFields, RecordTypes
    <3>4. CASE latest # None /\ v < latest.version
      BY <3>2, <3>3, <3>4
    <3>5. CASE \E i \in Publishers :
                  pub[i].pc = "archived" /\ pub[i].moved /\ pub[i].previous.version = v
      <4>1. pub[p].moved /\ pub[p].previous.version = v
        BY <1>2, <3>5, OneHolder DEF Held
      <4>2. pub[p].previous # None
        BY <1>1, <4>1 DEF PublicationOK
      <4>3. QED
        BY <1>2, <4>1, <4>2, HolderFields
    <3>6. QED
      BY <1>1, <1>5, <3>1, <3>2, <3>4, <3>5 DEF ShareOK
  <2>7. QED
    BY <1>2, <2>1, <2>3, <2>4, <2>5, <2>6 DEF ShareOK
<1>6. QED
  BY <1>4, <1>5

\* A publication that is withdrawn before its manifest leaves no trace.
LEMMA WithdrawShare ==
  ASSUME IInv, NEW p \in Publishers, Withdraw(p)
  PROVE  ShareOK'
<1> DEFINE o == pub[p].previous.version
           q == pub[p].version
<1>1. TypeOK /\ ShareOK /\ PublicationOK(p)
  BY DEF IInv
<1>2. /\ pub[p].pc \in Held /\ PubEnds(p)
      /\ UNCHANGED <<latest, regressed>>
  BY <1>1, EndsEffect DEF Ends
<1>3. installed' = installed /\ \A m : Known(m)' => Known(m)
  <2>1. Publish(p) /\ ~Promote(p)
    BY <1>2, PromoteEffect, <1>1 DEF Publish, PubSteps, PubEnds
  <2>2. QED
    BY <1>1, <2>1, PublisherFrame, KnownByPublisher
<1>4. CASE torn'
  BY <1>4 DEF ShareOK
<1>5. CASE ~torn'
  <2>1. ~torn /\ pub[p].pc \in Held \ {"promoted"}
    <3>1. torn' = (torn \/ pub[p].pc = "promoted")
      BY DEF Withdraw
    <3>2. QED
      BY <1>2, <1>5, <3>1
  <2>2. /\ pub[p].version \in Versions
        /\ pub[p].created => current[q] = pub[p].build
        /\ pub[p].moved =>
              /\ pub[p].pc = "archived" /\ o \in Versions /\ o # q
              /\ pub[p].previous # None
              /\ current[o] = None
    <3>1. pub[p].pc # "idle"
      BY <2>1 DEF Held
    <3>2. pub[p].moved => pub[p].pc = "archived" /\ pub[p].previous # None /\ current[o] = None
      BY <1>1, <2>1 DEF PublicationOK
    <3>3. pub[p].version \in Versions
      BY <3>1, HolderFields
    <3>4. pub[p].moved => o \in Versions /\ o < q
      BY <3>1, <3>2, HolderFields
    <3>5. pub[p].moved => o # q
      <4>1. q \in Nat /\ (pub[p].moved => o \in Nat)
        BY <3>3, <3>4, ManifestFields
      <4>2. QED
        BY <3>4, <4>1
    <3>6. QED
      BY <1>1, <3>2, <3>3, <3>4, <3>5 DEF PublicationOK
  <2>3. \A v \in Versions :
           current'[v] = IF pub[p].moved /\ v = o THEN archive[o]
                         ELSE IF pub[p].created /\ v = q THEN None ELSE current[v]
    BY <1>1, <2>2, RecordTypes DEF Withdraw
  <2>4. \A v \in Versions :
           archive'[v] = IF pub[p].moved /\ v = o THEN None ELSE archive[v]
    BY <1>1, <2>2, RecordTypes DEF Withdraw
  <2>5. \A v \in Versions, b \in Builds :
           b # pub[p].build /\ (current[v] = b \/ archive[v] = b)
              => current'[v] = b \/ archive'[v] = b
    BY <2>2, <2>3, <2>4, NoneApart
  <2>6. /\ \A m : Known(m) => m.build # pub[p].build
        /\ installed # None => installed.build # pub[p].build
    BY <1>1, <2>1 DEF PublicationOK
  <2>7. \A m : Known(m)' => Kept(m)'
    <3>1. TAKE m
    <3>2. HAVE Known(m)'
    <3>3. Known(m) /\ m.version \in Versions /\ m.build \in Builds
      BY <1>3, <3>2, KnownFields
    <3>4. Kept(m)
      BY <1>1, <2>1, <3>3 DEF ShareOK
    <3>5. QED
      BY <2>5, <2>6, <3>3, <3>4 DEF Kept
  <2>8. installed' # None => Kept(installed)'
    BY <1>1, <1>3, <2>1, <2>5, <2>6, InstalledFields DEF ShareOK, Kept
  <2>9. latest' # None => PackageOf(latest)' \/ \E i \in Publishers : Away(i, latest)'
    <3>1. SUFFICES ASSUME latest # None
                   PROVE  current'[latest.version] = latest.build
      BY <1>2 DEF PackageOf
    <3>2. /\ Known(latest) /\ latest.version \in Versions /\ latest.build \in Builds
          /\ Kept(latest)
      BY <1>1, <2>1, <3>1, KnownFields DEF ShareOK, Known
    <3>3. CASE PackageOf(latest)
      BY <2>2, <2>3, <2>6, <3>2, <3>3, NoneApart DEF PackageOf
    <3>4. CASE \E i \in Publishers : Away(i, latest)
      <4>1. Away(p, latest)
        BY <1>2, <3>4, OneHolder DEF Away, Held
      <4>2. current[latest.version] = None /\ latest.version = o /\ pub[p].moved
        BY <2>2, <4>1 DEF Away
      <4>3. archive[o] = latest.build
        BY <3>2, <4>2, NoneApart DEF Kept
      <4>4. QED
        BY <2>3, <3>2, <4>2, <4>3
    <3>5. QED
      BY <1>1, <2>1, <3>1, <3>3, <3>4 DEF ShareOK
  <2>10. ~regressed' =>
           \A v \in Versions : archive'[v] # None => latest' # None /\ v < latest'.version
    <3>1. SUFFICES ASSUME ~regressed, NEW v \in Versions, archive'[v] # None
                   PROVE  latest # None /\ v < latest.version
      BY <1>2
    <3>2. archive[v] # None /\ ~(pub[p].moved /\ v = o)
      BY <2>4, <3>1
    <3>3. \A i \in Publishers : pub[i].pc = "archived" => i = p
      BY <1>2, OneHolder DEF Held
    <3>4. QED
      BY <1>1, <2>1, <3>1, <3>2, <3>3 DEF ShareOK
  <2>11. QED
    BY <1>2, <2>7, <2>8, <2>9, <2>10 DEF ShareOK
<1>6. QED
  BY <1>4, <1>5

LEMMA ShareStep ==
  ASSUME IInv, Next
  PROVE  ShareOK'
<1>1. TypeOK
  BY DEF IInv
<1>2. ASSUME NEW p \in Publishers, Publish(p)
      PROVE  ShareOK'
  <2>1. installed' = installed
    BY <1>2, PublisherFrame
  <2>2. CASE Quiet(p) \/ Acquire(p)
    <3>1. /\ UNCHANGED <<latest, current, archive, torn, regressed>>
          /\ pub[p].pc # "archived"
          /\ \A i \in Publishers : i # p => pub'[i] = pub[i]
      BY <1>1, <2>2, ReadShareEffect, GiveUpEffect, AcquireEffect
      DEF Quiet, PubSteps, ReadShare, GiveUp, Publishing
    <3>2. ~Promote(p)
      BY <3>1 DEF Promote, Publishing
    <3>3. \A m : Known(m)' => Known(m)
      BY <1>1, <1>2, <3>2, KnownByPublisher
    <3>4. QED
      BY <2>1, <3>1, <3>3, ShareFrame
  <2>3. CASE Ends(p) /\ ~Withdraw(p)
    <3>1. Succeed(p) \/ PublisherDies(p)
      BY <2>3 DEF Ends
    <3>2. /\ UNCHANGED <<latest, current, archive, regressed>>
          /\ \A i \in Publishers : i # p => pub'[i] = pub[i]
          /\ torn' = (torn \/ (PublisherDies(p) /\ pub[p].pc = "archived"))
      <4>1. /\ UNCHANGED <<latest, regressed>>
            /\ \A i \in Publishers : i # p => pub'[i] = pub[i]
        BY <1>1, <2>3, EndsEffect DEF PubEnds
      <4>2. UNCHANGED <<current, archive>>
        BY <3>1 DEF Succeed, PublisherDies, share
      <4>3. CASE Succeed(p)
        <5>1. torn' = torn /\ pub[p].pc = "promoted"
          BY <4>3 DEF Succeed, history
        <5>2. QED
          BY <1>1, <4>1, <4>2, <5>1 DEF TypeOK
      <4>4. CASE PublisherDies(p)
        BY <4>1, <4>2, <4>4 DEF PublisherDies
      <4>5. QED
        BY <3>1, <4>3, <4>4
    <3>3. CASE pub[p].pc = "archived"
      <4>1. PublisherDies(p)
        BY <3>1, <3>3 DEF Succeed
      <4>2. torn'
        BY <3>2, <3>3, <4>1
      <4>3. QED
        BY <4>2 DEF ShareOK
    <3>4. CASE pub[p].pc # "archived"
      <4>1. torn' = torn
        BY <1>1, <3>2, <3>4 DEF TypeOK
      <4>2. ~Promote(p)
        BY <3>4 DEF Promote, Publishing
      <4>3. \A m : Known(m)' => Known(m)
        BY <1>1, <1>2, <4>2, KnownByPublisher
      <4>4. QED
        BY <2>1, <3>2, <3>4, <4>1, <4>3, ShareFrame
    <3>5. QED
      BY <3>3, <3>4
  <2>4. QED
    BY <1>2, <2>2, <2>3, PublishCases, CopyShare, ArchiveShare, PromoteShare, WithdrawShare
<1>3. CASE RemoveStaleLock
  <2>1. \A m : Known(m)' => Known(m)
    BY <1>3, StaleLockFrame DEF Known
  <2>2. QED
    BY <1>3, <2>1, StaleLockFrame, ShareFrame
<1>4. ASSUME NEW l \in Launchers, Launch(l)
      PROVE  ShareOK'
  <2>1. UNCHANGED <<latest, current, archive, pub, torn, regressed>>
    BY <1>4, LauncherFrame
  <2>2. \A m : Known(m)' => Known(m)
    BY <1>1, <1>4, KnownByLauncher
  <2>3. QED
    BY <1>4, <2>1, <2>2, LaunchInstalls, ShareFrame
<1>5. QED
  BY <1>2, <1>3, <1>4 DEF Next

(***************************************************************************)
(* The local root.                                                          *)
(***************************************************************************)
\* A publisher changes nothing an update relies on.
LEMMA UpdateByPublisher ==
  ASSUME IInv, NEW p \in Publishers, Publish(p), NEW l \in Launchers
  PROVE  UpdateOK(l)'
<1>1. UNCHANGED <<dirs, installed, cached, run, raced>>
  BY PublisherFrame
<1>2. TypeOK /\ UpdateOK(l)
  BY DEF IInv
<1>3. regressed => regressed'
  <2>1. CASE Promote(p)
    BY <2>1 DEF Promote
  <2>2. CASE ~Promote(p)
    BY <1>2, <2>2, PublishCases, ReadShareEffect, GiveUpEffect, AcquireEffect, CopyEffect,
       ArchiveEffect, EndsEffect DEF Quiet
  <2>3. QED
    BY <2>1, <2>2
<1>4. QED
  BY <1>1, <1>2, <1>3 DEF UpdateOK

\* Another launcher is alone no longer, and puts nothing else under this version.
LEMMA OtherUpdate ==
  ASSUME IInv, NEW l \in Launchers, NEW k \in Launchers, k # l, Launch(k)
  PROVE  UpdateOK(l)'
<1>1. TypeOK /\ UpdateOK(l) /\ UpdateOK(k)
  BY DEF IInv
<1>2. run'[l] = run[l]
  BY <1>1, LaunchCases, StartUpdateEffect, RereadEffect, MoveOnEffect, CacheEffect, QuietStop
  DEF RunSteps
<1>3. CASE run[l].pc = "idle"
  BY <1>2, <1>3 DEF UpdateOK
<1>4. CASE run[l].pc # "idle"
  <2>1. /\ run[l].manifest.version \in Versions /\ run[l].manifest.build \in Builds
        /\ run[l].manifest # None
    BY <1>4, RunFields
  <2>2. run[l].pc \in {"placed", "pointed"} =>
           dirs'[run[l].manifest.version] = run[l].manifest.build
    <3>1. SUFFICES ASSUME dirs[run[l].manifest.version] = run[l].manifest.build
                   PROVE  dirs'[run[l].manifest.version] = run[l].manifest.build
      BY <1>1 DEF UpdateOK
    <3>2. CASE Place(k)
      <4>1. /\ run[k].manifest.version \in Versions
            /\ dirs[run[k].manifest.version] \in {None, run[k].manifest.build}
            /\ dirs' = [dirs EXCEPT ![run[k].manifest.version] = run[k].manifest.build]
        BY <3>2, RunFields DEF Place, Running
      <4>2. QED
        BY <1>1, <2>1, <3>1, <4>1, NoneApart, RecordTypes
    <3>3. CASE ~Place(k)
      <4>1. dirs' = dirs
        <5>1. CASE \E to \in {"fetched", "placed", "pointed", "failed"} : MovesOn(k, to)
          BY <3>3, <5>1 DEF MovesOn, Fetch, Point, InstallFails, root
        <5>2. QED
          BY <1>1, <5>1, LaunchCases, StartUpdateEffect, RereadEffect, CacheEffect, QuietStop
      <4>2. QED
        BY <3>1, <4>1
    <3>4. QED
      BY <3>2, <3>3
  <2>3. raced'
    <3>1. CASE StartUpdate(k)
      BY <1>4, <3>1 DEF StartUpdate, Updating
    <3>2. CASE ~StartUpdate(k)
      <4>1. run[k].pc # "idle"
        <5>1. CASE Reread(k)
          BY <5>1 DEF Reread
        <5>2. QED
          BY <1>1, <3>2, <5>1, LaunchCases, MoveOnEffect, CacheEffect, QuietStop
      <4>2. raced
        BY <1>1, <1>4, <4>1 DEF UpdateOK
      <4>3. raced' = raced
        BY <1>1, <3>2, LaunchCases, RereadEffect, MoveOnEffect, CacheEffect, QuietStop
      <4>4. QED
        BY <4>2, <4>3
    <3>3. QED
      BY <3>1, <3>2
  <2>4. QED
    BY <1>2, <2>1, <2>2, <2>3 DEF UpdateOK
<1>5. QED
  BY <1>3, <1>4

\* A version directory keeps its build, so what is installed can be started.
LEMMA InstalledStays ==
  ASSUME IInv, installed # None
  PROVE  Installed = installed
BY DEF IInv, OfflineStartPossible, Installed

LEMMA OwnUpdate ==
  ASSUME IInv, NEW l \in Launchers, Launch(l)
  PROVE  UpdateOK(l)'
<1>1. TypeOK /\ UpdateOK(l) /\ NewestIsLatest
  BY DEF IInv
<1>2. UNCHANGED <<latest, regressed>>
  BY LauncherFrame
<1>3. /\ latest # None => latest.version \in Nat
      /\ cached # None => cached.version \in Nat
      /\ installed # None => installed.version \in Nat
      /\ run[l].pc # "idle" => run[l].manifest # None /\ run[l].manifest.version \in Nat
  BY <1>1, ManifestFields, RecordTypes, RunFields
<1>4. Known(run[l].manifest) <=> run[l].manifest # None
  BY DEF Known
<1>5. CASE StartUpdate(l)
  <2>1. /\ run'[l].pc = "read" /\ run'[l].manifest = latest /\ run'[l].retried = FALSE
        /\ \A i \in Launchers : i # l => run'[i] = run[i]
        /\ UNCHANGED <<dirs, installed, cached>>
    BY <1>1, <1>5, StartUpdateEffect
  <2>2. latest # None /\ Older(Installed, latest.version)
    BY <1>5 DEF StartUpdate
  <2>3. installed # None => installed.version < latest.version
    BY <2>2, InstalledStays DEF Older
  <2>4. ~raced' => \A k \in Launchers : run'[k].pc # "idle" => k = l
    BY <1>5, <2>1 DEF StartUpdate, Updating
  <2>5. ~regressed /\ cached # None => cached.version <= latest.version
    BY <1>1 DEF NewestIsLatest, Known
  <2>6. QED
    BY <1>2, <2>1, <2>2, <2>3, <2>4, <2>5 DEF UpdateOK, Working
<1>6. CASE Reread(l)
  <2>1. /\ run'[l].pc = "read" /\ run'[l].manifest = latest /\ run'[l].retried = TRUE
        /\ \A i \in Launchers : i # l => run'[i] = run[i]
        /\ UNCHANGED <<dirs, installed, cached, raced>>
    BY <1>1, <1>6, RereadEffect
  <2>2. /\ run[l].pc = "failed" /\ ~run[l].retried /\ latest # None
        /\ latest.version # run[l].manifest.version
    BY <1>6 DEF Reread
  <2>3. ~raced' => \A k \in Launchers : run'[k].pc # "idle" => k = l
    BY <1>1, <2>1, <2>2 DEF UpdateOK
  <2>4. ~regressed /\ cached # None => cached.version <= latest.version
    BY <1>1 DEF NewestIsLatest, Known
  <2>5. ~raced /\ ~regressed /\ installed # None => installed.version < latest.version
    <3>1. SUFFICES ASSUME ~raced, ~regressed, installed # None
                   PROVE  installed.version < latest.version
      OBVIOUS
    <3>2. installed.version <= run[l].manifest.version
      BY <1>1, <2>2, <3>1 DEF UpdateOK
    <3>3. run[l].manifest.version <= latest.version
      BY <1>1, <1>3, <1>4, <2>2, <3>1 DEF NewestIsLatest
    <3>4. QED
      BY <1>3, <2>2, <3>1, <3>2, <3>3
  <2>6. QED
    BY <1>2, <2>1, <2>2, <2>3, <2>4, <2>5 DEF UpdateOK, Working
<1>7. CASE \E to \in {"fetched", "placed", "pointed", "failed"} : MovesOn(l, to)
  <2>1. PICK to \in {"fetched", "placed", "pointed", "failed"} : MovesOn(l, to)
    BY <1>7
  <2>2. /\ run'[l].pc = to
        /\ run'[l].manifest = run[l].manifest /\ run'[l].retried = run[l].retried
        /\ \A i \in Launchers : i # l => run'[i] = run[i]
        /\ run[l].pc # "idle"
        /\ UNCHANGED <<cached, raced>>
    BY <1>1, <2>1, MoveOnEffect DEF RunSteps
  <2>3. /\ to = "fetched" => run[l].pc = "read" /\ UNCHANGED <<dirs, installed>>
        /\ to = "placed" => run[l].pc = "fetched" /\ UNCHANGED installed
        /\ to = "pointed" => run[l].pc = "placed" /\ UNCHANGED dirs
        /\ to = "failed" => /\ run[l].pc \in {"read", "fetched", "placed", "pointed"}
                            /\ UNCHANGED <<dirs, installed>>
    BY <2>1 DEF MovesOn, Fetch, Place, Point, InstallFails, Running, root
  <2>4. to \in {"placed", "pointed"} => dirs'[run[l].manifest.version] = run[l].manifest.build
    <3>1. CASE to = "placed"
      <4>1. Place(l) /\ run[l].manifest.version \in Versions
        BY <2>1, <2>2, <3>1, RunFields DEF MovesOn
      <4>2. QED
        BY <1>1, <4>1, RecordTypes DEF Place
    <3>2. CASE to = "pointed"
      BY <1>1, <2>3, <3>2 DEF UpdateOK
    <3>3. QED
      BY <3>1, <3>2
  <2>5. to = "pointed" => installed' # None /\ installed'.version = run[l].manifest.version
    <3>1. SUFFICES ASSUME to = "pointed"
                   PROVE  installed' # None /\ installed'.version = run[l].manifest.version
      OBVIOUS
    <3>2. installed' = [version |-> run[l].manifest.version, build |-> run[l].manifest.build]
      BY <2>1, <3>1 DEF MovesOn, Point
    <3>3. installed' \in App
      BY <2>2, <3>2, RunFields DEF App
    <3>4. QED
      BY <3>2, <3>3, NoneApart
  <2>6. ~raced' => \A k \in Launchers : run'[k].pc # "idle" => k = l
    BY <1>1, <2>2 DEF UpdateOK
  <2>7. CASE raced
    BY <1>3, <2>2, <2>4, <2>7 DEF UpdateOK
  <2>8. CASE ~raced
    <3>1. ~regressed' /\ cached' # None => cached'.version <= run'[l].manifest.version
      BY <1>1, <1>2, <2>2, <2>8 DEF UpdateOK
    <3>2. /\ run'[l].pc \in Working /\ installed' # None /\ (run'[l].retried => ~regressed') =>
                installed'.version < run'[l].manifest.version
      BY <1>1, <1>2, <2>1, <2>2, <2>3, <2>8 DEF UpdateOK, Working
    <3>3. run'[l].pc = "failed" /\ installed' # None /\ ~run'[l].retried =>
                installed'.version <= run'[l].manifest.version
      <4>1. SUFFICES ASSUME to = "failed", installed # None, ~run[l].retried
                     PROVE  installed.version <= run[l].manifest.version
        BY <2>2, <2>3
      <4>2. CASE run[l].pc \in Working
        BY <1>1, <1>3, <2>2, <2>8, <4>1, <4>2 DEF UpdateOK
      <4>3. CASE run[l].pc = "pointed"
        BY <1>1, <1>3, <2>2, <2>8, <4>1, <4>3 DEF UpdateOK
      <4>4. QED
        BY <2>3, <4>1, <4>2, <4>3 DEF Working
    <3>4. QED
      BY <1>3, <2>2, <2>4, <2>5, <2>6, <3>1, <3>2, <3>3 DEF UpdateOK
  <2>9. QED
    BY <2>7, <2>8
<1>8. CASE Cache(l) \/ FallBack(l) \/ LauncherDies(l)
  <2>1. run'[l].pc = "idle"
    BY <1>1, <1>8, CacheEffect, QuietStop
  <2>2. QED
    BY <2>1 DEF UpdateOK, Working
<1>9. QED
  BY <1>5, <1>6, <1>7, <1>8, LaunchCases

LEMMA UpdateStep ==
  ASSUME IInv, Next, NEW l \in Launchers
  PROVE  UpdateOK(l)'
<1>1. CASE RemoveStaleLock
  <2>1. UpdateOK(l)
    BY DEF IInv
  <2>2. QED
    BY <1>1, <2>1, StaleLockFrame DEF UpdateOK
<1>2. QED
  BY <1>1, UpdateByPublisher, OwnUpdate, OtherUpdate DEF Next

LEMMA OfflineStep ==
  ASSUME IInv, Next
  PROVE  OfflineStartPossible'
<1>1. TypeOK /\ OfflineStartPossible
  BY DEF IInv
<1>2. CASE UNCHANGED <<dirs, installed, cached, raced>> /\ (regressed => regressed')
  BY <1>1, <1>2 DEF OfflineStartPossible
<1>3. ASSUME NEW p \in Publishers, Publish(p)
      PROVE  OfflineStartPossible'
  <2>1. UNCHANGED <<dirs, installed, cached, raced>>
    BY <1>3, PublisherFrame
  <2>2. regressed => regressed'
    <3>1. CASE Promote(p)
      BY <3>1 DEF Promote
    <3>2. CASE ~Promote(p)
      BY <1>1, <1>3, <3>2, PublishCases, ReadShareEffect, GiveUpEffect, AcquireEffect, CopyEffect,
         ArchiveEffect, EndsEffect DEF Quiet
    <3>3. QED
      BY <3>1, <3>2
  <2>3. QED
    BY <1>2, <2>1, <2>2
<1>4. CASE RemoveStaleLock
  BY <1>2, <1>4, StaleLockFrame
<1>5. ASSUME NEW l \in Launchers, Launch(l)
      PROVE  OfflineStartPossible'
  <2>1. regressed' = regressed
    BY <1>5, LauncherFrame
  <2>2. UpdateOK(l) /\ ManifestsOK
    BY DEF IInv
  <2>3. /\ cached # None => cached.version \in Nat /\ cached.minimum \in Nat
        /\ cached # None => cached.minimum <= cached.version
        /\ installed # None => installed.version \in Nat
    <3>1. cached # None => Known(cached)
      BY DEF Known
    <3>2. QED
      BY <3>1, KnownFields, InstalledFields, ManifestFields
  <2>4. run[l].pc # "idle" =>
           /\ run[l].manifest # None /\ run[l].manifest.version \in Versions
           /\ run[l].manifest.build \in Builds
           /\ run[l].manifest.version \in Nat /\ run[l].manifest.minimum \in Nat
           /\ run[l].manifest.minimum <= run[l].manifest.version
    BY RunFields, KnownFields, ManifestFields
  <2>5. CASE StartUpdate(l) \/ Reread(l) \/ Fetch(l) \/ InstallFails(l) \/ FallBack(l)
             \/ LauncherDies(l)
    <3>1. UNCHANGED <<dirs, installed, cached>>
      BY <1>1, <2>5, StartUpdateEffect, RereadEffect, QuietStop DEF Fetch, InstallFails, root
    <3>2. raced => raced'
      BY <2>5 DEF StartUpdate, Reread, Fetch, InstallFails, FallBack, LauncherDies, history
    <3>3. QED
      BY <1>1, <2>1, <3>1, <3>2 DEF OfflineStartPossible
  <2>6. CASE Place(l)
    <3>1. /\ run[l].pc = "fetched"
          /\ dirs[run[l].manifest.version] \in {None, run[l].manifest.build}
          /\ dirs' = [dirs EXCEPT ![run[l].manifest.version] = run[l].manifest.build]
          /\ UNCHANGED <<installed, cached, raced>>
      BY <2>6 DEF Place, Running, history
    <3>2. installed # None => installed.version \in Versions /\ installed.build \in Builds
      BY InstalledFields
    <3>3. installed # None => dirs'[installed.version] = installed.build
      BY <1>1, <2>4, <3>1, <3>2, NoneApart, RecordTypes DEF OfflineStartPossible
    <3>4. QED
      BY <1>1, <2>1, <3>1, <3>3 DEF OfflineStartPossible
  <2>7. CASE Point(l)
    <3>1. /\ run[l].pc = "placed"
          /\ installed' = [version |-> run[l].manifest.version, build |-> run[l].manifest.build]
          /\ UNCHANGED <<dirs, cached, raced>>
      BY <2>7 DEF Point, Running, history
    <3>2. dirs[run[l].manifest.version] = run[l].manifest.build
      BY <2>2, <3>1 DEF UpdateOK
    <3>3. ~raced /\ ~regressed /\ cached # None => cached.version <= run[l].manifest.version
      BY <2>2, <3>1 DEF UpdateOK
    <3>4. ~raced /\ ~regressed /\ cached # None => run[l].manifest.version >= cached.minimum
      BY <2>3, <2>4, <3>1, <3>3
    <3>5. QED
      BY <2>1, <3>1, <3>2, <3>4 DEF OfflineStartPossible
  <2>8. CASE Cache(l)
    <3>1. /\ run[l].pc = "pointed" /\ cached' = run[l].manifest
          /\ UNCHANGED <<dirs, installed, raced>>
      BY <1>1, <2>8, CacheEffect
    <3>2. ~raced => installed # None /\ installed.version = run[l].manifest.version
      BY <2>2, <3>1 DEF UpdateOK
    <3>3. ~raced => installed.version >= run[l].manifest.minimum
      BY <2>4, <3>1, <3>2
    <3>4. QED
      BY <1>1, <2>1, <3>1, <3>3 DEF OfflineStartPossible
  <2>9. QED
    BY <1>5, <2>5, <2>6, <2>7, <2>8 DEF Launch
<1>6. QED
  BY <1>3, <1>4, <1>5 DEF Next

(***************************************************************************)
(* The theorems.                                                            *)
(***************************************************************************)
LEMMA InitInv == Init => IInv
<1> SUFFICES ASSUME Init
             PROVE  IInv
  OBVIOUS
<1>1. TypeOK
  <2>1. 0 \in 0 .. MaxBuilds
    BY BoundsAssumption
  <2>2. QED
    BY <2>1, RecordTypes, NoPubType, NoRunType DEF Init
<1>2. /\ \A p \in Publishers : pub[p] = NoPub
      /\ \A l \in Launchers : run[l] = NoRun
      /\ latest = None /\ cached = None /\ installed = None
      /\ \A v \in Versions : archive[v] = None
  BY DEF Init
<1>3. \A m : ~Known(m)
  BY <1>2 DEF Known, NoPub, NoRun
<1>4. \A p \in Publishers : PublicationOK(p)
  <2>1. TAKE p \in Publishers
  <2>2. pub[p].pc = "idle" /\ pub[p].created = FALSE /\ pub[p].moved = FALSE
    BY <1>2 DEF NoPub
  <2>3. QED
    BY <2>2 DEF PublicationOK, Held
<1>5. \A l \in Launchers : UpdateOK(l)
  BY <1>2 DEF UpdateOK, NoRun, Working
<1>6. ManifestsOK /\ NewestIsLatest
  BY <1>2, <1>3 DEF ManifestsOK, NewestIsLatest
<1>7. ShareOK
  BY <1>2, <1>3 DEF ShareOK
<1>8. OfflineStartPossible
  BY <1>2 DEF OfflineStartPossible
<1>9. QED
  BY <1>1, <1>4, <1>5, <1>6, <1>7, <1>8 DEF IInv

LEMMA NextInv == IInv /\ Next => IInv'
<1> SUFFICES ASSUME IInv, Next
             PROVE  IInv'
  OBVIOUS
<1>1. TypeOK'
  BY TypeStep DEF IInv
<1>2. QED
  BY <1>1, PublicationStep, ManifestsStep, ShareStep, NewestStep, UpdateStep, OfflineStep DEF IInv

LEMMA StutterInv == IInv /\ UNCHANGED vars => IInv'
<1> SUFFICES ASSUME IInv, UNCHANGED vars
             PROVE  IInv'
  OBVIOUS
<1>1. UNCHANGED <<latest, current, archive, lock, builds, pub, dirs, installed, cached, run, torn,
                  regressed, raced>>
  BY DEF vars, share, root, history
<1>2. \A m : Known(m)' <=> Known(m)
  BY <1>1 DEF Known
<1>3. TypeOK'
  BY <1>1 DEF IInv, TypeOK
<1>4. \A p \in Publishers : PublicationOK(p)'
  BY <1>1, <1>2 DEF IInv, PublicationOK
<1>5. ManifestsOK' /\ NewestIsLatest'
  BY <1>1, <1>2 DEF IInv, ManifestsOK, NewestIsLatest
<1>6. ShareOK'
  BY <1>1, <1>2, ShareFrame
<1>7. \A l \in Launchers : UpdateOK(l)'
  BY <1>1 DEF IInv, UpdateOK
<1>8. OfflineStartPossible'
  BY <1>1 DEF IInv, OfflineStartPossible
<1>9. QED
  BY <1>3, <1>4, <1>5, <1>6, <1>7, <1>8 DEF IInv

\* The invariant is inductive.
THEOREM Invariance == Spec => []IInv
<1>1. IInv /\ [Next]_vars => IInv'
  BY NextInv, StutterInv
<1>2. QED
  BY InitInv, <1>1, PTL DEF Spec

\* The state stays what publish_release.py and launcher.py declare.
THEOREM TypesKept == Spec => []TypeOK
<1>1. IInv => TypeOK
  BY DEF IInv
<1>2. QED
  BY <1>1, Invariance, PTL

\* publish_release.py moves the previous package back before it gives the lock
\* up, and replaces latest.json only while the new one is in place.
THEOREM LatestCanBeInstalled == Spec => []LatestInstallable
<1>1. IInv => LatestInstallable
  BY DEF IInv, ShareOK, LatestInstallable, Away
<1>2. QED
  BY <1>1, Invariance, PTL

\* update_and_launch writes current.json after the version directory, and never
\* replaces a version directory by another build.
THEOREM OfflineStart == Spec => []OfflineStartPossible
<1>1. IInv => OfflineStartPossible
  BY DEF IInv
<1>2. QED
  BY <1>1, Invariance, PTL

\* A version is published once: a package of the same version in
\* Packages/Current stops the second publication.
THEOREM VersionsHaveOneBuild == Spec => []OneBuildPerVersion
<1>1. IInv => OneBuildPerVersion
  <2>1. SUFFICES ASSUME IInv, installed # None, latest # None,
                        installed.version = latest.version, ~torn, ~regressed
                 PROVE  installed.build = latest.build
    BY DEF OneBuildPerVersion
  <2>2. /\ installed.version \in Versions /\ installed.build # None
        /\ latest.version \in Nat /\ latest.build # None
    BY <2>1, InstalledFields, KnownFields, ManifestFields, NoneApart DEF Known
  <2>3. Kept(installed) /\ Kept(latest)
    BY <2>1 DEF IInv, ShareOK, Known
  <2>4. CASE archive[installed.version] = None
    BY <2>1, <2>2, <2>3, <2>4 DEF Kept
  <2>5. CASE archive[installed.version] # None
    <3>1. PICK p \in Publishers : /\ pub[p].pc = "archived" /\ pub[p].moved
                                  /\ pub[p].previous.version = installed.version
      <4>1. ~(installed.version < latest.version)
        BY <2>1, <2>2
      <4>2. QED
        BY <2>1, <2>2, <2>5, <4>1 DEF IInv, ShareOK
    <3>2. current[installed.version] = None
      BY <2>1, <3>1 DEF IInv, PublicationOK
    <3>3. QED
      BY <2>1, <2>2, <2>3, <3>2 DEF Kept
  <2>6. QED
    BY <2>4, <2>5
<1>2. QED
  BY <1>1, Invariance, PTL

\* update_and_launch compares versions before it installs, and _reread demands
\* another version than the one that failed.
THEOREM NeverDowngraded == Spec => AppNeverDowngraded
<1> DEFINE Change == installed # None /\ installed' # installed =>
                        \/ installed'.version > installed.version
                        \/ raced
                        \/ regressed /\ \E l \in Launchers : run[l].pc = "placed" /\ run[l].retried
<1>1. ASSUME IInv, [Next]_vars
      PROVE  [Change]_vars
  <2>1. SUFFICES ASSUME Next, installed # None, installed' # installed, ~raced,
                        ~(regressed /\ \E l \in Launchers : run[l].pc = "placed" /\ run[l].retried)
                 PROVE  installed'.version > installed.version
    BY <1>1
  <2>2. PICK l \in Launchers : Launch(l)
    BY <2>1, PublisherFrame, StaleLockFrame DEF Next
  <2>3. Point(l) /\ installed'.version = run[l].manifest.version
    BY <1>1, <2>1, <2>2, LaunchInstalls
  <2>4. run[l].pc = "placed"
    BY <2>3 DEF Point, Running
  <2>5. run[l].retried => ~regressed
    BY <2>1, <2>4
  <2>6. installed.version < run[l].manifest.version
    BY <1>1, <2>1, <2>4, <2>5 DEF IInv, UpdateOK, Working
  <2>7. installed.version \in Nat /\ run[l].manifest.version \in Nat
    <3>1. run[l].pc # "idle"
      BY <2>4
    <3>2. QED
      BY <1>1, <2>1, <3>1, InstalledFields, RunFields, ManifestFields
  <2>8. QED
    BY <2>3, <2>6, <2>7
<1>2. IInv /\ [Next]_vars => [Change]_vars
  BY <1>1
<1> HIDE DEF Change
<1>3. Spec => [][Change]_vars
  BY <1>2, Invariance, PTL DEF Spec
<1>4. QED
  BY <1>3 DEF Change, AppNeverDowngraded
=============================================================================
