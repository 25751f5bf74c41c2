------------------------ MODULE LauncherUpdateProofs ------------------------
(***************************************************************************)
(* The properties of LauncherUpdate for every set of manifests, processes   *)
(* and transactions.  A version directory that holds a build never changes, *)
(* so that pointers stay sound whatever overlaps; the other properties also *)
(* need that one call at a time is under way, and then follow it from the   *)
(* pointer it found to the receipt it leaves.                               *)
(***************************************************************************)
EXTENDS LauncherUpdate, TLAPS

ProcRecords ==
    [pc: Stages, manifest: Manifests \cup {None},
     txn: Txns \cup {None}, previous: Pointers \cup {None}]

Early == {"checking", "downloading", "verified", "staged", "installed"}
Opened == Early \cup {"activating", "pointed", "pending", "promoted", "restored"}
Placed == {"installed", "activating", "pointed", "pending", "promoted"}

\* What a process has read and done holds on the disk.
ProcOK(r) ==
    /\ r.pc # "idle" => r.manifest \in Manifests
    /\ r.pc \in Opened =>
         /\ r.txn \in Txns
         /\ receipts[r.txn] # None
         /\ receipts[r.txn].target = r.manifest.version
    /\ r.previous # None => versions[r.previous.version] = r.previous.build
    /\ r.pc \in Placed => versions[r.manifest.version] = r.manifest.build
    /\ r.pc \in {"pointed", "pending", "promoted"} => active # None
    /\ r.pc = "promoted" => lkg # None

DiskOK ==
    /\ TypeOK
    /\ PointersSound
    /\ lkg # None => active # None
    /\ migration # "idle" => active # None /\ versions[LegacyVersion] \in Builds
    /\ \A p \in Processes : ProcOK(procs[p])

\* Directories, receipts and pointers that exist go on existing.
Grows ==
    /\ \A v \in Versions : versions[v] \in Builds => versions'[v] = versions[v]
    /\ \A t \in Txns : receipts[t] # None =>
         receipts'[t] # None /\ receipts'[t].target = receipts[t].target
    /\ active # None => active' # None
    /\ lkg # None => lkg' # None

LEMMA ConstantsTyped ==
    /\ Versions \subseteq Nat /\ LegacyVersion \in Versions
    /\ \A m \in Manifests : m.version \in Versions /\ m.build \in Builds
    /\ \A m \in Manifests : PointerTo(m) \in Pointers
    /\ None \notin Pointers /\ None \notin Receipts
    /\ None \notin Builds /\ Partial \notin Builds
<1>1. \A m \in Manifests : m.version \in Nat
  BY ManifestsAssumption DEF ManifestRecords
<1>2. \A m \in Manifests : m.version \in Versions /\ m.build \in Builds
  BY DEF Versions, Builds
<1>3. Versions \subseteq Nat /\ LegacyVersion \in Versions
  BY <1>1, BoundAssumption DEF Versions
<1>4. \A m \in Manifests : PointerTo(m) \in Pointers
  BY <1>2 DEF PointerTo, Pointers
<1>5. None \notin Builds /\ Partial \notin Builds
  BY NullAssumption
<1> QED
  BY <1>2, <1>3, <1>4, <1>5, NullAssumption
LEMMA IdleBlank == Idle \in ProcRecords /\ Idle.pc = "idle" /\ Idle.previous = None
  BY DEF Idle, ProcRecords, Stages

LEMMA ProcTyped ==
    ASSUME TypeOK, NEW p \in Processes
    PROVE  procs \in [Processes -> ProcRecords] /\ procs[p] \in ProcRecords
  BY DEF TypeOK, ProcRecords

\* How the shorthands of the model change a process and a receipt.
LEMMA GoesMeans ==
    ASSUME TypeOK, NEW p \in Processes, NEW from, NEW to \in Stages, Goes(p, from, to)
    PROVE  \E r \in ProcRecords :
              /\ procs' = [procs EXCEPT ![p] = r]
              /\ r.pc = to /\ procs[p].pc = from
              /\ r.manifest = procs[p].manifest
              /\ r.txn = procs[p].txn
              /\ r.previous = procs[p].previous
<1> DEFINE old == procs[p]
           r == [old EXCEPT !.pc = to]
<1>1. old \in ProcRecords
  BY ProcTyped
<1>2. procs' = [procs EXCEPT ![p] = r] /\ old.pc = from
  BY DEF Goes
<1> HIDE DEF old
<1>3. r \in ProcRecords /\ r.pc = to /\ r.manifest = old.manifest
      /\ r.txn = old.txn /\ r.previous = old.previous
  BY <1>1 DEF ProcRecords
<1> HIDE DEF r
<1> QED
  BY <1>2, <1>3 DEF old

LEMMA EndsMeans ==
    ASSUME TypeOK, NEW p \in Processes, NEW from, Ends(p, from)
    PROVE  procs' = [procs EXCEPT ![p] = Idle] /\ procs[p].pc = from
  BY DEF Ends

LEMMA RecordMeans ==
    ASSUME DiskOK, NEW p \in Processes, procs[p].pc \in Opened,
           NEW s \in Unfinished \cup Finished, Record(p, s)
    PROVE  /\ receipts' \in [Txns -> Receipts \cup {None}]
           /\ procs[p].txn \in Txns
           /\ receipts'[procs[p].txn] # None
           /\ receipts'[procs[p].txn].state = s
           /\ \A t \in Txns :
                /\ receipts[t] # None =>
                     receipts'[t] # None /\ receipts'[t].target = receipts[t].target
                /\ t # procs[p].txn => receipts'[t] = receipts[t]
                /\ receipts'[t] # None => receipts[t] # None
<1> DEFINE t0 == procs[p].txn
           new == [receipts[t0] EXCEPT !.state = s]
<1>1. t0 \in Txns /\ receipts[t0] # None /\ receipts \in [Txns -> Receipts \cup {None}]
  BY DEF DiskOK, ProcOK, TypeOK
<1>2. receipts' = [receipts EXCEPT ![t0] = new]
  BY DEF Record
<1> HIDE DEF t0
<1>3. receipts[t0] \in Receipts
  BY <1>1
<1>4. new \in Receipts /\ new.state = s /\ new.target = receipts[t0].target
  BY <1>3 DEF Receipts
<1> HIDE DEF new
<1>5. new # None
  BY <1>4, ConstantsTyped
<1> QED
  BY <1>1, <1>2, <1>4, <1>5 DEF t0

\* What a process that does not move relies on is still there.
LEMMA OthersStay ==
    ASSUME DiskOK, Grows, NEW q \in Processes, procs'[q] = procs[q]
    PROVE  ProcOK(procs[q])'
<1>1. procs[q] \in ProcRecords /\ ProcOK(procs[q])
  BY ProcTyped DEF DiskOK
<1>2. procs[q].previous # None =>
        procs[q].previous.version \in Versions /\ procs[q].previous.build \in Builds
  BY <1>1 DEF ProcRecords, Pointers
<1>3. procs[q].previous # None => versions'[procs[q].previous.version] = procs[q].previous.build
  BY <1>1, <1>2 DEF ProcOK, Grows
<1>4. procs[q].pc \in Placed => versions'[procs[q].manifest.version] = procs[q].manifest.build
  BY <1>1, ConstantsTyped DEF ProcOK, Grows, Placed
<1> QED
  BY <1>1, <1>3, <1>4 DEF ProcOK, Grows

LEMMA ProcsMove ==
    ASSUME DiskOK, NEW p \in Processes, NEW r \in ProcRecords,
           procs' = [procs EXCEPT ![p] = r], Grows, ProcOK(procs[p])'
    PROVE  /\ procs' \in [Processes -> ProcRecords] /\ procs'[p] = r
           /\ \A q \in Processes \ {p} : procs'[q] = procs[q]
           /\ \A q \in Processes : ProcOK(procs[q])'
<1>1. procs \in [Processes -> ProcRecords]
  BY ProcTyped DEF DiskOK
<1>2. /\ procs' \in [Processes -> ProcRecords] /\ procs'[p] = r
      /\ \A q \in Processes \ {p} : procs'[q] = procs[q]
  BY <1>1
<1>3. \A q \in Processes \ {p} : ProcOK(procs[q])'
  BY <1>2, OthersStay
<1> QED
  BY <1>2, <1>3

\* A step that leaves directories and pointers alone.
LEMMA ReceiptStep ==
    ASSUME DiskOK, NEW p \in Processes, NEW r \in ProcRecords,
           procs' = [procs EXCEPT ![p] = r],
           UNCHANGED <<versions, active, lkg, migration, shortcut, setBack>>,
           staging' \subseteq Txns, policy' \in Manifests \cup {None},
           passed' \subseteq Versions, overlapped' \in BOOLEAN,
           receipts' \in [Txns -> Receipts \cup {None}],
           \A t \in Txns : receipts[t] # None =>
                receipts'[t] # None /\ receipts'[t].target = receipts[t].target,
           ProcOK(procs[p])'
    PROVE  DiskOK'
<1>1. Grows
  BY DEF Grows
<1>2. procs' \in [Processes -> ProcRecords] /\ \A q \in Processes : ProcOK(procs[q])'
  BY <1>1, ProcsMove
<1>3. TypeOK'
  BY <1>2 DEF DiskOK, TypeOK, ProcRecords
<1>4. PointersSound'
  BY DEF DiskOK, PointersSound, Valid
<1> QED
  BY <1>2, <1>3, <1>4 DEF DiskOK
-----------------------------------------------------------------------------
(* DiskOK, action by action.                                               *)

LEMMA BeginKeepsDisk ==
    ASSUME DiskOK, NEW p \in Processes, NEW m \in Manifests, Begin(p, m)
    PROVE  DiskOK'
<1> DEFINE r == [Idle EXCEPT !.pc = "begun", !.manifest = m]
<1>1. r \in ProcRecords /\ r.pc = "begun" /\ r.manifest = m /\ r.previous = None
  BY IdleBlank DEF ProcRecords, Stages
<1>2. procs' = [procs EXCEPT ![p] = r]
  BY DEF Begin
<1> HIDE DEF r
<1>3. procs'[p] = r
  BY <1>2, ProcTyped DEF DiskOK
<1>4. ProcOK(procs[p])'
  BY <1>1, <1>3 DEF ProcOK, Opened, Early, Placed
<1>5. /\ UNCHANGED <<versions, active, lkg, migration, shortcut, setBack>>
      /\ staging' \subseteq Txns /\ policy' \in Manifests \cup {None}
      /\ passed' \subseteq Versions /\ overlapped' \in BOOLEAN
      /\ UNCHANGED receipts /\ receipts \in [Txns -> Receipts \cup {None}]
  BY DEF Begin, DiskOK, TypeOK
<1> QED
  BY <1>1, <1>2, <1>4, <1>5, ReceiptStep

LEMMA OpenKeepsDisk ==
    ASSUME DiskOK, NEW p \in Processes, Open(p)
    PROVE  DiskOK'
<1>1. PICK t \in Txns :
        /\ receipts[t] = None
        /\ receipts' = [receipts EXCEPT ![t] =
                [state |-> "CHECKING", target |-> procs[p].manifest.version]]
        /\ procs' = [procs EXCEPT ![p] =
                [@ EXCEPT !.pc = "checking", !.txn = t, !.previous = ValidPointer(active)]]
  BY DEF Open
<1> DEFINE old == procs[p]
           previous == ValidPointer(active)
           r == [old EXCEPT !.pc = "checking", !.txn = t, !.previous = previous]
           new == [state |-> "CHECKING", target |-> old.manifest.version]
<1>2. old \in ProcRecords /\ old.pc = "begun" /\ ProcOK(old)
  BY ProcTyped DEF Open, DiskOK
<1>3. procs' = [procs EXCEPT ![p] = r] /\ receipts' = [receipts EXCEPT ![t] = new]
  BY <1>1
<1> HIDE DEF old
<1>4. old.manifest \in Manifests
  BY <1>2 DEF ProcOK
<1>5. previous \in Pointers \cup {None}
      /\ (previous # None => versions[previous.version] = previous.build)
  BY DEF ValidPointer, Valid, DiskOK, TypeOK
<1> HIDE DEF previous
<1>6. r \in ProcRecords /\ r.pc = "checking" /\ r.manifest = old.manifest
      /\ r.txn = t /\ r.previous = previous
  BY <1>2, <1>5 DEF ProcRecords, Stages
<1> HIDE DEF r
<1>7. new \in Receipts /\ new.target = old.manifest.version
  BY <1>4, ConstantsTyped DEF Receipts, Unfinished
<1> HIDE DEF new
<1>8. new # None /\ receipts \in [Txns -> Receipts \cup {None}]
  BY <1>7, ConstantsTyped DEF DiskOK, TypeOK
<1>9. /\ receipts' \in [Txns -> Receipts \cup {None}] /\ receipts'[t] = new
      /\ \A u \in Txns : receipts[u] # None =>
            receipts'[u] # None /\ receipts'[u].target = receipts[u].target
  BY <1>1, <1>3, <1>7, <1>8
<1>10. procs'[p] = r
  BY <1>3, ProcTyped DEF DiskOK
<1>11. UNCHANGED <<versions, active, lkg, migration, shortcut, setBack, staging, policy,
                   passed, overlapped>>
  BY DEF Open, history
<1>12. ProcOK(procs[p])'
  BY <1>4, <1>5, <1>6, <1>7, <1>8, <1>9, <1>10, <1>11 DEF ProcOK, Opened, Early, Placed
<1> QED
  BY <1>3, <1>6, <1>9, <1>11, <1>12, ReceiptStep DEF DiskOK, TypeOK

\* A step that goes on and records it, without touching directories or pointers.
LEMMA RecordingKeepsDisk ==
    ASSUME DiskOK, NEW p \in Processes, NEW from \in Opened, NEW to \in Opened,
           NEW s \in Unfinished,
           Goes(p, from, to), Record(p, s),
           UNCHANGED <<versions, active, lkg, policy, migration, shortcut, history>>,
           staging' \subseteq Txns,
           to \in Placed => from \in Placed,
           to \in {"pointed", "pending", "promoted"} => active # None,
           to # "promoted"
    PROVE  DiskOK'
<1>1. TypeOK /\ to \in Stages
  BY DEF DiskOK, Opened, Early, Stages
<1>2. PICK r \in ProcRecords :
        /\ procs' = [procs EXCEPT ![p] = r]
        /\ r.pc = to /\ procs[p].pc = from
        /\ r.manifest = procs[p].manifest
        /\ r.txn = procs[p].txn
        /\ r.previous = procs[p].previous
  BY <1>1, GoesMeans
<1>3. procs'[p] = r /\ ProcOK(procs[p])
  BY <1>1, <1>2, ProcTyped DEF DiskOK
<1>4. /\ receipts' \in [Txns -> Receipts \cup {None}]
      /\ \A t \in Txns : receipts[t] # None =>
            receipts'[t] # None /\ receipts'[t].target = receipts[t].target
  BY <1>2, RecordMeans
<1>5. from # "idle"
  BY DEF Opened, Early
<1>6. ProcOK(procs[p])'
  BY <1>2, <1>3, <1>4, <1>5 DEF ProcOK
<1> QED
  BY <1>2, <1>4, <1>6, ReceiptStep DEF history, DiskOK, TypeOK

\* A call that ends, by a receipt or by a crash.
LEMMA EndingKeepsDisk ==
    ASSUME DiskOK, NEW p \in Processes, NEW from, Ends(p, from),
           UNCHANGED <<versions, staging, active, lkg, policy, migration, shortcut, history>>,
           UNCHANGED receipts \/ (from \in Opened
                                    /\ \E s \in Unfinished \cup Finished : Record(p, s))
    PROVE  DiskOK'
<1>1. procs' = [procs EXCEPT ![p] = Idle] /\ procs[p].pc = from
  BY EndsMeans DEF DiskOK
<1>2. procs'[p] = Idle
  BY <1>1, ProcTyped DEF DiskOK
<1>3. ProcOK(procs[p])'
  BY <1>2, IdleBlank DEF ProcOK, Opened, Early, Placed
<1>4. /\ receipts' \in [Txns -> Receipts \cup {None}]
      /\ \A t \in Txns : receipts[t] # None =>
            receipts'[t] # None /\ receipts'[t].target = receipts[t].target
  <2>1. CASE UNCHANGED receipts
    BY <2>1 DEF DiskOK, TypeOK
  <2>2. CASE from \in Opened /\ \E s \in Unfinished \cup Finished : Record(p, s)
    BY <1>1, <2>2, RecordMeans
  <2> QED
    BY <2>1, <2>2
<1> QED
  BY <1>1, <1>3, <1>4, IdleBlank, ReceiptStep DEF history, DiskOK, TypeOK

LEMMA ReceiptsKeepDisk ==
    ASSUME DiskOK, NEW p \in Processes,
           \/ Download(p) \/ VerifyPackage(p) \/ Extract(p) \/ Ready(p) \/ AwaitHealth(p)
    PROVE  DiskOK'
<1> USE DEF Unfinished, Opened, Early, Placed
<1>1. staging \subseteq Txns /\ ProcOK(procs[p])
  BY DEF DiskOK, TypeOK
<1>2. CASE Download(p)
  BY <1>1, <1>2, RecordingKeepsDisk DEF Download
<1>3. CASE VerifyPackage(p)
  BY <1>1, <1>3, RecordingKeepsDisk DEF VerifyPackage
<1>4. CASE Extract(p)
  <2>1. procs[p].txn \in Txns
    BY <1>1, <1>4 DEF Extract, Goes, ProcOK
  <2>2. staging' \subseteq Txns
    BY <1>1, <1>4, <2>1 DEF Extract
  <2> QED
    BY <1>4, <2>2, RecordingKeepsDisk DEF Extract
<1>5. CASE Ready(p)
  BY <1>1, <1>5, RecordingKeepsDisk DEF Ready
<1>6. CASE AwaitHealth(p)
  <2>1. active # None
    BY <1>1, <1>6 DEF AwaitHealth, Goes, ProcOK
  <2> QED
    BY <1>1, <1>6, <2>1, RecordingKeepsDisk DEF AwaitHealth
<1> QED
  BY <1>2, <1>3, <1>4, <1>5, <1>6

LEMMA EndsKeepDisk ==
    ASSUME DiskOK, NEW p \in Processes,
           \/ ReportCurrent(p) \/ Confirm(p) \/ RecordRollback(p) \/ BlockRequired(p)
           \/ Fail(p) \/ Crash(p)
    PROVE  DiskOK'
<1> USE DEF Finished, Opened, Early
<1>1. CASE ReportCurrent(p)
  BY <1>1, EndingKeepsDisk DEF ReportCurrent, disk
<1>2. CASE Confirm(p)
  BY <1>2, EndingKeepsDisk DEF Confirm
<1>3. CASE RecordRollback(p)
  BY <1>3, EndingKeepsDisk DEF RecordRollback
<1>4. CASE BlockRequired(p)
  BY <1>4, EndingKeepsDisk DEF BlockRequired
<1>5. CASE Fail(p)
  <2>1. procs[p].pc \in Opened
    BY <1>5, ProcTyped DEF Fail, DiskOK, ProcRecords, Stages
  <2> QED
    BY <1>5, <2>1, EndingKeepsDisk DEF Fail
<1>6. CASE Crash(p)
  BY <1>6, EndingKeepsDisk DEF Crash, disk
<1> QED
  BY <1>1, <1>2, <1>3, <1>4, <1>5, <1>6

\* What a call that places a directory or sets a pointer has to leave behind.
LEMMA PointerStep ==
    ASSUME DiskOK, NEW p \in Processes, NEW from, NEW to \in Stages, Goes(p, from, to),
           Grows, UNCHANGED <<policy, receipts, migration, shortcut, overlapped, setBack>>,
           versions' \in [Versions -> Builds \cup {None, Partial}],
           staging' \subseteq Txns, passed' \subseteq Versions,
           active' \in Pointers \cup {None}, lkg' \in Pointers \cup {None},
           lkg' # None => active' # None,
           PointersSound',
           from \in Opened, to \in Opened,
           to \in Placed => versions'[procs[p].manifest.version] = procs[p].manifest.build,
           to \in {"pointed", "pending", "promoted"} => active' # None,
           to = "promoted" => lkg' # None
    PROVE  DiskOK'
<1>1. PICK r \in ProcRecords :
        /\ procs' = [procs EXCEPT ![p] = r]
        /\ r.pc = to /\ procs[p].pc = from
        /\ r.manifest = procs[p].manifest
        /\ r.txn = procs[p].txn
        /\ r.previous = procs[p].previous
  BY GoesMeans DEF DiskOK
<1>2. procs'[p] = r /\ ProcOK(procs[p]) /\ procs[p] \in ProcRecords
  BY <1>1, ProcTyped DEF DiskOK
<1>3. procs[p].previous # None =>
        /\ procs[p].previous.version \in Versions /\ procs[p].previous.build \in Builds
        /\ versions[procs[p].previous.version] = procs[p].previous.build
  BY <1>2 DEF ProcRecords, Pointers, ProcOK
<1>4. procs[p].previous # None =>
        versions'[procs[p].previous.version] = procs[p].previous.build
  BY <1>3 DEF Grows
<1>5. from # "idle"
  BY DEF Opened, Early
<1>6. ProcOK(procs[p])'
  BY <1>1, <1>2, <1>4, <1>5 DEF ProcOK, Grows
<1>7. procs' \in [Processes -> ProcRecords] /\ \A q \in Processes : ProcOK(procs[q])'
  BY <1>1, <1>6, ProcsMove
<1>8. TypeOK'
  BY <1>7 DEF DiskOK, TypeOK, ProcRecords
<1>9. migration' # "idle" => active' # None /\ versions'[LegacyVersion] \in Builds
  BY ConstantsTyped DEF DiskOK, Grows
<1> QED
  BY <1>7, <1>8, <1>9 DEF DiskOK

LEMMA InstallKeepsDisk ==
    ASSUME DiskOK, NEW p \in Processes, Install(p)
    PROVE  DiskOK'
<1> DEFINE m == procs[p].manifest
<1>1. m \in Manifests
  BY DEF Install, Goes, DiskOK, ProcOK
<1>2. Goes(p, "staged", "installed") /\ versions[m.version] \in {None, m.build}
      /\ versions' = [versions EXCEPT ![m.version] = m.build]
      /\ UNCHANGED <<active, lkg, policy, receipts, migration, shortcut, history>>
      /\ staging' \subseteq Txns
  BY DEF Install, DiskOK, TypeOK
<1> HIDE DEF m
<1>3. m.version \in Versions /\ m.build \in Builds /\ None \notin Builds
  BY <1>1, ConstantsTyped
<1>4. versions \in [Versions -> Builds \cup {None, Partial}]
  BY DEF DiskOK, TypeOK
<1>5. /\ versions' \in [Versions -> Builds \cup {None, Partial}]
      /\ versions'[m.version] = m.build
      /\ \A v \in Versions : versions[v] \in Builds => versions'[v] = versions[v]
  BY <1>2, <1>3, <1>4
<1>6. Grows
  BY <1>2, <1>5 DEF Grows
<1>7. PointersSound'
  BY <1>2, <1>5 DEF DiskOK, TypeOK, PointersSound, Valid, Pointers
<1> QED
  BY <1>2, <1>5, <1>6, <1>7, PointerStep
     DEF m, history, DiskOK, TypeOK, Stages, Opened, Early, Placed

LEMMA ActivateKeepsDisk ==
    ASSUME DiskOK, NEW p \in Processes, Activate(p)
    PROVE  DiskOK'
<1> DEFINE m == procs[p].manifest
<1>1. Goes(p, "activating", "pointed") /\ active' = PointerTo(m)
      /\ UNCHANGED <<versions, staging, lkg, policy, receipts, migration, shortcut, history>>
  BY DEF Activate
<1>2. m \in Manifests /\ versions[m.version] = m.build
  BY <1>1 DEF Goes, DiskOK, ProcOK, Placed
<1> HIDE DEF m
<1>3. active' \in Pointers /\ active' # None
  BY <1>1, <1>2, ConstantsTyped
<1>4. Grows
  BY <1>1, <1>3 DEF Grows
<1>5. PointersSound'
  BY <1>1, <1>2 DEF DiskOK, PointersSound, Valid, PointerTo
<1> QED
  BY <1>1, <1>2, <1>3, <1>4, <1>5, PointerStep
     DEF m, history, DiskOK, TypeOK, Stages, Opened, Early, Placed

LEMMA HealthPassesKeepsDisk ==
    ASSUME DiskOK, NEW p \in Processes, HealthPasses(p)
    PROVE  DiskOK'
<1> DEFINE m == procs[p].manifest
<1>1. Goes(p, "pending", "promoted") /\ lkg' = PointerTo(m)
      /\ passed' = passed \cup {m.version}
      /\ UNCHANGED <<versions, staging, active, policy, receipts, migration, shortcut,
                     overlapped, setBack>>
  BY DEF HealthPasses
<1>2. m \in Manifests /\ versions[m.version] = m.build /\ active # None
  BY <1>1 DEF Goes, DiskOK, ProcOK, Placed
<1> HIDE DEF m
<1>3. lkg' \in Pointers /\ lkg' # None /\ passed' \subseteq Versions
  BY <1>1, <1>2, ConstantsTyped DEF DiskOK, TypeOK
<1>4. Grows
  BY <1>1, <1>3 DEF Grows
<1>5. PointersSound'
  BY <1>1, <1>2 DEF DiskOK, PointersSound, Valid, PointerTo
<1> QED
  BY <1>1, <1>2, <1>3, <1>4, <1>5, PointerStep
     DEF m, DiskOK, TypeOK, Stages, Opened, Early, Placed

LEMMA HealthFailsKeepsDisk ==
    ASSUME DiskOK, NEW p \in Processes, HealthFails(p)
    PROVE  DiskOK'
<1>1. Goes(p, "pending", "restored") /\ Valid(procs[p].previous)
      /\ active' = procs[p].previous
      /\ UNCHANGED <<versions, staging, lkg, policy, receipts, migration, shortcut, history>>
  BY DEF HealthFails
<1>2. active' \in Pointers /\ active' # None
  BY <1>1, ProcTyped DEF Valid, DiskOK, ProcRecords
<1>3. Grows
  BY <1>1, <1>2 DEF Grows
<1>4. PointersSound'
  BY <1>1 DEF DiskOK, PointersSound, Valid
<1> QED
  BY <1>1, <1>2, <1>3, <1>4, PointerStep
     DEF history, DiskOK, TypeOK, Stages, Opened, Early, Placed

LEMMA MigrateKeepsDisk ==
    ASSUME DiskOK, Migrate
    PROVE  DiskOK'
<1>1. TypeOK /\ LegacyVersion \in Versions /\ UNCHANGED <<procs, receipts>>
  BY ConstantsTyped
     DEF DiskOK, Migrate, MigrateKeep, MigrateActive, MigrateLkg, MigrateShortcut,
         MigrateCrash, disk
<1> DEFINE pointer == LegacyPointer
<1>2. versions[LegacyVersion] \in Builds =>
        pointer \in Pointers /\ pointer # None
        /\ pointer.version = LegacyVersion /\ pointer.build = versions[LegacyVersion]
  BY <1>1, ConstantsTyped DEF LegacyPointer, Pointers
<1> HIDE DEF pointer
<1>3. Grows /\ TypeOK' /\ PointersSound' /\ (lkg' # None => active' # None)
      /\ (migration' # "idle" => active' # None /\ versions'[LegacyVersion] \in Builds)
  <2>1. CASE MigrateKeep
    <3>1. /\ versions[LegacyVersion] = None
          /\ versions' = [versions EXCEPT ![LegacyVersion] = Partial]
          /\ UNCHANGED <<staging, active, lkg, policy, receipts, procs, migration, shortcut,
                         passed, overlapped, setBack>>
          /\ migration = "idle"
      BY <2>1 DEF MigrateKeep, history
    <3>2. /\ versions' \in [Versions -> Builds \cup {None, Partial}]
          /\ \A v \in Versions : versions[v] \in Builds => versions'[v] = versions[v]
      BY <1>1, <3>1, ConstantsTyped DEF TypeOK
    <3>3. PointersSound'
      BY <1>1, <3>1, <3>2 DEF DiskOK, TypeOK, PointersSound, Valid, Pointers
    <3> QED
      BY <3>1, <3>2, <3>3 DEF DiskOK, Grows, TypeOK
  <2>2. CASE MigrateActive
    <3>1. /\ versions[LegacyVersion] \in Builds /\ active' = pointer /\ migration' = "active"
          /\ UNCHANGED <<versions, staging, lkg, policy, receipts, procs, shortcut, passed>>
          /\ overlapped' = (overlapped \/ Busy # {})
          /\ setBack' = (setBack \/ (lkg # None /\ lkg.version > LegacyVersion))
      BY <2>2 DEF MigrateActive, pointer
    <3>2. overlapped' \in BOOLEAN /\ setBack' \in BOOLEAN
      BY <3>1
    <3>3. PointersSound'
      BY <1>2, <3>1 DEF DiskOK, PointersSound, Valid
    <3> QED
      BY <1>2, <3>1, <3>2, <3>3 DEF DiskOK, Grows, TypeOK
  <2>3. CASE MigrateLkg
    <3>1. /\ migration = "active" /\ lkg' = pointer /\ migration' = "both"
          /\ UNCHANGED <<versions, staging, active, policy, receipts, procs, shortcut,
                         passed, overlapped, setBack>>
      BY <2>3 DEF MigrateLkg, history, pointer
    <3>2. versions[LegacyVersion] \in Builds /\ active # None
      BY <3>1 DEF DiskOK
    <3>3. PointersSound'
      BY <1>2, <3>1, <3>2 DEF DiskOK, PointersSound, Valid
    <3> QED
      BY <1>2, <3>1, <3>2, <3>3 DEF DiskOK, Grows, TypeOK
  <2>4. CASE MigrateShortcut
    BY <2>4 DEF MigrateShortcut, history, DiskOK, Grows, TypeOK, PointersSound, Valid
  <2>5. CASE MigrateCrash
    BY <2>5 DEF MigrateCrash, disk, history, DiskOK, Grows, TypeOK, PointersSound, Valid
  <2> QED
    BY <2>1, <2>2, <2>3, <2>4, <2>5 DEF Migrate
<1>4. \A q \in Processes : ProcOK(procs[q])'
  BY <1>1, <1>3, OthersStay
<1> QED
  BY <1>3, <1>4 DEF DiskOK

LEMMA NextKeepsDisk ==
    ASSUME DiskOK, [Next]_vars
    PROVE  DiskOK'
<1>1. CASE Migrate
  BY <1>1, MigrateKeepsDisk
<1>2. ASSUME NEW p \in Processes, Update(p)
      PROVE  DiskOK'
  BY <1>2, BeginKeepsDisk, OpenKeepsDisk, ReceiptsKeepDisk, EndsKeepDisk, InstallKeepsDisk,
     ActivateKeepsDisk, HealthPassesKeepsDisk, HealthFailsKeepsDisk DEF Update
<1>3. CASE UNCHANGED vars
  <2>1. UNCHANGED <<versions, staging, active, lkg, policy, receipts, shortcut, procs,
                    migration, passed, overlapped, setBack>>
    BY <1>3 DEF vars, disk, history
  <2> QED
    BY <2>1 DEF DiskOK, TypeOK, PointersSound, Valid, ProcOK
<1> QED
  BY <1>1, <1>2, <1>3 DEF Next

LEMMA InitDisk ==
    ASSUME Init
    PROVE  DiskOK
<1>1. /\ staging = {} /\ receipts = [t \in Txns |-> None]
      /\ procs = [p \in Processes |-> Idle] /\ migration = "idle"
      /\ overlapped = FALSE /\ setBack = FALSE
  BY DEF Init
<1>2. procs \in [Processes -> ProcRecords] /\ \A p \in Processes : ProcOK(procs[p])
  BY <1>1, IdleBlank DEF ProcOK, Opened, Early, Placed
<1>3. CASE Fresh
  <2>1. TypeOK
    BY <1>1, <1>2, <1>3 DEF TypeOK, Fresh, ProcRecords
  <2> QED
    BY <1>1, <1>2, <1>3, <2>1 DEF DiskOK, Fresh, PointersSound
<1>4. ASSUME NEW m \in Manifests, Confirmed(m)
      PROVE  DiskOK
  <2>1. m.version \in Versions /\ m.build \in Builds
        /\ PointerTo(m) \in Pointers /\ PointerTo(m) # None
    BY ConstantsTyped
  <2>2. /\ active \in Pointers /\ lkg \in Pointers /\ active # None /\ policy \in Manifests
        /\ versions \in [Versions -> Builds \cup {None, Partial}]
        /\ passed \subseteq Versions /\ shortcut \in {"legacy", "bootstrap"}
    BY <1>4, <2>1 DEF Confirmed
  <2>3. PointersSound
    BY <1>4, <2>1 DEF Confirmed, PointersSound, Valid, PointerTo
  <2>4. TypeOK
    BY <1>1, <1>2, <2>2 DEF TypeOK, ProcRecords
  <2> QED
    BY <1>1, <1>2, <2>2, <2>3, <2>4 DEF DiskOK
<1> QED
  BY <1>3, <1>4 DEF Init

\* What each update call and migration relies on stays on the disk: receipts,
\* placed directories and pointers, whatever the other calls do.
THEOREM DiskInvariance == Spec => []DiskOK
<1>1. Init => DiskOK
  BY InitDisk
<1>2. DiskOK /\ [Next]_vars => DiskOK'
  BY NextKeepsDisk
<1> QED
  BY <1>1, <1>2, PTL DEF Spec

(* Neither pointer ever names a directory that is missing, incomplete or    *)
(* holds another build, whatever update calls and migrations overlap or die *)
(* (write_pointer in bootstrap/core.py, migrate_shortcut in migration.py).   *)
THEOREM PointersAlwaysSound == Spec => []PointersSound
<1>1. DiskOK => PointersSound
  BY DEF DiskOK
<1> QED
  BY <1>1, DiskInvariance, PTL

(* Type correctness: no reachable state leaves the declared shape of the    *)
(* pointers, the receipts and the calls.                                    *)
THEOREM LauncherTypeCorrect == Spec => []TypeOK
<1>1. DiskOK => TypeOK
  BY DEF DiskOK
<1> QED
  BY <1>1, DiskInvariance, PTL
-----------------------------------------------------------------------------
(* One call at a time.                                                     *)

Vouching ==
    {"ACTIVATING", "ACTIVE_PENDING_HEALTH", "FAILED_RECOVERABLE", "BLOCKED_REQUIRED_UPDATE"}

Vouches(receipt, v) ==
    receipt # None /\ receipt.target = v /\ receipt.state \in Vouching

\* The launcher has passed, came with the shortcut, or a receipt tells of it.
Vouched(pointer, good, told) ==
    \/ pointer.version \in good
    \/ pointer.digest = Legacy
    \/ \E t \in Txns : Vouches(told[t], pointer.version)

\* A call that runs alone, from the pointer it found to the receipt it leaves.
Calm(r) ==
    /\ r.pc \in Early \cup {"activating"} => r.previous = active
    /\ r.pc \in Opened \ {"checking"} =>
         r.previous = None \/ r.previous.version < r.manifest.version
    /\ r.pc \in {"pointed", "pending", "promoted"} => active = PointerTo(r.manifest)
    /\ r.pc \in {"pointed", "pending"} =>
         /\ r.previous # None => Vouched(r.previous, passed, receipts)
         /\ ~setBack /\ lkg # None => r.previous # None /\ r.previous.version >= lkg.version
    /\ r.pc = "restored" => r.previous # None /\ active = r.previous
    /\ r.pc = "promoted" => lkg = PointerTo(r.manifest) /\ r.manifest.version \in passed
    /\ r.pc \in Early => receipts[r.txn].state \notin Vouching
    /\ r.pc \in {"activating", "pointed", "pending"} => receipts[r.txn].state \in Vouching

Alone ==
    /\ \A p, q \in Processes : procs[p].pc # "idle" /\ procs[q].pc # "idle" => p = q
    /\ \A p \in Processes : procs[p].pc # "idle" => migration = "idle"

Ordered ==
    /\ ~setBack /\ lkg # None => active.version >= lkg.version
    /\ migration # "idle" => active.version = LegacyVersion
    /\ active # None => Vouched(active, passed, receipts)

SerialOK == ~overlapped => Alone /\ Ordered /\ \A p \in Processes : Calm(procs[p])

ReceiptsOK ==
    \A t \in Txns :
        receipts[t] # None /\ receipts[t].state = "ACTIVE_CONFIRMED" =>
            /\ lkg # None
            /\ ~overlapped /\ ~setBack => lkg.version >= receipts[t].target

CallsOK == DiskOK /\ SerialOK /\ ReceiptsOK

LEMMA Lone ==
    ASSUME SerialOK, ~overlapped, NEW p \in Processes, procs[p].pc # "idle"
    PROVE  /\ migration = "idle" /\ Ordered /\ Calm(procs[p])
           /\ \A q \in Processes \ {p} : procs[q].pc = "idle"
  BY DEF SerialOK, Alone

\* One call moves while the others are idle.
LEMMA SerialStep ==
    ASSUME CallsOK, NEW p \in Processes, NEW r \in ProcRecords,
           procs' = [procs EXCEPT ![p] = r], UNCHANGED migration,
           ~overlapped' =>
             /\ migration = "idle" /\ Ordered' /\ Calm(procs[p])'
             /\ \A q \in Processes \ {p} : procs[q].pc = "idle"
    PROVE  SerialOK'
<1> SUFFICES ASSUME ~overlapped'
             PROVE  Alone' /\ Ordered' /\ \A q \in Processes : Calm(procs[q])'
  BY DEF SerialOK
<1>1. \A q \in Processes \ {p} : procs'[q] = procs[q] /\ procs'[q].pc = "idle"
  BY ProcTyped DEF CallsOK, DiskOK
<1>2. \A q \in Processes \ {p} : Calm(procs[q])'
  BY <1>1 DEF Calm, Early, Opened
<1> QED
  BY <1>1, <1>2 DEF Alone

LEMMA ReceiptsStay ==
    ASSUME CallsOK, UNCHANGED lkg, overlapped => overlapped', setBack => setBack',
           \A t \in Txns : receipts'[t] # None /\ receipts'[t].state = "ACTIVE_CONFIRMED" =>
                receipts'[t] = receipts[t]
    PROVE  ReceiptsOK'
<1> SUFFICES ASSUME NEW t \in Txns, receipts'[t] # None,
                    receipts'[t].state = "ACTIVE_CONFIRMED"
             PROVE  /\ lkg' # None
                    /\ ~overlapped' /\ ~setBack' => lkg'.version >= receipts'[t].target
  BY DEF ReceiptsOK
<1> QED
  BY DEF CallsOK, ReceiptsOK

LEMMA BeginStaysCalm ==
    ASSUME CallsOK, NEW p \in Processes, NEW m \in Manifests, Begin(p, m)
    PROVE  SerialOK' /\ ReceiptsOK'
<1> DEFINE r == [Idle EXCEPT !.pc = "begun", !.manifest = m]
<1>1. r \in ProcRecords /\ r.pc = "begun"
  BY IdleBlank DEF ProcRecords, Stages
<1>2. /\ procs' = [procs EXCEPT ![p] = r]
      /\ UNCHANGED <<active, lkg, receipts, migration, passed, setBack>>
      /\ overlapped' = (overlapped \/ Busy # {} \/ migration # "idle")
  BY DEF Begin
<1> HIDE DEF r
<1>3. procs'[p] = r
  BY <1>2, ProcTyped DEF CallsOK, DiskOK
<1>4. Calm(procs[p])'
  BY <1>1, <1>3 DEF Calm, Early, Opened
<1>5. ASSUME ~overlapped'
      PROVE  migration = "idle" /\ Ordered' /\ \A q \in Processes \ {p} : procs[q].pc = "idle"
  BY <1>2, <1>5 DEF CallsOK, SerialOK, Ordered, Busy
<1>6. SerialOK'
  BY <1>1, <1>2, <1>4, <1>5, SerialStep
<1> QED
  BY <1>2, <1>6, ReceiptsStay

LEMMA OpenStaysCalm ==
    ASSUME CallsOK, NEW p \in Processes, Open(p)
    PROVE  SerialOK' /\ ReceiptsOK'
<1>1. PICK t \in Txns :
        /\ receipts[t] = None
        /\ receipts' = [receipts EXCEPT ![t] =
                [state |-> "CHECKING", target |-> procs[p].manifest.version]]
        /\ procs' = [procs EXCEPT ![p] =
                [@ EXCEPT !.pc = "checking", !.txn = t, !.previous = ValidPointer(active)]]
  BY DEF Open
<1> DEFINE old == procs[p]
           r == [old EXCEPT !.pc = "checking", !.txn = t, !.previous = active]
           new == [state |-> "CHECKING", target |-> old.manifest.version]
<1>2. old \in ProcRecords /\ old.pc = "begun"
  BY ProcTyped DEF Open, CallsOK, DiskOK
<1>3. ValidPointer(active) = active /\ active \in Pointers \cup {None}
  BY DEF ValidPointer, CallsOK, DiskOK, PointersSound, TypeOK
<1>4. procs' = [procs EXCEPT ![p] = r] /\ receipts' = [receipts EXCEPT ![t] = new]
  BY <1>1, <1>3
<1>5. UNCHANGED <<active, lkg, migration, setBack, passed, overlapped>>
  BY DEF Open, history
<1> HIDE DEF old
<1>6. r \in ProcRecords /\ r.pc = "checking" /\ r.txn = t /\ r.previous = active
  BY <1>2, <1>3 DEF ProcRecords, Stages
<1> HIDE DEF r
<1>7. new.state = "CHECKING"
  OBVIOUS
<1> HIDE DEF new
<1>8. receipts'[t] = new /\ \A u \in Txns : u # t => receipts'[u] = receipts[u]
  BY <1>4 DEF CallsOK, DiskOK, TypeOK
<1>9. procs'[p] = r
  BY <1>4, ProcTyped DEF CallsOK, DiskOK
<1>10. Calm(procs[p])'
  BY <1>5, <1>6, <1>7, <1>8, <1>9 DEF Calm, Early, Vouching
<1>11. ASSUME ~overlapped'
       PROVE  /\ migration = "idle" /\ Ordered'
              /\ \A q \in Processes \ {p} : procs[q].pc = "idle"
  <2>1. /\ migration = "idle" /\ Ordered
        /\ \A q \in Processes \ {p} : procs[q].pc = "idle"
    BY <1>2, <1>5, <1>11, Lone DEF CallsOK, old
  <2>2. active # None => Vouched(active, passed', receipts')
    BY <1>1, <1>5, <1>8, <2>1 DEF Ordered, Vouched, Vouches
  <2> QED
    BY <1>5, <2>1, <2>2 DEF Ordered
<1>12. SerialOK'
  BY <1>4, <1>5, <1>6, <1>10, <1>11, SerialStep
<1>13. ReceiptsOK'
  BY <1>5, <1>7, <1>8, ReceiptsStay
<1> QED
  BY <1>12, <1>13

\* A step to the next stage that touches no pointer.
LEMMA OnwardStaysCalm ==
    ASSUME CallsOK, NEW p \in Processes, NEW from, NEW to \in Opened, Goes(p, from, to),
           UNCHANGED <<active, lkg, migration, history>>,
           <<from, to>> \in
             {<<"checking", "downloading">>, <<"downloading", "verified">>,
              <<"verified", "staged">>, <<"staged", "installed">>,
              <<"installed", "activating">>, <<"pointed", "pending">>},
           to = "downloading" =>
             \/ procs[p].previous = None
             \/ procs[p].previous.version < procs[p].manifest.version,
           \A t \in Txns : t # procs[p].txn => receipts'[t] = receipts[t],
           receipts'[procs[p].txn] # None,
           receipts'[procs[p].txn].target = receipts[procs[p].txn].target,
           \/ receipts'[procs[p].txn].state \in Vouching /\ to \in {"activating", "pending"}
           \/ /\ to \in Early
              /\ \/ receipts'[procs[p].txn] = receipts[procs[p].txn]
                 \/ receipts'[procs[p].txn].state \notin Vouching
    PROVE  SerialOK'
<1>1. TypeOK /\ to \in Stages
  BY DEF CallsOK, DiskOK, Opened, Early, Stages
<1>2. PICK r \in ProcRecords :
        /\ procs' = [procs EXCEPT ![p] = r]
        /\ r.pc = to /\ procs[p].pc = from
        /\ r.manifest = procs[p].manifest
        /\ r.txn = procs[p].txn
        /\ r.previous = procs[p].previous
  BY <1>1, GoesMeans
<1>3. procs'[p] = r
  BY <1>1, <1>2, ProcTyped
<1>4. ASSUME ~overlapped'
      PROVE  /\ migration = "idle" /\ Ordered' /\ Calm(procs[p])'
             /\ \A q \in Processes \ {p} : procs[q].pc = "idle"
  <2>1. ~overlapped /\ UNCHANGED <<setBack, passed>> /\ procs[p].pc # "idle"
    BY <1>2, <1>4 DEF history
  <2>2. /\ migration = "idle" /\ Ordered /\ Calm(procs[p])
        /\ \A q \in Processes \ {p} : procs[q].pc = "idle"
    BY <2>1, Lone DEF CallsOK
  <2>3. ASSUME NEW x, Vouched(x, passed, receipts)
        PROVE  Vouched(x, passed', receipts')
    <3>1. Vouches(receipts[procs[p].txn], x.version) =>
            Vouches(receipts'[procs[p].txn], x.version)
      <4>1. CASE to \in {"activating", "pending"} /\ receipts'[procs[p].txn].state \in Vouching
        BY <4>1 DEF Vouches
      <4>2. CASE to \in Early
        <5>1. from \in Early
          BY <4>2 DEF Early
        <5>2. receipts[procs[p].txn].state \notin Vouching
          BY <1>2, <2>2, <5>1 DEF Calm
        <5> QED
          BY <5>2 DEF Vouches
      <4> QED
        BY <4>1, <4>2
    <3> QED
      BY <2>1, <2>3, <3>1 DEF Vouched
  <2>4. Ordered'
    BY <2>1, <2>2, <2>3 DEF Ordered
  <2>5. Calm(procs[p])'
    <3>1. r.pc \in Early \cup {"activating"} => r.previous = active'
      BY <1>2, <2>2 DEF Calm, Early
    <3>2. r.pc \in Opened \ {"checking"} =>
            r.previous = None \/ r.previous.version < r.manifest.version
      BY <1>2, <2>2 DEF Calm, Early, Opened
    <3>3. r.pc \in {"pointed", "pending", "promoted"} => active' = PointerTo(r.manifest)
      BY <1>2, <2>2 DEF Calm
    <3>4. r.pc \in {"pointed", "pending"} =>
            /\ r.previous # None => Vouched(r.previous, passed', receipts')
            /\ ~setBack' /\ lkg' # None => r.previous # None /\ r.previous.version >= lkg'.version
      BY <1>2, <2>1, <2>2, <2>3 DEF Calm
    <3>5. r.pc # "restored" /\ r.pc # "promoted"
      BY <1>2
    <3>6. r.pc \in Early => receipts'[r.txn].state \notin Vouching
      BY <1>2, <2>2 DEF Calm, Early
    <3>7. r.pc \in {"activating", "pointed", "pending"} => receipts'[r.txn].state \in Vouching
      BY <1>2 DEF Early
    <3> QED
      BY <1>3, <3>1, <3>2, <3>3, <3>4, <3>5, <3>6, <3>7 DEF Calm
  <2> QED
    BY <2>2, <2>4, <2>5
<1> QED
  BY <1>2, <1>4, SerialStep

LEMMA OnwardKeepsCalls ==
    ASSUME CallsOK, NEW p \in Processes,
           \/ Download(p) \/ VerifyPackage(p) \/ Extract(p) \/ Install(p)
           \/ Ready(p) \/ AwaitHealth(p)
    PROVE  SerialOK' /\ ReceiptsOK'
<1>1. UNCHANGED <<active, lkg, migration, passed, overlapped, setBack>>
  BY DEF Download, VerifyPackage, Extract, Install, Ready, AwaitHealth, history
<1>2. procs[p].pc \in Opened /\ DiskOK
  BY DEF Download, VerifyPackage, Extract, Install, Ready, AwaitHealth, Goes, Opened, Early,
         CallsOK
<1>3. procs[p].txn \in Txns /\ receipts[procs[p].txn] # None
  BY <1>2 DEF DiskOK, ProcOK
<1>4. ASSUME NEW s \in Unfinished, Record(p, s)
      PROVE  /\ receipts'[procs[p].txn] # None
             /\ receipts'[procs[p].txn].state = s
             /\ receipts'[procs[p].txn].target = receipts[procs[p].txn].target
             /\ \A t \in Txns : t # procs[p].txn => receipts'[t] = receipts[t]
             /\ ReceiptsOK'
  <2>1. /\ receipts'[procs[p].txn] # None
        /\ receipts'[procs[p].txn].state = s
        /\ receipts'[procs[p].txn].target = receipts[procs[p].txn].target
        /\ \A t \in Txns : t # procs[p].txn => receipts'[t] = receipts[t]
    BY <1>2, <1>3, <1>4, RecordMeans
  <2>2. s # "ACTIVE_CONFIRMED"
    BY DEF Unfinished
  <2>3. \A t \in Txns : receipts'[t] # None /\ receipts'[t].state = "ACTIVE_CONFIRMED" =>
            receipts'[t] = receipts[t]
    BY <2>1, <2>2
  <2>4. ReceiptsOK'
    BY <1>1, <2>3, ReceiptsStay
  <2> QED
    BY <2>1, <2>4
<1> USE DEF Unfinished, Vouching, Opened, Early, history
<1>5. CASE Download(p)
  <2>1. /\ Goes(p, "checking", "downloading") /\ Record(p, "DOWNLOADING")
        /\ ~Downgrade(p) /\ ~SameVersion(p)
    BY <1>5 DEF Download
  <2>2. \/ procs[p].previous = None
        \/ procs[p].previous.version < procs[p].manifest.version
    <3>1. procs[p].manifest \in Manifests /\ procs[p].previous \in Pointers \cup {None}
      BY <1>2, <2>1, ProcTyped DEF DiskOK, ProcOK, ProcRecords
    <3>2. procs[p].previous # None => procs[p].previous.version \in Nat
      BY <3>1, ConstantsTyped DEF Pointers
    <3>3. procs[p].manifest.version \in Nat
      BY <3>1, ConstantsTyped
    <3> QED
      BY <2>1, <3>2, <3>3 DEF Downgrade, SameVersion
  <2> QED
    BY <1>1, <1>4, <2>1, <2>2, OnwardStaysCalm
<1>6. CASE VerifyPackage(p)
  BY <1>1, <1>4, <1>6, OnwardStaysCalm DEF VerifyPackage
<1>7. CASE Extract(p)
  BY <1>1, <1>4, <1>7, OnwardStaysCalm DEF Extract
<1>8. CASE Install(p)
  <2>1. Goes(p, "staged", "installed") /\ UNCHANGED receipts
    BY <1>8 DEF Install
  <2>2. SerialOK'
    BY <1>1, <1>3, <2>1, OnwardStaysCalm
  <2> QED
    BY <1>1, <2>1, <2>2, ReceiptsStay
<1>9. CASE Ready(p)
  BY <1>1, <1>4, <1>9, OnwardStaysCalm DEF Ready
<1>10. CASE AwaitHealth(p)
  BY <1>1, <1>4, <1>10, OnwardStaysCalm DEF AwaitHealth
<1> QED
  BY <1>5, <1>6, <1>7, <1>8, <1>9, <1>10

\* What the three steps that set a pointer have in common.
LEMMA PointingStaysCalm ==
    ASSUME CallsOK, NEW p \in Processes, NEW from \in Opened, NEW to \in Stages,
           Goes(p, from, to), UNCHANGED <<receipts, migration, overlapped, setBack>>,
           ASSUME NEW r \in ProcRecords, ~overlapped, migration = "idle",
                  r.pc = to, procs[p].pc = from, procs[p] \in ProcRecords,
                  procs[p].manifest \in Manifests,
                  r.manifest = procs[p].manifest, r.txn = procs[p].txn,
                  r.previous = procs[p].previous, procs'[p] = r,
                  Ordered, Calm(procs[p])
           PROVE  Ordered' /\ Calm(procs[p])'
    PROVE  SerialOK'
<1>1. PICK r \in ProcRecords :
        /\ procs' = [procs EXCEPT ![p] = r]
        /\ r.pc = to /\ procs[p].pc = from
        /\ r.manifest = procs[p].manifest
        /\ r.txn = procs[p].txn
        /\ r.previous = procs[p].previous
  BY GoesMeans DEF CallsOK, DiskOK
<1>2. procs'[p] = r /\ procs[p] \in ProcRecords /\ procs[p].pc # "idle"
  BY <1>1, ProcTyped DEF CallsOK, DiskOK, Opened, Early
<1>3. procs[p].manifest \in Manifests
  BY <1>2 DEF CallsOK, DiskOK, ProcOK
<1>4. ASSUME ~overlapped'
      PROVE  /\ migration = "idle" /\ Ordered' /\ Calm(procs[p])'
             /\ \A q \in Processes \ {p} : procs[q].pc = "idle"
  <2>1. /\ migration = "idle" /\ Ordered /\ Calm(procs[p])
        /\ \A q \in Processes \ {p} : procs[q].pc = "idle"
    BY <1>2, <1>4, Lone DEF CallsOK
  <2>2. Ordered' /\ Calm(procs[p])'
    BY <1>1, <1>2, <1>3, <1>4, <2>1
  <2> QED
    BY <2>1, <2>2
<1> QED
  BY <1>1, <1>4, SerialStep

LEMMA ActivateKeepsCalls ==
    ASSUME CallsOK, NEW p \in Processes, Activate(p)
    PROVE  SerialOK' /\ ReceiptsOK'
<1>1. /\ Goes(p, "activating", "pointed") /\ active' = PointerTo(procs[p].manifest)
      /\ UNCHANGED <<lkg, receipts, migration, passed, overlapped, setBack>>
  BY DEF Activate, history
<1>2. ASSUME NEW r \in ProcRecords, ~overlapped, migration = "idle",
             r.pc = "pointed", procs[p].pc = "activating", procs[p] \in ProcRecords,
             procs[p].manifest \in Manifests,
             r.manifest = procs[p].manifest, r.txn = procs[p].txn,
             r.previous = procs[p].previous, procs'[p] = r,
             Ordered, Calm(procs[p])
      PROVE  Ordered' /\ Calm(procs[p])'
  <2>1. /\ r.previous = active
        /\ r.previous = None \/ r.previous.version < r.manifest.version
        /\ receipts[r.txn].state \in Vouching
    BY <1>2 DEF Calm, Opened, Early
  <2>2. /\ active' = PointerTo(r.manifest) /\ active'.version = r.manifest.version
    BY <1>1, <1>2 DEF PointerTo
  <2>3. r.txn \in Txns /\ receipts[r.txn] # None /\ receipts[r.txn].target = r.manifest.version
    BY <1>2 DEF CallsOK, DiskOK, ProcOK, Opened
  <2>4. Vouched(active', passed', receipts')
    BY <1>1, <2>1, <2>2, <2>3 DEF Vouched, Vouches
  <2>5. ~setBack /\ lkg # None =>
          active # None /\ active.version >= lkg.version /\ active'.version >= lkg.version
    <3>1. r.manifest.version \in Nat /\ active \in Pointers \cup {None}
          /\ lkg \in Pointers \cup {None} /\ (lkg # None => active # None)
      BY <1>2, ConstantsTyped DEF CallsOK, DiskOK, TypeOK
    <3>2. lkg # None => active.version \in Nat /\ lkg.version \in Nat
      BY <3>1, ConstantsTyped DEF Pointers
    <3> QED
      BY <1>2, <2>1, <2>2, <3>1, <3>2 DEF Ordered
  <2>6. active # None => Vouched(active, passed, receipts)
    BY <1>2 DEF Ordered
  <2>7. Calm(procs[p])'
    BY <1>1, <1>2, <2>1, <2>2, <2>5, <2>6 DEF Calm, Opened, Early
  <2> QED
    BY <1>1, <1>2, <2>4, <2>5, <2>7 DEF Ordered
<1>3. SerialOK'
  BY <1>1, <1>2, PointingStaysCalm DEF Opened, Stages
<1> QED
  BY <1>1, <1>3, ReceiptsStay

LEMMA HealthPassesKeepsCalls ==
    ASSUME CallsOK, NEW p \in Processes, HealthPasses(p)
    PROVE  SerialOK' /\ ReceiptsOK'
<1> DEFINE m == procs[p].manifest
<1>1. /\ Goes(p, "pending", "promoted") /\ lkg' = PointerTo(m)
      /\ passed' = passed \cup {m.version}
      /\ UNCHANGED <<active, receipts, migration, overlapped, setBack>>
  BY DEF HealthPasses
<1>2. procs[p].pc = "pending" /\ procs[p] \in ProcRecords
  BY <1>1, ProcTyped DEF Goes, CallsOK, DiskOK
<1>3. m \in Manifests /\ m.version \in Nat /\ lkg' \in Pointers /\ lkg' # None
      /\ lkg'.version = m.version
  BY <1>1, <1>2, ConstantsTyped DEF CallsOK, DiskOK, ProcOK, PointerTo
<1>4. ASSUME ~overlapped
      PROVE  /\ active = PointerTo(m)
             /\ procs[p].previous = None \/ procs[p].previous.version < m.version
             /\ ~setBack /\ lkg # None => lkg.version < m.version
  <2>1. Calm(procs[p]) /\ Ordered
    BY <1>2, <1>4, Lone DEF CallsOK
  <2>2. /\ active = PointerTo(m)
        /\ procs[p].previous = None \/ procs[p].previous.version < m.version
        /\ ~setBack /\ lkg # None =>
             procs[p].previous # None /\ procs[p].previous.version >= lkg.version
    BY <1>2, <2>1 DEF Calm, Opened, Early
  <2>3. lkg # None => lkg.version \in Nat
    BY ConstantsTyped DEF CallsOK, DiskOK, TypeOK, Pointers
  <2>4. procs[p].previous # None => procs[p].previous.version \in Nat
    BY <1>2, ConstantsTyped DEF ProcRecords, Pointers
  <2> QED
    BY <1>3, <2>2, <2>3, <2>4
<1>5. ReceiptsOK'
  <2> SUFFICES ASSUME NEW t \in Txns, receipts[t] # None,
                      receipts[t].state = "ACTIVE_CONFIRMED", ~overlapped, ~setBack
               PROVE  m.version >= receipts[t].target
    BY <1>1, <1>3 DEF ReceiptsOK
  <2>1. lkg # None /\ lkg.version >= receipts[t].target
    BY DEF CallsOK, ReceiptsOK
  <2>2. lkg.version \in Nat
    BY <2>1, ConstantsTyped DEF CallsOK, DiskOK, TypeOK, Pointers
  <2>3. receipts[t].target \in Nat
    BY ConstantsTyped DEF CallsOK, DiskOK, TypeOK, Receipts
  <2> QED
    BY <1>3, <1>4, <2>1, <2>2, <2>3
<1>6. ASSUME NEW r \in ProcRecords, ~overlapped, migration = "idle",
             r.pc = "promoted", procs[p].pc = "pending", procs[p] \in ProcRecords,
             procs[p].manifest \in Manifests,
             r.manifest = procs[p].manifest, r.txn = procs[p].txn,
             r.previous = procs[p].previous, procs'[p] = r,
             Ordered, Calm(procs[p])
      PROVE  Ordered' /\ Calm(procs[p])'
  <2>1. active' = PointerTo(m) /\ active'.version = m.version /\ m.version \in passed'
    BY <1>1, <1>4, <1>6 DEF PointerTo
  <2>2. Ordered'
    BY <1>1, <1>3, <1>6, <2>1 DEF Ordered, Vouched
  <2>3. Calm(procs[p])'
    BY <1>1, <1>4, <1>6, <2>1 DEF Calm, Opened, Early
  <2> QED
    BY <2>2, <2>3
<1>7. SerialOK'
  BY <1>1, <1>6, PointingStaysCalm DEF Opened, Stages
<1> QED
  BY <1>5, <1>7

LEMMA HealthFailsKeepsCalls ==
    ASSUME CallsOK, NEW p \in Processes, HealthFails(p)
    PROVE  SerialOK' /\ ReceiptsOK'
<1>1. /\ Goes(p, "pending", "restored") /\ Valid(procs[p].previous)
      /\ active' = procs[p].previous
      /\ UNCHANGED <<lkg, receipts, migration, passed, overlapped, setBack>>
  BY DEF HealthFails, history
<1>2. ASSUME NEW r \in ProcRecords, ~overlapped, migration = "idle",
             r.pc = "restored", procs[p].pc = "pending", procs[p] \in ProcRecords,
             procs[p].manifest \in Manifests,
             r.manifest = procs[p].manifest, r.txn = procs[p].txn,
             r.previous = procs[p].previous, procs'[p] = r,
             Ordered, Calm(procs[p])
      PROVE  Ordered' /\ Calm(procs[p])'
  <2>1. /\ r.previous = None \/ r.previous.version < r.manifest.version
        /\ r.previous # None => Vouched(r.previous, passed, receipts)
        /\ ~setBack /\ lkg # None => r.previous # None /\ r.previous.version >= lkg.version
    BY <1>2 DEF Calm, Opened, Early
  <2>2. r.previous # None /\ active' = r.previous
    BY <1>1, <1>2 DEF Valid
  <2> QED
    BY <1>1, <1>2, <2>1, <2>2 DEF Ordered, Calm, Opened, Early
<1>3. SerialOK'
  BY <1>1, <1>2, PointingStaysCalm DEF Opened, Stages, Early
<1> QED
  BY <1>1, <1>3, ReceiptsStay

LEMMA EndingStaysCalm ==
    ASSUME CallsOK, NEW p \in Processes, NEW from, Ends(p, from), from # "idle",
           UNCHANGED <<active, lkg, migration, passed, overlapped, setBack>>,
           ASSUME Calm(procs[p]), active # None, Vouched(active, passed, receipts)
           PROVE  Vouched(active, passed, receipts')
    PROVE  SerialOK'
<1>1. procs' = [procs EXCEPT ![p] = Idle] /\ procs[p].pc = from
  BY EndsMeans DEF CallsOK, DiskOK
<1>2. procs'[p] = Idle
  BY <1>1, ProcTyped DEF CallsOK, DiskOK
<1>3. Calm(procs[p])'
  BY <1>2, IdleBlank DEF Calm, Early, Opened
<1>4. ASSUME ~overlapped'
      PROVE  /\ migration = "idle" /\ Ordered'
             /\ \A q \in Processes \ {p} : procs[q].pc = "idle"
  <2>1. /\ migration = "idle" /\ Ordered /\ Calm(procs[p])
        /\ \A q \in Processes \ {p} : procs[q].pc = "idle"
    BY <1>1, <1>4, Lone DEF CallsOK
  <2>2. active # None => Vouched(active, passed, receipts')
    BY <2>1 DEF Ordered
  <2> QED
    BY <2>1, <2>2 DEF Ordered
<1> QED
  BY <1>1, <1>3, <1>4, IdleBlank, SerialStep

LEMMA EndsKeepCalls ==
    ASSUME CallsOK, NEW p \in Processes,
           \/ ReportCurrent(p) \/ Confirm(p) \/ RecordRollback(p) \/ BlockRequired(p)
           \/ Fail(p) \/ Crash(p)
    PROVE  SerialOK' /\ ReceiptsOK'
<1>1. UNCHANGED <<active, lkg, migration, passed, overlapped, setBack>>
  BY DEF ReportCurrent, Confirm, RecordRollback, BlockRequired, Fail, Crash, disk, history
<1>2. CASE ReportCurrent(p) \/ Crash(p)
  <2>1. UNCHANGED receipts /\ Ends(p, procs[p].pc) /\ procs[p].pc # "idle"
    BY <1>2 DEF ReportCurrent, Crash, disk, Ends
  <2>2. SerialOK'
    BY <1>1, <2>1, EndingStaysCalm
  <2> QED
    BY <1>1, <2>1, <2>2, ReceiptsStay
<1>3. ASSUME procs[p].pc \in Opened
      PROVE  /\ procs[p].txn \in Txns /\ receipts[procs[p].txn] # None
             /\ receipts[procs[p].txn].target = procs[p].manifest.version
  BY <1>3 DEF CallsOK, DiskOK, ProcOK
<1>4. CASE Confirm(p)
  <2>1. Ends(p, "promoted") /\ Record(p, "ACTIVE_CONFIRMED") /\ procs[p].pc = "promoted"
    BY <1>4 DEF Confirm, Ends
  <2>2. procs[p].pc \in Opened /\ "ACTIVE_CONFIRMED" \in Finished
    BY <2>1 DEF Opened, Finished
  <2>3. /\ \A t \in Txns : t # procs[p].txn => receipts'[t] = receipts[t]
        /\ receipts'[procs[p].txn].target = procs[p].manifest.version
    BY <1>3, <2>1, <2>2, RecordMeans DEF CallsOK
  <2>4. ASSUME Calm(procs[p])
        PROVE  /\ active = PointerTo(procs[p].manifest) /\ lkg = PointerTo(procs[p].manifest)
               /\ procs[p].manifest.version \in passed
    BY <2>1, <2>4 DEF Calm
  <2>5. ASSUME Calm(procs[p])
        PROVE  Vouched(active, passed, receipts')
    BY <2>4, <2>5 DEF Vouched, PointerTo
  <2>6. SerialOK'
    BY <1>1, <2>1, <2>5, EndingStaysCalm
  <2>7. ReceiptsOK'
    <3> SUFFICES ASSUME NEW t \in Txns, receipts'[t] # None,
                        receipts'[t].state = "ACTIVE_CONFIRMED"
                 PROVE  lkg # None /\ (~overlapped /\ ~setBack => lkg.version >= receipts'[t].target)
      BY <1>1 DEF ReceiptsOK
    <3>1. CASE t # procs[p].txn
      BY <2>3, <3>1 DEF CallsOK, ReceiptsOK
    <3>2. CASE t = procs[p].txn
      <4>1. lkg # None
        BY <2>1 DEF CallsOK, DiskOK, ProcOK
      <4>2. ASSUME ~overlapped
            PROVE  lkg.version = receipts'[t].target
        <5>1. Calm(procs[p])
          BY <2>1, <4>2, Lone DEF CallsOK
        <5> QED
          BY <2>3, <2>4, <3>2, <5>1 DEF PointerTo
      <4>3. lkg.version \in Nat
        BY <4>1, ConstantsTyped DEF CallsOK, DiskOK, TypeOK, Pointers
      <4> QED
        BY <4>1, <4>2, <4>3
    <3> QED
      BY <3>1, <3>2
  <2> QED
    BY <2>6, <2>7
<1>5. CASE RecordRollback(p)
  <2>1. Ends(p, "restored") /\ Record(p, "ROLLED_BACK") /\ procs[p].pc = "restored"
    BY <1>5 DEF RecordRollback, Ends
  <2>2. procs[p].pc \in Opened /\ "ROLLED_BACK" \in Finished
    BY <2>1 DEF Opened, Finished
  <2>3. /\ \A t \in Txns : t # procs[p].txn => receipts'[t] = receipts[t]
        /\ receipts'[procs[p].txn].state = "ROLLED_BACK"
    BY <2>1, <2>2, RecordMeans DEF CallsOK
  <2>4. ReceiptsOK'
    BY <1>1, <2>3, ReceiptsStay
  <2>5. ASSUME Calm(procs[p]), active # None, Vouched(active, passed, receipts)
        PROVE  Vouched(active, passed, receipts')
    <3>1. active.version < procs[p].manifest.version
      BY <2>1, <2>5 DEF Calm, Opened, Early
    <3>2. active.version \in Nat /\ procs[p].manifest \in Manifests
      BY <2>1, <2>5, ConstantsTyped DEF CallsOK, DiskOK, TypeOK, Pointers, ProcOK
    <3>3. receipts[procs[p].txn].target # active.version
      BY <1>3, <2>2, <3>1, <3>2, ConstantsTyped
    <3> QED
      BY <2>3, <2>5, <3>3 DEF Vouched, Vouches
  <2>6. SerialOK'
    BY <1>1, <2>1, <2>5, EndingStaysCalm
  <2> QED
    BY <2>4, <2>6
<1>6. CASE BlockRequired(p) \/ Fail(p)
  <2>1. PICK s \in {"BLOCKED_REQUIRED_UPDATE", "FAILED_RECOVERABLE"} :
          Ends(p, procs[p].pc) /\ Record(p, s) /\ procs[p].pc \in Opened
    BY <1>6, ProcTyped
       DEF BlockRequired, Fail, Ends, Opened, Early, CallsOK, DiskOK, ProcRecords, Stages
  <2>2. s \in Finished /\ s \in Vouching /\ s # "ACTIVE_CONFIRMED"
    BY DEF Finished, Vouching
  <2>3. /\ \A t \in Txns : t # procs[p].txn => receipts'[t] = receipts[t]
        /\ receipts'[procs[p].txn] # None
        /\ receipts'[procs[p].txn].state = s
        /\ receipts'[procs[p].txn].target = receipts[procs[p].txn].target
    BY <1>3, <2>1, <2>2, RecordMeans DEF CallsOK
  <2>4. ReceiptsOK'
    BY <1>1, <2>2, <2>3, ReceiptsStay
  <2>5. ASSUME Vouched(active, passed, receipts)
        PROVE  Vouched(active, passed, receipts')
    BY <2>2, <2>3, <2>5 DEF Vouched, Vouches
  <2>6. procs[p].pc # "idle"
    BY <2>1 DEF Opened, Early
  <2>7. SerialOK'
    BY <1>1, <2>1, <2>5, <2>6, EndingStaysCalm
  <2> QED
    BY <2>4, <2>7
<1> QED
  BY <1>2, <1>4, <1>5, <1>6

LEMMA MigrateKeepsCalls ==
    ASSUME CallsOK, Migrate
    PROVE  SerialOK' /\ ReceiptsOK'
<1>1. /\ TypeOK /\ LegacyVersion \in Versions /\ LegacyVersion \in Nat
      /\ UNCHANGED <<procs, receipts, passed>>
  BY ConstantsTyped, BoundAssumption
     DEF CallsOK, DiskOK, Migrate, MigrateKeep, MigrateActive, MigrateLkg, MigrateShortcut,
         MigrateCrash, disk, history
<1>2. lkg # None => lkg.version \in Nat
  BY <1>1, ConstantsTyped DEF TypeOK, Pointers
<1>3. LegacyPointer.version = LegacyVersion /\ LegacyPointer.digest = Legacy
  BY DEF LegacyPointer
<1>4. CASE MigrateKeep \/ MigrateShortcut \/ MigrateCrash
  <2>1. /\ UNCHANGED <<active, lkg, overlapped, setBack>>
        /\ migration' = migration \/ migration' = "idle"
    BY <1>4 DEF MigrateKeep, MigrateShortcut, MigrateCrash, disk, history
  <2>2. SerialOK'
    BY <1>1, <2>1 DEF CallsOK, SerialOK, Alone, Ordered, Calm
  <2> QED
    BY <1>1, <2>1, <2>2, ReceiptsStay
<1>5. CASE MigrateActive
  <2>1. /\ migration = "idle" /\ active' = LegacyPointer /\ migration' = "active"
        /\ overlapped' = (overlapped \/ Busy # {})
        /\ setBack' = (setBack \/ (lkg # None /\ lkg.version > LegacyVersion))
        /\ UNCHANGED lkg
    BY <1>5 DEF MigrateActive
  <2>2. ASSUME ~overlapped'
        PROVE  Alone' /\ Ordered' /\ \A p \in Processes : Calm(procs[p])'
    <3>1. \A p \in Processes : procs'[p].pc = "idle"
      BY <1>1, <2>1, <2>2 DEF Busy
    <3>2. \A p \in Processes : Calm(procs[p])'
      BY <3>1 DEF Calm, Early, Opened
    <3>3. ~setBack' /\ lkg # None => LegacyVersion >= lkg.version
      <4>1. ~setBack' /\ lkg # None => ~(lkg.version > LegacyVersion)
        BY <2>1, Zenon
      <4> QED
        BY <1>1, <1>2, <4>1
    <3>4. Vouched(active', passed', receipts')
      BY <1>3, <2>1 DEF Vouched
    <3>5. Ordered'
      BY <1>3, <2>1, <3>3, <3>4 DEF Ordered
    <3> QED
      BY <3>1, <3>2, <3>5 DEF Alone
  <2>3. SerialOK'
    BY <2>2 DEF SerialOK
  <2> QED
    BY <1>1, <2>1, <2>3, ReceiptsStay
<1>6. CASE MigrateLkg
  <2>1. /\ migration = "active" /\ lkg' = LegacyPointer /\ migration' = "both"
        /\ UNCHANGED <<active, overlapped, setBack>>
    BY <1>6 DEF MigrateLkg, history
  <2>2. ASSUME ~overlapped
        PROVE  /\ active.version = LegacyVersion /\ Alone
               /\ active # None => Vouched(active, passed, receipts)
               /\ ~setBack /\ lkg # None => LegacyVersion >= lkg.version
               /\ \A p \in Processes : procs[p].pc = "idle"
    BY <2>1, <2>2 DEF CallsOK, SerialOK, Ordered, Alone
  <2>3. ASSUME ~overlapped
        PROVE  Alone' /\ Ordered' /\ \A p \in Processes : Calm(procs[p])'
    <3>1. \A p \in Processes : procs'[p].pc = "idle"
      BY <1>1, <2>2, <2>3
    <3>2. \A p \in Processes : Calm(procs[p])'
      BY <3>1 DEF Calm, Early, Opened
    <3>3. Ordered'
      BY <1>1, <1>3, <2>1, <2>2, <2>3 DEF Ordered
    <3> QED
      BY <3>1, <3>2, <3>3 DEF Alone
  <2>4. SerialOK'
    BY <2>1, <2>3 DEF SerialOK
  <2>5. lkg' # None
    <3>1. versions[LegacyVersion] \in Builds
      BY <2>1 DEF CallsOK, DiskOK
    <3>2. LegacyPointer \in Pointers
      BY <1>1, <3>1 DEF LegacyPointer, Pointers
    <3> QED
      BY <2>1, <3>2, ConstantsTyped
  <2>6. ReceiptsOK'
    <3> SUFFICES ASSUME NEW t \in Txns, receipts[t] # None,
                        receipts[t].state = "ACTIVE_CONFIRMED", ~overlapped, ~setBack
                 PROVE  LegacyVersion >= receipts[t].target
      BY <1>1, <1>3, <2>1, <2>5 DEF ReceiptsOK
    <3>1. lkg # None /\ lkg.version >= receipts[t].target /\ LegacyVersion >= lkg.version
      BY <2>2 DEF CallsOK, ReceiptsOK
    <3>2. receipts[t].target \in Nat
      BY <1>1, ConstantsTyped DEF TypeOK, Receipts
    <3> QED
      BY <1>1, <1>2, <3>1, <3>2
  <2> QED
    BY <2>4, <2>6
<1> QED
  BY <1>4, <1>5, <1>6 DEF Migrate

LEMMA NextKeepsCalls ==
    ASSUME CallsOK, [Next]_vars
    PROVE  CallsOK'
<1>1. DiskOK'
  BY NextKeepsDisk DEF CallsOK
<1>2. CASE Migrate
  BY <1>1, <1>2, MigrateKeepsCalls DEF CallsOK
<1>3. ASSUME NEW p \in Processes, Update(p)
      PROVE  SerialOK' /\ ReceiptsOK'
  BY <1>3, BeginStaysCalm, OpenStaysCalm, OnwardKeepsCalls, ActivateKeepsCalls,
     HealthPassesKeepsCalls, HealthFailsKeepsCalls, EndsKeepCalls DEF Update
<1>4. CASE UNCHANGED vars
  <2>1. UNCHANGED <<active, lkg, receipts, procs, migration, passed, overlapped, setBack>>
    BY <1>4 DEF vars, disk, history
  <2> QED
    BY <1>1, <2>1 DEF CallsOK, SerialOK, ReceiptsOK, Alone, Ordered, Calm
<1> QED
  BY <1>1, <1>2, <1>3, <1>4 DEF Next, CallsOK

LEMMA InitCalls ==
    ASSUME Init
    PROVE  CallsOK
<1>1. /\ receipts = [t \in Txns |-> None]
      /\ procs = [p \in Processes |-> Idle] /\ migration = "idle"
  BY DEF Init
<1>2. \A p \in Processes : procs[p].pc = "idle" /\ Calm(procs[p])
  BY <1>1, IdleBlank DEF Calm, Early, Opened
<1>3. ReceiptsOK
  BY <1>1 DEF ReceiptsOK
<1>4. Ordered
  <2>1. CASE Fresh
    BY <1>1, <2>1 DEF Fresh, Ordered
  <2>2. ASSUME NEW m \in Manifests, Confirmed(m)
        PROVE  Ordered
    <3>1. m.version \in Nat
      BY ConstantsTyped
    <3>2. active = lkg /\ active.version = m.version /\ passed = {m.version}
      BY <2>2 DEF Confirmed, PointerTo
    <3> QED
      BY <1>1, <3>1, <3>2 DEF Ordered, Vouched
  <2> QED
    BY <2>1, <2>2 DEF Init
<1> QED
  BY <1>1, <1>2, <1>3, <1>4, InitDisk DEF CallsOK, SerialOK, Alone

\* As long as no calls have overlapped, one is at work and its step says how the
\* pointers stand; what a receipt calls confirmed is still covered.
THEOREM CallsInvariance == Spec => []CallsOK
<1>1. Init => CallsOK
  BY InitCalls
<1>2. CallsOK /\ [Next]_vars => CallsOK'
  BY NextKeepsCalls
<1> QED
  BY <1>1, <1>2, PTL DEF Spec

(* A launcher that an update has confirmed stays launchable: _promote's      *)
(* last known good pointer is complete and, unless calls overlapped or a    *)
(* migration found a newer launcher, at least as new as every confirmed one. *)
THEOREM ConfirmedLaunchable == Spec => []ConfirmedStaysLaunchable
<1>1. CallsOK => ConfirmedStaysLaunchable
  BY DEF CallsOK, DiskOK, PointersSound, ReceiptsOK, ConfirmedStaysLaunchable, Valid
<1> QED
  BY <1>1, CallsInvariance, PTL

(* What offline_launch starts offline and calls confirmed-good has passed    *)
(* its health check, came with the shortcut, or is told of by a receipt,    *)
(* while calls do not overlap.                                              *)
THEOREM FallbackVouched == Spec => []FallbackConfirmed
<1>1. ASSUME CallsOK
      PROVE  FallbackConfirmed
  <2> SUFFICES ASSUME OfflineLaunch = "OFFLINE_FALLBACK", ~overlapped
               PROVE  Vouched(OfflinePointer, passed, receipts)
    BY DEF FallbackConfirmed, Vouched, Vouches, Vouching
  <2>1. OfflinePointer # None
    BY DEF OfflineLaunch
  <2>2. active # None /\ OfflinePointer = active
    BY <1>1, <2>1
       DEF CallsOK, DiskOK, PointersSound, OfflinePointer, ValidPointer, Valid
  <2> QED
    BY <1>1, <2>2 DEF CallsOK, SerialOK, Ordered
<1> QED
  BY <1>1, CallsInvariance, PTL

(* "launcher downgrade is blocked": while calls do not overlap, update()     *)
(* makes the active launcher older only by restoring the one it found.      *)
THEOREM NeverOlder == Spec => ActiveNeverOlder
<1> DEFINE Step ==
        ~overlapped' /\ active # None /\ active' # active =>
            \/ active'.version >= active.version
            \/ active'.digest = Legacy
            \/ \E p \in Processes : procs[p].pc = "pending" /\ active' = procs[p].previous
<1>1. ASSUME CallsOK, [Next]_vars
      PROVE  [Step]_vars
  <2>1. CASE UNCHANGED active
    BY <2>1
  <2>2. CASE MigrateActive
    BY <2>2 DEF MigrateActive, LegacyPointer
  <2>3. ASSUME NEW p \in Processes, HealthFails(p)
        PROVE  Step
    BY <2>3 DEF HealthFails, Goes
  <2>4. ASSUME NEW p \in Processes, Activate(p), ~overlapped', active # None
        PROVE  active'.version >= active.version
    <3>1. ~overlapped /\ procs[p].pc = "activating" /\ active'.version = procs[p].manifest.version
      BY <2>4 DEF Activate, Goes, history, PointerTo
    <3>2. Calm(procs[p])
      BY <1>1, <3>1, Lone DEF CallsOK
    <3>3. active.version < procs[p].manifest.version
      BY <2>4, <3>1, <3>2 DEF Calm, Opened, Early
    <3>4. procs[p].manifest \in Manifests
      BY <1>1, <3>1 DEF CallsOK, DiskOK, ProcOK
    <3>5. active.version \in Nat /\ procs[p].manifest.version \in Nat
      BY <1>1, <2>4, <3>4, ConstantsTyped DEF CallsOK, DiskOK, TypeOK, Pointers
    <3> QED
      BY <3>1, <3>3, <3>5
  <2>5. \/ UNCHANGED active \/ MigrateActive
        \/ \E p \in Processes : Activate(p) \/ HealthFails(p)
    BY <1>1
       DEF Next, Update, Migrate, vars, disk, Begin, Open, ReportCurrent, Download,
           VerifyPackage, Extract, Install, Ready, AwaitHealth, HealthPasses, Confirm,
           RecordRollback, BlockRequired, Fail, Crash, MigrateKeep, MigrateLkg,
           MigrateShortcut, MigrateCrash
  <2> QED
    BY <2>1, <2>2, <2>3, <2>4, <2>5
<1>2. CallsOK /\ [Next]_vars => [Step]_vars
  BY <1>1
<1> HIDE DEF Step
<1>3. Spec => [][Step]_vars
  BY <1>2, CallsInvariance, PTL DEF Spec
<1> QED
  BY <1>3 DEF Step, ActiveNeverOlder
=============================================================================
