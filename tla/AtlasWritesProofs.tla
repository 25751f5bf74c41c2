------------------------- MODULE AtlasWritesProofs -------------------------
(***************************************************************************)
(* Safety of AtlasWrites for every set of assets, requests and keys; then  *)
(* what CurrentLocation shows of the rows such requests leave.             *)
(*                                                                         *)
(* The inductive invariant says what a request in flight may rely on: it   *)
(* holds the lock of the row it names and of its target, the checks it     *)
(* made under those locks still hold, every active installation that would *)
(* collide with the one it is about to commit is locked by it, and no      *)
(* committed idempotency record carries its key.                           *)
(***************************************************************************)
EXTENDS AtlasWrites, CurrentLocation, TLAPS

Moving == {"move_to_machine", "move_to_storage"}
Working == {"target", "relocate", "insert", "ready"}  \* the row is locked
Targeted == {"relocate", "insert", "ready"}           \* so is the target

\* A received request has the shape its kind asks for.
ShapeOK(r) ==
    phase[r] # "idle" =>
       /\ req[r] \in RequestRecords
       /\ req[r].kind \in Relocating => req[r].row \in Eoats
       /\ req[r].kind = "move_to_machine" => req[r].target \in Machines
       /\ req[r].kind = "move_to_storage" => req[r].target \in Locations
       /\ req[r].kind = "close_installation" =>
             req[r].row \in Requests /\ inst[req[r].row] # "absent"
       /\ req[r].kind \in AssetEdits => req[r].row \in Assets

\* Only some kinds of request reach a phase.
PhaseOK(r) ==
    /\ phase[r] = "received" => req[r].kind \in Keyed
    /\ phase[r] = "target" => req[r].kind \in Moving
    /\ phase[r] = "relocate" => req[r].kind \in Relocating
    /\ phase[r] = "insert" => req[r].kind = "move_to_machine"

\* Rows and idempotency records come from requests that succeeded.
RowsOK(r) ==
    /\ inst[r] # "absent" => phase[r] = "done" /\ req[r].kind = "move_to_machine"
    /\ stor[r] # "absent" => phase[r] = "done" /\ req[r].kind = "move_to_storage"
    /\ outcome[r] \in {"ok", "replay"} => phase[r] = "done"
    /\ r \in idem <=> outcome[r] = "ok" /\ req[r].kind \in Keyed

\* A request past the first lock holds its row, and then its target.
LocksHeld(r) ==
    /\ phase[r] \in Working => lock[req[r].row] = r
    /\ phase[r] \in Targeted /\ req[r].kind \in Moving => lock[req[r].target] = r

\* The installations a request locks are the one it names or its EOAT's.
LocksOwned(r) ==
    \A i \in Requests : lock[i] = r =>
       /\ phase[r] \in Working
       /\ inst[i] # "absent"
       /\ i = req[r].row \/ (req[r].kind \in Relocating /\ req[i].row = req[r].row)

\* What was checked under the locks still holds.
ChecksHold(r) ==
    phase[r] \in Working =>
       /\ RowVersion(req[r].row) = req[r].expect
       /\ req[r].kind = "move_to_machine" =>
             active[req[r].row] /\ (phase[r] \in Targeted => active[req[r].target])
       /\ req[r].kind = "archive" => req[r].row \notin snap[r]

\* Nothing collides with what the request is about to commit.
LocationsClosed(r) ==
    /\ phase[r] \in {"insert", "ready"} /\ req[r].kind \in Relocating =>
          \A i \in ActiveInstallations(req[r].row) : lock[i] = r
    /\ phase[r] = "ready" /\ req[r].kind = "move_to_machine" =>
          \A i \in InstalledOn(req[r].target) : lock[i] = r

\* A client expects a version that exists; an executed write made a newer one.
VersionsOK(r) ==
    /\ phase[r] # "idle" => req[r].expect <= RowVersion(req[r].row)
    /\ outcome[r] = "ok" /\ req[r].row \in Assets => req[r].expect < version[req[r].row]

\* The snapshot of an archiving request is right for as long as the EOAT's
\* version is the one it expects.
SnapshotOK(r) ==
    (/\ InFlight(r) /\ req[r].kind = "archive" /\ req[r].row \in Eoats
     /\ version[req[r].row] = req[r].expect /\ req[r].row \notin snap[r])
    => ActiveInstallations(req[r].row) = {}

\* A request that holds its key's gap is the first to execute under the key.
KeyOK(r) == HoldsKeyGap(r) => SameScope(r) = {}

RequestsOK ==
    \A r \in Requests :
       /\ ShapeOK(r) /\ PhaseOK(r) /\ RowsOK(r) /\ LocksHeld(r) /\ ChecksHold(r)
       /\ LocksOwned(r) /\ LocationsClosed(r) /\ VersionsOK(r) /\ SnapshotOK(r) /\ KeyOK(r)

IInv == TypeOK /\ RequestsOK /\ OnePlace /\ MachineHoldsOne /\ ArchivedNotInstalled
          /\ ExecutedOncePerKey /\ ReplayedWasExecuted /\ NoLostUpdate

-----------------------------------------------------------------------------
(* Types.                                                                  *)

LEMMA InitType == Init => TypeOK
  BY DEF Init, TypeOK, RowStates, Phases, Outcomes

LEMMA StepType ==
  ASSUME TypeOK, NEW r \in Requests, Receive(r) \/ Step(r) \/ Fail(r)
  PROVE  TypeOK'
<1>1. CASE Receive(r)
  BY <1>1 DEF Receive, TypeOK, RequestRecords, Targets, KnownVersions, RowVersion, database,
        Phases, Installed
<1>2. ASSUME NEW o \in Outcomes, Finish(r, o), UNCHANGED database PROVE TypeOK'
  BY <1>2 DEF Finish, Unlocked, TypeOK, Phases, database
<1>3. CASE AnswerKnownKey(r)
  BY <1>2, <1>3 DEF AnswerKnownKey, Outcomes
<1>4. CASE RefuseRow(r) \/ RefuseInstall(r) \/ RefuseOccupied(r) \/ Fail(r)
  BY <1>2, <1>4 DEF RefuseRow, RefuseInstall, RefuseOccupied, Fail, Rollback, Outcomes
<1>5. CASE ClaimKey(r)
  BY <1>5 DEF ClaimKey, TypeOK, Phases, database
<1>6. CASE LockRow(r)
  BY <1>6 DEF LockRow, PhaseAfterRow, TypeOK, Phases, database
<1>7. CASE LockTarget(r)
  BY <1>7 DEF LockTarget, TypeOK, Phases, database
<1>8. CASE CloseLocations(r)
  BY <1>8 DEF CloseLocations, TypeOK, Phases, database
<1>9. CASE FlushInstallation(r)
  BY <1>9 DEF FlushInstallation, TypeOK, Phases, database
<1>10. CASE Commit(r)
  <2>1. version' \in [Assets -> Nat] /\ active' \in [Assets -> BOOLEAN]
    <3>1. version' \in [Assets -> Nat]
      BY <1>10 DEF Commit, WriteAsset, TypeOK
    <3>2. \/ active' = active
          \/ \E b \in BOOLEAN : active' = [active EXCEPT ![req[r].row] = b]
      BY <1>10 DEF Commit, WriteAsset
    <3>3. active' \in [Assets -> BOOLEAN]
      BY <3>2 DEF TypeOK
    <3>4. QED
      BY <3>1, <3>3
  <2>2. inst' \in [Requests -> RowStates] /\ stor' \in [Requests -> RowStates]
    BY <1>10 DEF Commit, WriteInstallations, WriteStorage, TypeOK, RowStates
  <2>3. idem' \subseteq Requests
    BY <1>10 DEF Commit, RecordKey, TypeOK
  <2>4. QED
    BY <1>10, <2>1, <2>2, <2>3 DEF Commit, Finish, Unlocked, TypeOK, Phases, Outcomes
<1>11. QED
  BY <1>1, <1>3, <1>4, <1>5, <1>6, <1>7, <1>8, <1>9, <1>10 DEF Step

-----------------------------------------------------------------------------
(* The initial state.                                                      *)

LEMMA InitInv == Init => IInv
<1> SUFFICES ASSUME Init PROVE IInv
  OBVIOUS
<1>1. TypeOK
  BY InitType
<1>2. ASSUME NEW e PROVE ActiveInstallations(e) = {} /\ ActiveStorage(e) = {} /\ InstalledOn(e) = {}
  BY DEF Init, ActiveInstallations, ActiveStorage, InstalledOn
<1>3. RequestsOK
  BY NamesAssumption DEF Init, RequestsOK, ShapeOK, PhaseOK, RowsOK, LocksHeld, ChecksHold, LocationsClosed,
         VersionsOK, SnapshotOK, KeyOK, InFlight, HoldsKeyGap, Working, Targeted,
         LocksOwned, LockableRows
<1>4. OnePlace /\ MachineHoldsOne /\ ArchivedNotInstalled
  BY <1>2 DEF OnePlace, MachineHoldsOne, ArchivedNotInstalled
<1>5. ExecutedOncePerKey /\ ReplayedWasExecuted /\ NoLostUpdate
  BY DEF Init, ExecutedOncePerKey, ReplayedWasExecuted, NoLostUpdate
<1>6. QED
  BY <1>1, <1>3, <1>4, <1>5 DEF IInv

-----------------------------------------------------------------------------
(* Steps that leave the tables alone.                                      *)

LEMMA RowsAreRequests ==
  \A x : ActiveInstallations(x) \subseteq Requests /\ InstalledOn(x) \subseteq Requests
          /\ ActiveStorage(x) \subseteq Requests
  BY DEF ActiveInstallations, InstalledOn, ActiveStorage

\* The rows a received request names can be locked.
LEMMA NamesLockable ==
  ASSUME NEW r \in Requests, ShapeOK(r), phase[r] # "idle"
  PROVE  /\ req[r].row \in LockableRows
         /\ req[r].kind \in Moving => req[r].target \in LockableRows
         /\ req[r].target \in LockableRows \cup {None}
  BY DEF ShapeOK, RequestRecords, LockableRows, Moving, Targets, Assets

LEMMA ReadsUnchanged ==
  ASSUME UNCHANGED <<database, req>>
  PROVE  /\ \A x : (RowVersion(x) = RowVersion(x)') /\ (ActiveInstallations(x) = ActiveInstallations(x)')
         /\ \A x : (ActiveStorage(x) = ActiveStorage(x)') /\ (InstalledOn(x) = InstalledOn(x)')
         /\ \A x : SameScope(x) = SameScope(x)'
         /\ OnePlace <=> OnePlace'
         /\ MachineHoldsOne <=> MachineHoldsOne'
         /\ ArchivedNotInstalled <=> ArchivedNotInstalled'
  BY DEF database, RowVersion, ActiveInstallations, ActiveStorage, InstalledOn, SameScope, KeyScope,
         OnePlace, MachineHoldsOne, ArchivedNotInstalled

\* A request that ends without an effect.
LEMMA AbortKeeps ==
  ASSUME IInv, NEW r \in Requests, InFlight(r), NEW o \in {"replay", "conflict", "error"},
         Finish(r, o), UNCHANGED database, TypeOK',
         o = "replay" => \E s \in Requests : outcome[s] = "ok" /\ req[s] = req[r]
  PROVE  IInv'
<1> USE DEF Finish, Unlocked, IInv, TypeOK
<1>1. UNCHANGED <<database, req>>
  BY DEF Finish
<1>2. ASSUME NEW q \in Requests PROVE ShapeOK(q)' /\ PhaseOK(q)' /\ RowsOK(q)'
  BY <1>1 DEF RequestsOK, ShapeOK, PhaseOK, RowsOK, InFlight, database
<1>3. ASSUME NEW q \in Requests, q # r
      PROVE  phase'[q] = phase[q] /\ outcome'[q] = outcome[q] /\ \A x \in LockableRows : lock[x] = q => lock'[x] = q
  BY <1>3
<1>4. phase'[r] = "done" /\ outcome'[r] # "ok" /\ (outcome'[r] = "replay" => o = "replay")
  BY DEF Outcomes
<1>5. ASSUME NEW q \in Requests PROVE LocksHeld(q)'
  <2>1. CASE q = r
    BY <2>1, <1>4 DEF LocksHeld, Working, Targeted
  <2>2. CASE q # r
    BY <2>2, <1>1, <1>3, NamesLockable DEF RequestsOK, LocksHeld, Working, Targeted
  <2>3. QED
    BY <2>1, <2>2
<1>6. ASSUME NEW q \in Requests PROVE ChecksHold(q)' /\ LocksOwned(q)'
  <2>1. ChecksHold(q)'
    BY <1>1, <1>3, <1>4, ReadsUnchanged DEF RequestsOK, ChecksHold, Working, Targeted, database
  <2>2. \A i \in Requests : lock'[i] = q => q # r /\ lock[i] = q
    BY NamesAssumption DEF LockableRows
  <2>3. LocksOwned(q)'
    <3>1. req' = req /\ inst' = inst /\ LocksOwned(q) /\ (q # r => phase'[q] = phase[q])
      BY <1>1, <1>3 DEF RequestsOK, database
    <3>2. QED
      BY <2>2, <3>1 DEF LocksOwned
  <2>4. QED
    BY <2>1, <2>3
<1>7. ASSUME NEW q \in Requests PROVE LocationsClosed(q)'
  BY <1>1, <1>3, <1>4, ReadsUnchanged, RowsAreRequests DEF LockableRows, RequestsOK, LocationsClosed, Working, Targeted, database
<1>8. ASSUME NEW q \in Requests PROVE VersionsOK(q)'
  BY <1>1, <1>3, <1>4, ReadsUnchanged DEF RequestsOK, VersionsOK, InFlight, database
<1>9. ASSUME NEW q \in Requests PROVE SnapshotOK(q)' /\ KeyOK(q)'
  <2>1. SnapshotOK(q)'
    <3>1. q = r => ~InFlight(q)'
      BY <1>4 DEF InFlight
    <3>2. q # r => (InFlight(q)' <=> InFlight(q))
      BY <1>3 DEF InFlight
    <3>3. req' = req /\ version' = version /\ snap' = snap
      BY <1>1 DEF database
    <3>4. SnapshotOK(q) /\ ActiveInstallations(req[q].row)' = ActiveInstallations(req[q].row)
      BY <1>1, <3>3, ReadsUnchanged DEF RequestsOK
    <3>5. QED
      BY <3>1, <3>2, <3>3, <3>4 DEF SnapshotOK
  <2>2. KeyOK(q)'
    BY <1>1, <1>3, <1>4, ReadsUnchanged DEF RequestsOK, KeyOK, HoldsKeyGap, InFlight, database
  <2>3. QED
    BY <2>1, <2>2
<1>10. OnePlace' /\ MachineHoldsOne' /\ ArchivedNotInstalled'
  BY <1>1, ReadsUnchanged
<1>11. ExecutedOncePerKey' /\ NoLostUpdate'
  BY <1>1, <1>3, <1>4 DEF ExecutedOncePerKey, NoLostUpdate
<1>12. ASSUME NEW q \in Requests, outcome'[q] = "replay"
       PROVE  \E s \in Requests : outcome'[s] = "ok" /\ req'[s] = req'[q]
  <2>1. PICK s \in Requests : outcome[s] = "ok" /\ req[s] = req[q]
    BY <1>3, <1>4, <1>12 DEF ReplayedWasExecuted
  <2>2. s # r
    BY <2>1 DEF RequestsOK, RowsOK, InFlight
  <2>3. QED
    BY <2>1, <2>2, <1>1, <1>3
<1>13. QED
  BY <1>2, <1>5, <1>6, <1>7, <1>8, <1>9, <1>10, <1>11, <1>12 DEF RequestsOK, ReplayedWasExecuted

\* A request that goes one phase on and takes locks only from nobody: what
\* the others rely on is untouched, so only its own part needs a proof.
LEMMA AdvanceKeeps ==
  ASSUME IInv, TypeOK', NEW r \in Requests, InFlight(r),
         NEW p \in {"keyed", "target", "relocate", "insert", "ready"},
         UNCHANGED <<database, req>>, UNCHANGED <<snap, outcome>>,
         phase' = [phase EXCEPT ![r] = p],
         \A x \in LockableRows : lock[x] # None => lock'[x] = lock[x],
         \A x \in LockableRows : lock'[x] # lock[x] => lock'[x] = r,
         PhaseOK(r)', LocksHeld(r)', LocksOwned(r)', ChecksHold(r)', LocationsClosed(r)', KeyOK(r)'
  PROVE  IInv'
<1>1. ASSUME NEW q \in Requests, q # r PROVE phase'[q] = phase[q]
  BY <1>1 DEF IInv, TypeOK
<1>2. phase'[r] = p /\ InFlight(r)' /\ phase[r] # "done" /\ phase[r] # "idle" /\ p # "idle" /\ p # "done"
  BY DEF IInv, TypeOK, InFlight
<1>3. req' = req /\ version' = version /\ active' = active /\ inst' = inst /\ stor' = stor
        /\ idem' = idem /\ snap' = snap /\ outcome' = outcome
  BY DEF database
<1>4. ASSUME NEW q \in Requests PROVE ShapeOK(q)' /\ RowsOK(q)'
  BY <1>1, <1>2, <1>3 DEF IInv, RequestsOK, ShapeOK, RowsOK
<1>5. ASSUME NEW q \in Requests, q # r PROVE PhaseOK(q)'
  BY <1>1, <1>3, <1>5 DEF IInv, RequestsOK, PhaseOK
<1>6. ASSUME NEW q \in Requests, q # r PROVE LocksHeld(q)'
  <2>1. q # None
    BY NamesAssumption
  <2>2. QED
    BY <1>1, <1>3, <1>6, <2>1, NamesLockable DEF IInv, RequestsOK, LocksHeld, Working, Targeted
<1>7. ASSUME NEW q \in Requests, q # r PROVE ChecksHold(q)' /\ LocksOwned(q)'
  <2>1. ChecksHold(q)'
    BY <1>1, <1>3, <1>7, ReadsUnchanged DEF IInv, RequestsOK, ChecksHold
  <2>2. LocksOwned(q)'
    BY <1>1, <1>3, <1>7 DEF IInv, RequestsOK, LocksOwned, LockableRows
  <2>3. QED
    BY <2>1, <2>2
<1>8. ASSUME NEW q \in Requests, q # r PROVE LocationsClosed(q)'
  <2>1. q # None
    BY NamesAssumption
  <2>2. QED
    BY <1>1, <1>3, <1>8, <2>1, ReadsUnchanged, RowsAreRequests
    DEF IInv, RequestsOK, LocationsClosed, LockableRows
<1>9. ASSUME NEW q \in Requests PROVE VersionsOK(q)'
  BY <1>1, <1>2, <1>3, ReadsUnchanged DEF IInv, RequestsOK, VersionsOK
<1>10. ASSUME NEW q \in Requests PROVE SnapshotOK(q)'
  <2>1. InFlight(q)' <=> InFlight(q)
    BY <1>1, <1>2 DEF InFlight
  <2>2. SnapshotOK(q) /\ ActiveInstallations(req[q].row)' = ActiveInstallations(req[q].row)
    BY <1>3, ReadsUnchanged DEF IInv, RequestsOK
  <2>3. QED
    BY <1>3, <2>1, <2>2 DEF SnapshotOK
<1>11. ASSUME NEW q \in Requests, q # r PROVE KeyOK(q)'
  BY <1>1, <1>3, <1>11, ReadsUnchanged DEF IInv, RequestsOK, KeyOK, HoldsKeyGap, InFlight
<1>12. OnePlace' /\ MachineHoldsOne' /\ ArchivedNotInstalled'
  BY ReadsUnchanged DEF IInv
<1>13. ExecutedOncePerKey' /\ ReplayedWasExecuted' /\ NoLostUpdate'
  BY <1>3 DEF IInv, ExecutedOncePerKey, ReplayedWasExecuted, NoLostUpdate
<1>14. QED
  BY <1>4, <1>5, <1>6, <1>7, <1>8, <1>9, <1>10, <1>11, <1>12, <1>13 DEF IInv, RequestsOK

LEMMA ClaimKeyKeeps ==
  ASSUME IInv, TypeOK', NEW r \in Requests, ClaimKey(r)
  PROVE  IInv'
<1>1. phase'[r] = "keyed" /\ InFlight(r) /\ UNCHANGED <<database, req>> /\ lock' = lock
  BY DEF ClaimKey, IInv, TypeOK, InFlight
<1>2. PhaseOK(r)' /\ LocksHeld(r)' /\ LocksOwned(r)' /\ ChecksHold(r)' /\ LocationsClosed(r)'
  <2>1. \A i \in Requests : lock[i] # r
    BY DEF ClaimKey, IInv, RequestsOK, LocksOwned, Working
  <2>2. QED
    BY <1>1, <2>1 DEF LocksOwned, PhaseOK, LocksHeld, ChecksHold, LocationsClosed, Working, Targeted
<1>3. KeyOK(r)'
  BY <1>1, ReadsUnchanged DEF ClaimKey, KeyOK
<1>4. QED
  BY <1>1, <1>2, <1>3, AdvanceKeeps DEF ClaimKey

LEMMA LockRowKeeps ==
  ASSUME IInv, TypeOK', NEW r \in Requests, LockRow(r)
  PROVE  IInv'
<1> DEFINE p == PhaseAfterRow(req[r].kind)
<1>1. InFlight(r) /\ UNCHANGED <<database, req>> /\ phase[r] = "keyed" /\ ShapeOK(r) /\ KeyOK(r)
  BY DEF LockRow, IInv, RequestsOK, InFlight
<1>2. p \in {"target", "relocate", "ready"} /\ phase'[r] = p
  BY DEF LockRow, IInv, TypeOK, PhaseAfterRow
<1>3. req[r].row \in LockableRows
  BY <1>1, NamesLockable
<1>4. PhaseOK(r)'
  BY <1>1, <1>2 DEF PhaseOK, PhaseAfterRow, Moving, Relocating
<1>5. LocksHeld(r)' /\ LocationsClosed(r)'
  BY <1>1, <1>2, <1>3 DEF LockRow, LocksHeld, LocationsClosed, IInv, TypeOK, PhaseAfterRow,
     Moving, Relocating, Working, Targeted
<1>6. ChecksHold(r)'
  <2>1. RowVersion(req[r].row)' = RowVersion(req[r].row) /\ active' = active /\ snap' = snap /\ req' = req
    BY <1>1, ReadsUnchanged DEF LockRow, database
  <2>2. RowAccepts(r)
    BY DEF LockRow
  <2>3. req[r].kind = "move_to_machine" => phase'[r] \notin Targeted
    BY <1>2 DEF PhaseAfterRow, Targeted
  <2>4. QED
    BY <2>1, <2>2, <2>3 DEF ChecksHold, RowAccepts
<1>7. KeyOK(r)'
  BY <1>1, <1>2, ReadsUnchanged DEF KeyOK, HoldsKeyGap, InFlight
<1>8. /\ \A x \in LockableRows : lock[x] # None => lock'[x] = lock[x]
      /\ \A x \in LockableRows : lock'[x] # lock[x] => lock'[x] = r /\ x = req[r].row
  BY DEF LockRow, IInv, TypeOK
<1>9. LocksOwned(r)'
  <2>1. \A i \in Requests : lock[i] # r
    BY <1>1 DEF IInv, RequestsOK, LocksOwned, Working
  <2>2. req[r].row \in Requests => inst[req[r].row] # "absent"
    BY <1>1, NamesAssumption, KindsAssumption
    DEF ShapeOK, RequestRecords, Relocating, Keyed, AssetEdits, Assets
  <2>3. QED
    BY <1>1, <1>2, <1>8, <2>1, <2>2 DEF LocksOwned, LockableRows, Working, database
<1>10. QED
  BY <1>1, <1>2, <1>4, <1>5, <1>6, <1>7, <1>8, <1>9, AdvanceKeeps DEF LockRow

LEMMA LockTargetKeeps ==
  ASSUME IInv, TypeOK', NEW r \in Requests, LockTarget(r)
  PROVE  IInv'
<1>1. /\ InFlight(r) /\ UNCHANGED <<database, req>> /\ phase[r] = "target" /\ phase'[r] = "relocate"
      /\ ShapeOK(r) /\ PhaseOK(r) /\ KeyOK(r) /\ LocksHeld(r) /\ LocksOwned(r) /\ ChecksHold(r)
  BY DEF LockTarget, IInv, RequestsOK, InFlight, TypeOK
<1>2. req[r].row \in LockableRows /\ req[r].target \in LockableRows /\ req[r].kind \in Moving
  BY <1>1, NamesLockable DEF PhaseOK
<1>3. /\ \A x \in LockableRows : lock[x] # None => lock'[x] = lock[x]
      /\ \A x \in LockableRows : lock'[x] # lock[x] => lock'[x] = r /\ x = req[r].target
  BY DEF LockTarget, IInv, TypeOK
<1>4. PhaseOK(r)' /\ LocationsClosed(r)'
  BY <1>1, <1>2 DEF PhaseOK, LocationsClosed, Moving, Relocating
<1>5. LocksHeld(r)'
  <2>1. lock[req[r].row] = r /\ r # None
    BY <1>1, NamesAssumption DEF LocksHeld, Working
  <2>2. QED
    BY <1>1, <1>2, <1>3, <2>1 DEF LockTarget, LocksHeld, IInv, TypeOK
<1>6. ChecksHold(r)'
  <2>1. RowVersion(req[r].row)' = RowVersion(req[r].row) /\ active' = active /\ snap' = snap /\ req' = req
    BY <1>1, ReadsUnchanged DEF LockTarget, database
  <2>2. req[r].kind = "move_to_machine" => active[req[r].target]
    BY <1>1 DEF LockTarget, ShapeOK
  <2>3. QED
    BY <1>1, <2>1, <2>2 DEF ChecksHold, Working
<1>7. KeyOK(r)'
  BY <1>1, ReadsUnchanged DEF KeyOK, HoldsKeyGap, InFlight
<1>8. LocksOwned(r)'
  <2>1. req[r].target \notin Requests
    BY <1>1, <1>2, NamesAssumption DEF ShapeOK, Moving, Assets
  <2>2. QED
    BY <1>1, <1>3, <2>1 DEF LocksOwned, LockableRows, Working, database
<1>9. QED
  BY <1>1, <1>3, <1>4, <1>5, <1>6, <1>7, <1>8, AdvanceKeeps DEF LockTarget

LEMMA CloseLocationsKeeps ==
  ASSUME IInv, TypeOK', NEW r \in Requests, CloseLocations(r)
  PROVE  IInv'
<1> DEFINE mine == ActiveInstallations(req[r].row)
<1>1. /\ InFlight(r) /\ UNCHANGED <<database, req>> /\ phase[r] = "relocate"
      /\ phase'[r] = IF req[r].kind = "move_to_machine" THEN "insert" ELSE "ready"
      /\ phase'[r] \in {"insert", "ready"}
      /\ ShapeOK(r) /\ PhaseOK(r) /\ KeyOK(r) /\ LocksHeld(r) /\ LocksOwned(r) /\ ChecksHold(r)
  BY DEF CloseLocations, IInv, RequestsOK, InFlight, TypeOK
<1>2. /\ \A x \in LockableRows : lock[x] # None => lock'[x] = lock[x]
      /\ \A x \in LockableRows : lock'[x] # lock[x] => lock'[x] = r /\ x \in mine
  BY DEF CloseLocations, IInv, TypeOK
<1>3. PhaseOK(r)'
  BY <1>1 DEF PhaseOK
<1>4. LocksHeld(r)'
  <2>1. r # None /\ req[r].row \in LockableRows
        /\ (req[r].kind \in Moving => req[r].target \in LockableRows)
    BY <1>1, NamesAssumption, NamesLockable
  <2>2. QED
    BY <1>1, <1>2, <2>1 DEF LocksHeld, Working, Targeted
<1>5. ChecksHold(r)'
  <2>1. RowVersion(req[r].row)' = RowVersion(req[r].row) /\ active' = active /\ snap' = snap /\ req' = req
    BY <1>1, ReadsUnchanged DEF CloseLocations, database
  <2>2. QED
    BY <1>1, <2>1 DEF ChecksHold, Working, Targeted
<1>6. LocationsClosed(r)'
  <2>1. \A i \in mine : lock'[i] = r
    BY RowsAreRequests DEF CloseLocations, LockableRows
  <2>2. mine = ActiveInstallations(req[r].row)'
    BY <1>1, ReadsUnchanged
  <2>3. phase'[r] = "ready" => req'[r].kind # "move_to_machine"
    BY <1>1
  <2>4. QED
    BY <2>1, <2>2, <2>3 DEF LocationsClosed
<1>7. KeyOK(r)'
  BY <1>1, ReadsUnchanged DEF KeyOK, HoldsKeyGap, InFlight
<1>8. LocksOwned(r)'
  <2>1. \A i \in mine : inst[i] = "active" /\ req[i].row = req[r].row
    BY DEF ActiveInstallations
  <2>2. QED
    BY <1>1, <1>2, <2>1 DEF LocksOwned, PhaseOK, LockableRows, Working, database
<1>9. QED
  BY <1>1, <1>2, <1>3, <1>4, <1>5, <1>6, <1>7, <1>8, AdvanceKeeps DEF CloseLocations

LEMMA FlushInstallationKeeps ==
  ASSUME IInv, TypeOK', NEW r \in Requests, FlushInstallation(r)
  PROVE  IInv'
<1>1. /\ InFlight(r) /\ UNCHANGED <<database, req>> /\ phase[r] = "insert" /\ phase'[r] = "ready"
      /\ lock' = lock /\ snap' = snap /\ req' = req
      /\ ShapeOK(r) /\ PhaseOK(r) /\ KeyOK(r) /\ LocksHeld(r) /\ LocksOwned(r)
      /\ ChecksHold(r) /\ LocationsClosed(r)
  BY DEF FlushInstallation, IInv, RequestsOK, InFlight, TypeOK
<1>2. PhaseOK(r)' /\ LocksHeld(r)' /\ LocksOwned(r)'
  BY <1>1 DEF PhaseOK, LocksHeld, LocksOwned, Working, Targeted, database
<1>3. ChecksHold(r)'
  BY <1>1, ReadsUnchanged DEF ChecksHold, Working, Targeted, database
<1>4. LocationsClosed(r)'
  <2>1. \A i \in InstalledOn(req[r].target) : lock[i] = r
    BY DEF FlushInstallation, Occupants
  <2>2. QED
    BY <1>1, <2>1, ReadsUnchanged DEF LocationsClosed
<1>5. KeyOK(r)'
  BY <1>1, ReadsUnchanged DEF KeyOK, HoldsKeyGap, InFlight
<1>6. QED
  BY <1>1, <1>2, <1>3, <1>4, <1>5, AdvanceKeeps DEF FlushInstallation

LEMMA ReceiveKeeps ==
  ASSUME IInv, TypeOK', NEW r \in Requests, Receive(r)
  PROVE  IInv'
<1>1. PICK q \in RequestRecords :
         /\ Fits(q) /\ q.expect \in KnownVersions(q.row) /\ q.kind \in Kinds
         /\ req' = [req EXCEPT ![r] = q]
         /\ phase' = [phase EXCEPT ![r] = IF q.kind \in Keyed THEN "received" ELSE "keyed"]
  <2>1. PICK kind \in Kinds, x \in Assets \cup Requests, t \in Targets \cup {None},
             k \in SharedKeys \cup {r} :
        \E v \in KnownVersions(x) :
          LET q == [kind |-> kind, row |-> x, target |-> t, expect |-> v, key |-> k]
          IN /\ Fits(q)
             /\ req' = [req EXCEPT ![r] = q]
             /\ phase' = [phase EXCEPT ![r] = IF kind \in Keyed THEN "received" ELSE "keyed"]
    BY DEF Receive
  <2>2. PICK v \in KnownVersions(x) :
          LET q == [kind |-> kind, row |-> x, target |-> t, expect |-> v, key |-> k]
          IN /\ Fits(q)
             /\ req' = [req EXCEPT ![r] = q]
             /\ phase' = [phase EXCEPT ![r] = IF kind \in Keyed THEN "received" ELSE "keyed"]
    BY <2>1
  <2>3. v \in Nat
    BY DEF KnownVersions, RowVersion, IInv, TypeOK
  <2>4. kind \in Kinds /\ [kind |-> kind, row |-> x, target |-> t, expect |-> v, key |-> k] \in RequestRecords
    BY <2>3 DEF RequestRecords
  <2>5. QED
    BY <2>2, <2>4
<1>2. /\ version' = version /\ active' = active /\ inst' = inst /\ stor' = stor /\ idem' = idem
      /\ lock' = lock /\ outcome' = outcome /\ snap'[r] = Installed
      /\ phase[r] = "idle" /\ phase'[r] \in {"received", "keyed"}
      /\ req'[r] = q /\ (phase'[r] = "received" <=> q.kind \in Keyed)
  BY <1>1 DEF Receive, database, IInv, TypeOK
<1>3. ASSUME NEW s \in Requests, s # r PROVE req'[s] = req[s] /\ phase'[s] = phase[s] /\ snap'[s] = snap[s]
  BY <1>1, <1>3 DEF Receive, IInv, TypeOK
<1>4. inst[r] = "absent" /\ stor[r] = "absent" /\ outcome[r] \notin {"ok", "replay"} /\ r \notin idem
  BY <1>2 DEF IInv, RequestsOK, RowsOK
<1>5. \A x : /\ ActiveInstallations(x)' = ActiveInstallations(x)
             /\ ActiveStorage(x)' = ActiveStorage(x)
             /\ InstalledOn(x)' = InstalledOn(x)
             /\ RowVersion(x)' = RowVersion(x)
  BY <1>2, <1>3, <1>4 DEF ActiveInstallations, ActiveStorage, InstalledOn, RowVersion
<1>6. ASSUME NEW s \in Requests, s # r PROVE SameScope(s)' = SameScope(s)
  BY <1>2, <1>3, <1>4, <1>6 DEF SameScope, KeyScope, IInv, TypeOK
<1>7. ASSUME NEW s \in Requests PROVE ShapeOK(s)'
  <2>1. CASE s = r
    <3>1. q \in RequestRecords /\ q.kind \in Keyed \cup AssetEdits
      BY <1>1, KindsAssumption
    <3>2. QED
      BY <1>1, <1>2, <2>1, <3>1 DEF ShapeOK, Fits, Relocating, Keyed, AssetEdits, Assets
  <2>2. CASE s # r
    BY <1>2, <1>3, <2>2 DEF ShapeOK, IInv, RequestsOK
  <2>3. QED
    BY <2>1, <2>2
<1>8. ASSUME NEW s \in Requests PROVE PhaseOK(s)' /\ RowsOK(s)'
  <2>1. CASE s = r
    BY <1>2, <1>4, <2>1 DEF PhaseOK, RowsOK
  <2>2. CASE s # r
    BY <1>2, <1>3, <2>2 DEF PhaseOK, RowsOK, IInv, RequestsOK
  <2>3. QED
    BY <2>1, <2>2
<1>9. ASSUME NEW s \in Requests
      PROVE  LocksHeld(s)' /\ LocksOwned(s)' /\ ChecksHold(s)' /\ LocationsClosed(s)'
  <2>1. CASE s = r
    <3>1. \A i \in Requests : lock[i] # r
      BY <1>2 DEF IInv, RequestsOK, LocksOwned, Working
    <3>2. QED
      BY <1>2, <2>1, <3>1 DEF LocksHeld, LocksOwned, ChecksHold, LocationsClosed, Working, Targeted
  <2>2. CASE s # r
    <3>1. LocksHeld(s)'
      BY <1>2, <1>3, <2>2 DEF LocksHeld, IInv, RequestsOK
    <3>2. ChecksHold(s)'
      BY <1>2, <1>3, <1>5, <2>2 DEF ChecksHold, IInv, RequestsOK
    <3>3. LocationsClosed(s)'
      BY <1>2, <1>3, <1>5, <2>2 DEF LocationsClosed, IInv, RequestsOK
    <3>4. LocksOwned(s)'
      BY <1>2, <1>3, <1>4, <2>2 DEF LocksOwned, IInv, RequestsOK
    <3>5. QED
      BY <3>1, <3>2, <3>3, <3>4
  <2>3. QED
    BY <2>1, <2>2
<1>10. ASSUME NEW s \in Requests PROVE VersionsOK(s)'
  <2>1. CASE s = r
    <3>1. q.expect <= RowVersion(q.row)
      BY <1>1 DEF KnownVersions, RequestRecords
    <3>2. QED
      BY <1>2, <1>4, <1>5, <2>1, <3>1 DEF VersionsOK
  <2>2. CASE s # r
    BY <1>2, <1>3, <1>5, <2>2 DEF VersionsOK, IInv, RequestsOK
  <2>3. QED
    BY <2>1, <2>2
<1>11. ASSUME NEW s \in Requests PROVE SnapshotOK(s)'
  <2>1. CASE s = r
    BY <1>2, <1>5, <2>1 DEF SnapshotOK, Installed
  <2>2. CASE s # r
    BY <1>2, <1>3, <1>5, <2>2 DEF SnapshotOK, InFlight, IInv, RequestsOK
  <2>3. QED
    BY <2>1, <2>2
<1>12. ASSUME NEW s \in Requests PROVE KeyOK(s)'
  <2>1. CASE s = r
    BY <1>2, <2>1 DEF KeyOK, HoldsKeyGap
  <2>2. CASE s # r
    BY <1>2, <1>3, <1>6, <2>2 DEF KeyOK, HoldsKeyGap, InFlight, IInv, RequestsOK
  <2>3. QED
    BY <2>1, <2>2
<1>13. OnePlace' /\ MachineHoldsOne' /\ ArchivedNotInstalled'
  BY <1>2, <1>5 DEF OnePlace, MachineHoldsOne, ArchivedNotInstalled, IInv
<1>14. ExecutedOncePerKey' /\ NoLostUpdate'
  BY <1>2, <1>3, <1>4 DEF ExecutedOncePerKey, NoLostUpdate, IInv
<1>15. ReplayedWasExecuted'
  BY <1>2, <1>3, <1>4 DEF ReplayedWasExecuted, IInv
<1>16. QED
  BY <1>7, <1>8, <1>9, <1>10, <1>11, <1>12, <1>13, <1>14, <1>15 DEF IInv, RequestsOK

-----------------------------------------------------------------------------
(* The commit.                                                             *)

\* What a commit does to the tables, as sets of active rows.
LEMMA CommitEffect ==
  ASSUME IInv, TypeOK', NEW r \in Requests, Commit(r)
  PROVE  /\ phase[r] = "ready" /\ phase'[r] = "done" /\ outcome'[r] = "ok"
         /\ req' = req /\ snap' = snap
         /\ \A s \in Requests \ {r} : phase'[s] = phase[s] /\ outcome'[s] = outcome[s]
         /\ \A s \in Requests \ {r} : \A x \in LockableRows : lock[x] = s => lock'[x] = s
         /\ \A x : ActiveInstallations(x)' =
                     {i \in ActiveInstallations(x) : lock[i] # r}
                       \cup {i \in {r} : req[r].kind = "move_to_machine" /\ x = req[r].row}
         /\ \A x : InstalledOn(x)' =
                     {i \in InstalledOn(x) : lock[i] # r}
                       \cup {i \in {r} : req[r].kind = "move_to_machine" /\ x = req[r].target}
         /\ \A x : ActiveStorage(x)' =
                     {i \in ActiveStorage(x) : ~(req[r].kind \in Relocating /\ x = req[r].row)}
                       \cup {i \in {r} : req[r].kind = "move_to_storage" /\ x = req[r].row}
<1>1. /\ phase[r] = "ready" /\ phase'[r] = "done" /\ outcome'[r] = "ok" /\ req' = req /\ snap' = snap
      /\ \A s \in Requests \ {r} : phase'[s] = phase[s] /\ outcome'[s] = outcome[s]
  BY DEF Commit, Finish, IInv, TypeOK
<1>2. \A s \in Requests \ {r} : \A x \in LockableRows : lock[x] = s => lock'[x] = s
  BY DEF Commit, Finish, Unlocked
<1>3. inst[r] = "absent" /\ stor[r] = "absent"
  BY <1>1 DEF IInv, RequestsOK, RowsOK
<1>4. \A i \in Requests : inst'[i] = "active" <=>
         \/ i = r /\ req[r].kind = "move_to_machine"
         \/ inst[i] = "active" /\ lock[i] # r
  BY <1>3 DEF Commit, WriteInstallations, Removed
<1>5. \A i \in Requests : stor'[i] = "active" <=>
         \/ i = r /\ req[r].kind = "move_to_storage"
         \/ stor[i] = "active" /\ ~(req[r].kind \in Relocating /\ req[i].row = req[r].row)
  BY <1>3 DEF Commit, WriteStorage, ActiveStorage
<1>6. ASSUME NEW x
      PROVE  ActiveInstallations(x)' =
               {i \in ActiveInstallations(x) : lock[i] # r}
                 \cup {i \in {r} : req[r].kind = "move_to_machine" /\ x = req[r].row}
  BY <1>1, <1>4 DEF ActiveInstallations
<1>7. ASSUME NEW x
      PROVE  InstalledOn(x)' =
               {i \in InstalledOn(x) : lock[i] # r}
                 \cup {i \in {r} : req[r].kind = "move_to_machine" /\ x = req[r].target}
  BY <1>1, <1>4 DEF InstalledOn
<1>8. ASSUME NEW x
      PROVE  ActiveStorage(x)' =
               {i \in ActiveStorage(x) : ~(req[r].kind \in Relocating /\ x = req[r].row)}
                 \cup {i \in {r} : req[r].kind = "move_to_storage" /\ x = req[r].row}
  BY <1>1, <1>5 DEF ActiveStorage
<1>9. QED
  BY <1>1, <1>2, <1>6, <1>7, <1>8

\* A commit changes the version and the activity of the row it locked only,
\* and makes a newer version of it.
LEMMA CommitVersions ==
  ASSUME IInv, TypeOK', NEW r \in Requests, Commit(r)
  PROVE  /\ \A a \in Assets : a # req[r].row => version'[a] = version[a] /\ active'[a] = active[a]
         /\ req[r].row \in Assets => version'[req[r].row] = version[req[r].row] + 1
         /\ req[r].kind \notin {"archive", "restore"} => active' = active
         /\ \A i \in Requests : lock[i] # r /\ i # r => inst'[i] = inst[i]
         /\ \A x \in Assets \cup Requests : RowVersion(x) <= RowVersion(x)'
         /\ \A x \in Assets \cup Requests : lock[x] # r /\ x # r => RowVersion(x)' = RowVersion(x)
<1>1. ShapeOK(r) /\ LocksHeld(r) /\ RowsOK(r) /\ phase[r] = "ready" /\ req[r].row \in Assets \cup Requests
  BY DEF IInv, RequestsOK, Commit, ShapeOK, RequestRecords
<1>2. \A a \in Assets : a # req[r].row => version'[a] = version[a]
  BY DEF Commit, WriteAsset, IInv, TypeOK
<1>3. req[r].row \in Assets => version'[req[r].row] = version[req[r].row] + 1
  BY DEF Commit, WriteAsset, IInv, TypeOK
<1>4. /\ req[r].kind \notin {"archive", "restore"} => active' = active
      /\ \/ active' = active
         \/ \E b \in BOOLEAN : active' = [active EXCEPT ![req[r].row] = b]
  BY DEF Commit, WriteAsset
<1>5. \A a \in Assets : a # req[r].row => active'[a] = active[a]
  BY <1>4 DEF IInv, TypeOK
<1>6. \A i \in Requests : lock[i] # r /\ i # r => inst'[i] = inst[i]
  BY DEF Commit, WriteInstallations, Removed
<1>7. \A i \in Requests : inst[i] = "removed" => inst'[i] = "removed"
  BY <1>1 DEF Commit, WriteInstallations, Removed, RowsOK
<1>8. \A a \in Assets : version[a] <= version'[a] /\ version[a] \in Nat
  BY <1>2, <1>3 DEF IInv, TypeOK
<1>9. \A x \in Assets \cup Requests : RowVersion(x) <= RowVersion(x)'
  BY <1>7, <1>8 DEF RowVersion
<1>10. \A x \in Assets \cup Requests : lock[x] # r /\ x # r => RowVersion(x)' = RowVersion(x)
  BY <1>1, <1>2, <1>6 DEF RowVersion, LocksHeld, Working
<1>11. QED
  BY <1>2, <1>3, <1>4, <1>5, <1>6, <1>9, <1>10

LEMMA CommitKeepsPlaces ==
  ASSUME IInv, TypeOK', NEW r \in Requests, Commit(r)
  PROVE  OnePlace' /\ MachineHoldsOne' /\ ArchivedNotInstalled'
<1>1. ShapeOK(r) /\ ChecksHold(r) /\ LocationsClosed(r) /\ SnapshotOK(r) /\ phase[r] = "ready"
  BY DEF IInv, RequestsOK, Commit
<1>2. req[r].kind \in Relocating => \A i \in ActiveInstallations(req[r].row) : lock[i] = r
  BY <1>1 DEF LocationsClosed
<1>3. req[r].kind = "move_to_machine" => \A i \in InstalledOn(req[r].target) : lock[i] = r
  BY <1>1 DEF LocationsClosed
<1>4. OnePlace'
  <2> SUFFICES ASSUME NEW e \in Eoats, NEW i \in Requests, NEW j \in Requests
               PROVE  /\ i \in ActiveInstallations(e)' => j \notin ActiveStorage(e)'
                      /\ i \in ActiveInstallations(e)' /\ j \in ActiveInstallations(e)' => i = j
                      /\ i \in ActiveStorage(e)' /\ j \in ActiveStorage(e)' => i = j
    BY DEF OnePlace
  <2>1. CASE e = req[r].row /\ req[r].kind \in Relocating
    BY <1>2, <2>1, CommitEffect DEF Relocating
  <2>2. CASE ~(e = req[r].row /\ req[r].kind \in Relocating)
    <3>1. \A k : /\ k \in ActiveInstallations(e)' => k \in ActiveInstallations(e)
                 /\ k \in ActiveStorage(e)' => k \in ActiveStorage(e)
      BY <2>2, CommitEffect DEF Relocating
    <3>2. QED
      BY <3>1 DEF IInv, OnePlace
  <2>3. QED
    BY <2>1, <2>2
<1>5. MachineHoldsOne'
  <2> SUFFICES ASSUME NEW m \in Machines, NEW i \in InstalledOn(m)', NEW j \in InstalledOn(m)'
               PROVE  i = j
    BY DEF MachineHoldsOne
  <2>1. CASE m = req[r].target /\ req[r].kind = "move_to_machine"
    BY <1>3, <2>1, CommitEffect
  <2>2. CASE ~(m = req[r].target /\ req[r].kind = "move_to_machine")
    BY <2>2, CommitEffect DEF IInv, MachineHoldsOne
  <2>3. QED
    BY <2>1, <2>2
<1>6. ArchivedNotInstalled'
  <2> SUFFICES ASSUME NEW e \in Eoats, ~active'[e] PROVE ActiveInstallations(e)' = {}
    BY DEF ArchivedNotInstalled
  <2>1. e \in Assets
    BY DEF Assets
  <2>2. CASE e # req[r].row
    BY <2>1, <2>2, CommitEffect, CommitVersions DEF IInv, ArchivedNotInstalled
  <2>3. CASE e = req[r].row /\ req[r].kind = "archive"
    <3>1. ActiveInstallations(e) = {}
      BY <1>1, <2>1, <2>3 DEF ChecksHold, SnapshotOK, RowVersion, InFlight, Working
    <3>2. QED
      BY <2>3, <3>1, CommitEffect
  <2>4. CASE e = req[r].row /\ req[r].kind = "restore"
    BY <2>1, <2>4 DEF Commit, WriteAsset, IInv, TypeOK
  <2>5. CASE e = req[r].row /\ req[r].kind \notin {"archive", "restore"}
    <3>1. ~active[e] /\ ActiveInstallations(e) = {}
      BY <2>5, CommitVersions DEF IInv, ArchivedNotInstalled
    <3>2. req[r].kind # "move_to_machine"
      BY <1>1, <2>5, <3>1 DEF ChecksHold, Working
    <3>3. QED
      BY <3>1, <3>2, CommitEffect
  <2>6. QED
    BY <2>2, <2>3, <2>4, <2>5
<1>7. QED
  BY <1>4, <1>5, <1>6

LEMMA CommitKeepsOwn ==
  ASSUME IInv, TypeOK', NEW r \in Requests, Commit(r)
  PROVE  ShapeOK(r)' /\ PhaseOK(r)' /\ RowsOK(r)' /\ LocksHeld(r)' /\ ChecksHold(r)'
         /\ LocksOwned(r)' /\ LocationsClosed(r)' /\ VersionsOK(r)' /\ SnapshotOK(r)' /\ KeyOK(r)'
<1>1. ShapeOK(r) /\ PhaseOK(r) /\ RowsOK(r) /\ ChecksHold(r) /\ phase[r] = "ready"
      /\ phase'[r] = "done" /\ outcome'[r] = "ok" /\ req' = req
  BY CommitEffect DEF IInv, RequestsOK
<1>2. ShapeOK(r)'
  <2>1. \A i \in Requests : inst[i] # "absent" => inst'[i] # "absent"
    BY DEF Commit, WriteInstallations
  <2>2. QED
    BY <1>1, <2>1 DEF ShapeOK
<1>3. RowsOK(r)'
  <2>1. inst[r] = "absent" /\ stor[r] = "absent" /\ r \notin idem
    BY <1>1 DEF RowsOK
  <2>2. inst'[r] # "absent" => req[r].kind = "move_to_machine"
    BY <2>1 DEF Commit, WriteInstallations, Removed
  <2>3. stor'[r] # "absent" => req[r].kind = "move_to_storage"
    BY <2>1 DEF Commit, WriteStorage, ActiveStorage
  <2>4. r \in idem' <=> req[r].kind \in Keyed
    BY <2>1 DEF Commit, RecordKey
  <2>5. QED
    BY <1>1, <2>2, <2>3, <2>4 DEF RowsOK
<1>4. PhaseOK(r)' /\ LocksHeld(r)' /\ ChecksHold(r)' /\ LocationsClosed(r)' /\ SnapshotOK(r)' /\ KeyOK(r)'
  BY <1>1 DEF PhaseOK, LocksHeld, ChecksHold, LocationsClosed, SnapshotOK, KeyOK, HoldsKeyGap,
     InFlight, Working, Targeted
<1>5. VersionsOK(r)'
  <2>1. req[r].expect = RowVersion(req[r].row) /\ req[r].row \in Assets \cup Requests
        /\ req[r].expect \in Nat
    BY <1>1 DEF ChecksHold, Working, ShapeOK, RequestRecords
  <2>2. req[r].row \in Assets => version'[req[r].row] = req[r].expect + 1
    BY <2>1, CommitVersions DEF RowVersion
  <2>3. RowVersion(req[r].row) <= RowVersion(req[r].row)'
    BY <1>1, <2>1, CommitVersions
  <2>4. QED
    BY <1>1, <2>1, <2>2, <2>3 DEF VersionsOK
<1>6. LocksOwned(r)'
  BY NamesAssumption DEF Commit, Finish, Unlocked, LocksOwned, LockableRows
<1>7. QED
  BY <1>2, <1>3, <1>4, <1>5, <1>6

\* The locks the others hold are not those of the rows the commit writes.
LEMMA CommitKeepsOthers ==
  ASSUME IInv, TypeOK', NEW r \in Requests, Commit(r), NEW s \in Requests, s # r
  PROVE  ShapeOK(s)' /\ PhaseOK(s)' /\ RowsOK(s)' /\ LocksHeld(s)' /\ ChecksHold(s)'
         /\ LocksOwned(s)' /\ LocationsClosed(s)' /\ VersionsOK(s)' /\ SnapshotOK(s)' /\ KeyOK(s)'
<1>1. /\ ShapeOK(s) /\ PhaseOK(s) /\ RowsOK(s) /\ LocksHeld(s) /\ LocksOwned(s) /\ ChecksHold(s)
      /\ LocationsClosed(s) /\ VersionsOK(s) /\ SnapshotOK(s) /\ KeyOK(s)
      /\ LocksHeld(r) /\ ShapeOK(r) /\ ChecksHold(r) /\ phase[r] = "ready" /\ RowsOK(r)
  BY CommitEffect DEF IInv, RequestsOK
<1>2. phase'[s] = phase[s] /\ outcome'[s] = outcome[s] /\ req' = req /\ snap' = snap
      /\ (InFlight(s)' <=> InFlight(s))
  BY CommitEffect DEF InFlight
<1>3. \A x \in LockableRows : lock[x] = s => lock'[x] = s /\ lock[x] # r
  BY CommitEffect
<1>4. lock[req[r].row] = r /\ (req[r].kind \in Moving => lock[req[r].target] = r)
  BY <1>1 DEF LocksHeld, Working, Targeted
<1>5. phase[s] # "idle" => /\ req[s].row \in LockableRows
                           /\ req[s].kind \in Moving => req[s].target \in LockableRows
                           /\ req[s].row \in Assets \cup Requests
                           /\ req[s].kind = "move_to_machine" =>
                                req[s].row \in Assets /\ req[s].target \in Assets
  BY <1>1, NamesLockable DEF ShapeOK, RequestRecords, Assets, Relocating
<1>6. phase[s] \in Working => /\ lock[req[s].row] = s /\ req[s].row # req[r].row
                              /\ phase[s] # "idle"
  BY <1>1, <1>4 DEF LocksHeld, Working
<1>7. ShapeOK(s)' /\ PhaseOK(s)'
  <2>1. \A i \in Requests : inst[i] # "absent" => inst'[i] # "absent"
    BY DEF Commit, WriteInstallations
  <2>2. QED
    BY <1>1, <1>2, <2>1 DEF ShapeOK, PhaseOK
<1>8. RowsOK(s)'
  <2>1. inst'[s] # "absent" => inst[s] # "absent"
    BY DEF Commit, WriteInstallations, Removed
  <2>2. stor'[s] # "absent" => stor[s] # "absent"
    BY DEF Commit, WriteStorage, ActiveStorage
  <2>3. s \in idem' <=> s \in idem
    BY DEF Commit, RecordKey
  <2>4. QED
    BY <1>1, <1>2, <2>1, <2>2, <2>3 DEF RowsOK
<1>9. LocksHeld(s)' /\ LocksOwned(s)'
  <2>1. LocksHeld(s)'
    BY <1>1, <1>2, <1>3, <1>5 DEF LocksHeld, Working, Targeted
  <2>2. \A i \in Requests : lock'[i] = s => lock[i] = s
    BY NamesAssumption DEF Commit, Finish, Unlocked, LockableRows
  <2>3. \A i \in Requests : inst[i] # "absent" => inst'[i] # "absent"
    BY DEF Commit, WriteInstallations
  <2>4. QED
    BY <1>1, <1>2, <2>1, <2>2, <2>3 DEF LocksOwned
<1>10. ChecksHold(s)'
  <2> SUFFICES ASSUME phase[s] \in Working PROVE ChecksHold(s)'
    BY <1>2 DEF ChecksHold
  <2>1. RowVersion(req[s].row)' = RowVersion(req[s].row)
    <3>1. req[s].row # r
      \* The row of a request in flight does not exist yet.
      BY <1>1, <1>5, <1>6, NamesAssumption, KindsAssumption
      DEF ShapeOK, RowsOK, Relocating, Keyed, AssetEdits, RequestRecords, Assets
    <3>2. QED
      BY <1>2, <1>5, <1>6, <3>1, CommitVersions
  <2>2. req[s].kind = "move_to_machine" => active'[req[s].row] = active[req[s].row]
    BY <1>5, <1>6, CommitVersions
  <2>3. req[s].kind = "move_to_machine" /\ phase[s] \in Targeted
          => active'[req[s].target] = active[req[s].target]
    BY <1>1, <1>4, <1>5, <1>6, CommitVersions DEF LocksHeld, Moving
  <2>4. QED
    BY <1>1, <1>2, <2>1, <2>2, <2>3 DEF ChecksHold
<1>11. LocationsClosed(s)'
  <2>1. ASSUME phase[s] \in {"insert", "ready"}, req[s].kind \in Relocating,
               NEW i \in ActiveInstallations(req[s].row)'
        PROVE  lock'[i] = s
    <3>1. i \in ActiveInstallations(req[s].row) /\ i \in Requests
      BY <1>6, <2>1, CommitEffect, RowsAreRequests DEF Working
    <3>2. QED
      BY <1>1, <1>3, <2>1, <3>1 DEF LocationsClosed, LockableRows
  <2>2. ASSUME phase[s] = "ready", req[s].kind = "move_to_machine",
               NEW i \in InstalledOn(req[s].target)'
        PROVE  lock'[i] = s
    <3>1. i \in InstalledOn(req[s].target) /\ i \in Requests
      BY <1>1, <1>4, <2>2, CommitEffect, RowsAreRequests DEF LocksHeld, Targeted, Moving
    <3>2. QED
      BY <1>1, <1>3, <2>2, <3>1 DEF LocationsClosed, LockableRows
  <2>3. QED
    BY <1>2, <2>1, <2>2 DEF LocationsClosed
<1>12. VersionsOK(s)'
  <2>1. ASSUME phase[s] # "idle" PROVE req[s].expect <= RowVersion(req[s].row)'
    <3>1. req[s].expect <= RowVersion(req[s].row) /\ RowVersion(req[s].row) <= RowVersion(req[s].row)'
      BY <1>1, <1>2, <1>5, <2>1, CommitVersions DEF VersionsOK
    <3>2. /\ req[s].expect \in Int /\ RowVersion(req[s].row) \in Int /\ RowVersion(req[s].row)' \in Int
      BY <1>1, <1>2, <1>5, <2>1 DEF ShapeOK, RequestRecords, RowVersion, IInv, TypeOK
    <3>3. QED
      BY <3>1, <3>2
  <2>2. ASSUME outcome[s] = "ok", req[s].row \in Assets PROVE req[s].expect < version'[req[s].row]
    <3>1. phase[s] # "idle" /\ req[s].expect \in Nat
      BY <1>1, <2>2 DEF RowsOK, ShapeOK, RequestRecords
    <3>2. req[s].expect < version[req[s].row] /\ version[req[s].row] \in Nat
      BY <1>1, <2>2 DEF VersionsOK, IInv, TypeOK
    <3>3. version'[req[s].row] \in {version[req[s].row], version[req[s].row] + 1}
      BY <2>2, CommitVersions
    <3>4. QED
      BY <3>1, <3>2, <3>3
  <2>3. QED
    BY <1>2, <2>1, <2>2 DEF VersionsOK
<1>13. SnapshotOK(s)'
  <2> SUFFICES ASSUME InFlight(s), req[s].kind = "archive", req[s].row \in Eoats,
                      version'[req[s].row] = req[s].expect, req[s].row \notin snap[s]
               PROVE  ActiveInstallations(req[s].row)' = {}
    BY <1>2 DEF SnapshotOK
  <2>1. req[s].row \in Assets /\ phase[s] # "idle"
    BY DEF Assets, InFlight
  <2>2. req[s].row # req[r].row
    <3>1. req[s].expect <= version[req[s].row] /\ version[req[s].row] \in Nat /\ req[s].expect \in Nat
      BY <1>1, <2>1 DEF VersionsOK, RowVersion, IInv, TypeOK, ShapeOK, RequestRecords
    <3>2. QED
      BY <2>1, <3>1, CommitVersions
  <2>3. ActiveInstallations(req[s].row) = {}
    BY <1>1, <2>1, <2>2, CommitVersions DEF SnapshotOK
  <2>4. QED
    BY <2>2, <2>3, CommitEffect
<1>14. KeyOK(s)'
  <2> SUFFICES ASSUME HoldsKeyGap(s) PROVE SameScope(s)' = {}
    BY <1>2 DEF KeyOK, HoldsKeyGap
  <2>1. SameScope(s) = {}
    BY <1>1 DEF KeyOK
  <2>2. req[r].kind \in Keyed => KeyScope(r) # KeyScope(s)
    BY DEF Commit, KeyGapFree
  <2>3. QED
    BY <1>2, <2>1, <2>2 DEF Commit, RecordKey, SameScope, KeyScope
<1>15. QED
  BY <1>7, <1>8, <1>9, <1>10, <1>11, <1>12, <1>13, <1>14

LEMMA CommitKeepsAnswers ==
  ASSUME IInv, TypeOK', NEW r \in Requests, Commit(r)
  PROVE  ExecutedOncePerKey' /\ ReplayedWasExecuted' /\ NoLostUpdate'
<1>1. /\ ShapeOK(r) /\ ChecksHold(r) /\ KeyOK(r) /\ PhaseOK(r) /\ phase[r] = "ready"
      /\ \A s \in Requests : RowsOK(s) /\ VersionsOK(s)
      /\ outcome'[r] = "ok" /\ req' = req /\ \A s \in Requests \ {r} : outcome'[s] = outcome[s]
  BY CommitEffect DEF IInv, RequestsOK
<1>2. ExecutedOncePerKey'
  <2>1. ASSUME NEW s \in Requests \ {r}, outcome[s] = "ok", req[r].kind \in Keyed, req[s].kind \in Keyed
        PROVE  <<req[r].kind, req[r].key>> # <<req[s].kind, req[s].key>>
    <3>1. SameScope(r) = {} /\ s \in idem
      BY <1>1, <2>1 DEF KeyOK, HoldsKeyGap, InFlight, RowsOK
    <3>2. QED
      BY <3>1 DEF SameScope, KeyScope
  <2>2. QED
    BY <1>1, <2>1 DEF ExecutedOncePerKey, IInv
<1>3. ReplayedWasExecuted'
  BY <1>1 DEF ReplayedWasExecuted, IInv
<1>4. NoLostUpdate'
  <2>1. ASSUME NEW s \in Requests \ {r}, outcome[s] = "ok", req[s].row = req[r].row, req[r].row \in Assets
        PROVE  req[s].expect # req[r].expect
    <3>1. req[r].expect = version[req[r].row] /\ req[r].expect \in Nat
      BY <1>1, <2>1 DEF ChecksHold, Working, RowVersion, ShapeOK, RequestRecords
    <3>2. req[s].expect < version[req[r].row]
      BY <1>1, <2>1 DEF VersionsOK
    <3>3. QED
      BY <3>1, <3>2
  <2>2. QED
    BY <1>1, <2>1 DEF NoLostUpdate, IInv
<1>5. QED
  BY <1>2, <1>3, <1>4

LEMMA CommitKeeps ==
  ASSUME IInv, TypeOK', NEW r \in Requests, Commit(r)
  PROVE  IInv'
<1>1. RequestsOK'
  BY CommitKeepsOwn, CommitKeepsOthers DEF RequestsOK
<1>2. QED
  BY <1>1, CommitKeepsPlaces, CommitKeepsAnswers DEF IInv

-----------------------------------------------------------------------------
(* The invariant holds.                                                    *)

LEMMA NextInv == IInv /\ [Next]_vars => IInv'
<1> SUFFICES ASSUME IInv, [Next]_vars PROVE IInv'
  OBVIOUS
<1>1. CASE UNCHANGED vars
  <2>1. UNCHANGED <<database, req>> /\ lock' = lock /\ phase' = phase /\ snap' = snap /\ outcome' = outcome
        /\ version' = version /\ active' = active /\ inst' = inst /\ stor' = stor /\ idem' = idem
    BY <1>1 DEF vars, database
  <2>2. TypeOK'
    BY <2>1 DEF IInv, TypeOK
  <2>3. ASSUME NEW q \in Requests
        PROVE  ShapeOK(q)' /\ PhaseOK(q)' /\ RowsOK(q)' /\ LocksHeld(q)' /\ ChecksHold(q)'
    BY <2>1, ReadsUnchanged
    DEF IInv, RequestsOK, ShapeOK, PhaseOK, RowsOK, LocksHeld, ChecksHold
  <2>4. ASSUME NEW q \in Requests
        PROVE  LocksOwned(q)' /\ LocationsClosed(q)' /\ VersionsOK(q)' /\ SnapshotOK(q)' /\ KeyOK(q)'
    BY <2>1, ReadsUnchanged
    DEF IInv, RequestsOK, LocksOwned, LocationsClosed, VersionsOK, SnapshotOK, KeyOK, HoldsKeyGap, InFlight
  <2>5. OnePlace' /\ MachineHoldsOne' /\ ArchivedNotInstalled'
    BY <2>1, ReadsUnchanged DEF IInv
  <2>6. ExecutedOncePerKey' /\ ReplayedWasExecuted' /\ NoLostUpdate'
    BY <2>1 DEF IInv, ExecutedOncePerKey, ReplayedWasExecuted, NoLostUpdate
  <2>7. QED
    BY <2>2, <2>3, <2>4, <2>5, <2>6 DEF IInv, RequestsOK
<1>2. CASE Next
  <2>1. PICK r \in Requests : Receive(r) \/ Step(r) \/ Fail(r)
    BY <1>2 DEF Next
  <2>2. TypeOK'
    BY <2>1, StepType DEF IInv
  <2>3. CASE Receive(r)
    BY <2>2, <2>3, ReceiveKeeps
  <2>4. CASE ClaimKey(r)
    BY <2>2, <2>4, ClaimKeyKeeps
  <2>5. CASE LockRow(r)
    BY <2>2, <2>5, LockRowKeeps
  <2>6. CASE LockTarget(r)
    BY <2>2, <2>6, LockTargetKeeps
  <2>7. CASE CloseLocations(r)
    BY <2>2, <2>7, CloseLocationsKeeps
  <2>8. CASE FlushInstallation(r)
    BY <2>2, <2>8, FlushInstallationKeeps
  <2>9. CASE Commit(r)
    BY <2>2, <2>9, CommitKeeps
  <2>10. CASE RefuseRow(r) \/ RefuseInstall(r) \/ RefuseOccupied(r)
    <3>1. InFlight(r) /\ Rollback(r, "conflict")
      BY <2>10 DEF RefuseRow, RefuseInstall, RefuseOccupied, InFlight
    <3>2. QED
      BY <2>2, <3>1, AbortKeeps DEF Rollback
  <2>11. CASE Fail(r)
    BY <2>2, <2>11, AbortKeeps DEF Fail, Rollback
  <2>12. CASE AnswerKnownKey(r)
    <3>1. InFlight(r) /\ UNCHANGED database
      BY <2>12 DEF AnswerKnownKey, InFlight
    <3>2. CASE \E s \in SameScope(r) : Body(s) = Body(r)
      <4>1. PICK s \in SameScope(r) : Body(s) = Body(r)
        BY <3>2
      <4>2. s \in Requests /\ outcome[s] = "ok" /\ req[s] \in RequestRecords /\ req[r] \in RequestRecords
        BY <2>12, <4>1 DEF SameScope, IInv, TypeOK, RequestsOK, RowsOK, ShapeOK, AnswerKnownKey
      <4>3. req[s] = req[r]
        BY <4>1, <4>2 DEF SameScope, KeyScope, Body, RequestRecords
      <4>4. Finish(r, "replay")
        BY <2>12, <3>2 DEF AnswerKnownKey
      <4>5. QED
        BY <2>2, <3>1, <4>2, <4>3, <4>4, AbortKeeps
    <3>3. CASE ~\E s \in SameScope(r) : Body(s) = Body(r)
      <4>1. Finish(r, "conflict")
        BY <2>12, <3>3 DEF AnswerKnownKey
      <4>2. QED
        BY <2>2, <3>1, <4>1, AbortKeeps
    <3>4. QED
      BY <3>2, <3>3
  <2>13. QED
    BY <2>1, <2>3, <2>4, <2>5, <2>6, <2>7, <2>8, <2>9, <2>10, <2>11, <2>12 DEF Step
<1>3. QED
  BY <1>1, <1>2

\* The inductive invariant holds of every state of every run.
THEOREM Invariance == Spec => []IInv
<1>1. Init => IInv
  BY InitInv
<1>2. IInv /\ [Next]_vars => IInv'
  BY NextInv
<1>3. QED
  BY <1>1, <1>2, PTL DEF Spec

\* Every variable of the write service keeps its type.
THEOREM TypeCorrect == Spec => []TypeOK
<1>1. IInv => TypeOK
  BY DEF IInv
<1>2. QED
  BY <1>1, Invariance, PTL

\* move_to_machine, move_to_storage, mark_location_unknown and
\* close_installation leave an EOAT in at most one place, whatever the
\* interleaving of their transactions.
THEOREM PlacesExclusive == Spec => []OnePlace
<1>1. IInv => OnePlace
  BY DEF IInv
<1>2. QED
  BY <1>1, Invariance, PTL

\* move_to_machine leaves a machine with at most one EOAT, although each of
\* two moves looks before the other has flushed its installation.
THEOREM MachinesExclusive == Spec => []MachineHoldsOne
<1>1. IInv => MachineHoldsOne
  BY DEF IInv
<1>2. QED
  BY <1>1, Invariance, PTL

\* set_asset_archived never archives an installed EOAT, although it looks
\* for an installation in a snapshot older than its lock.
THEOREM ArchiveSafe == Spec => []ArchivedNotInstalled
<1>1. IInv => ArchivedNotInstalled
  BY DEF IInv
<1>2. QED
  BY <1>1, Invariance, PTL

\* idempotent executes an operation once per key.
THEOREM RetriesSafe == Spec => []ExecutedOncePerKey
<1>1. IInv => ExecutedOncePerKey
  BY DEF IInv
<1>2. QED
  BY <1>1, Invariance, PTL

\* idempotent replays only answers of a request with the same body.
THEOREM ReplaysAreExecuted == Spec => []ReplayedWasExecuted
<1>1. IInv => ReplayedWasExecuted
  BY DEF IInv
<1>2. QED
  BY <1>1, Invariance, PTL

\* check_version under the row's lock lets one of two writes that expect the
\* same version through.
THEOREM UpdatesNotLost == Spec => []NoLostUpdate
<1>1. IInv => NoLostUpdate
  BY DEF IInv
<1>2. QED
  BY <1>1, Invariance, PTL

(***************************************************************************)
(* AtlasWrites implements EoatPlacement: every commit is one step of the   *)
(* placement of the assets, every other step leaves it alone.  The action  *)
(* properties of AtlasWrites follow from the same invariant.               *)
(***************************************************************************)
placeMap == [e \in Eoats |-> PlaceOf(e)]

\* The tables are written by commits only.
LEMMA OnlyCommitsWrite ==
  ASSUME IInv, NEW r \in Requests, Receive(r) \/ Step(r) \/ Fail(r), ~Commit(r)
  PROVE  UNCHANGED database /\ (UNCHANGED req \/ Receive(r))
BY DEF Receive, Step, Fail, AnswerKnownKey, ClaimKey, LockRow, RefuseRow, LockTarget, RefuseInstall,
       CloseLocations, FlushInstallation, RefuseOccupied, Rollback, Finish

\* What the tables say of places does not depend on a request just received.
LEMMA PlacesUnchanged ==
  ASSUME IInv, NEW r \in Requests, UNCHANGED database,
         UNCHANGED req \/ Receive(r)
  PROVE  UNCHANGED <<version, active, placeMap>>
<1>1. inst' = inst /\ stor' = stor /\ version' = version /\ active' = active
  BY DEF database
<1>2. ASSUME NEW i \in Requests, inst[i] = "active" \/ stor[i] = "active"
      PROVE  req'[i] = req[i]
  <2>1. CASE UNCHANGED req
    BY <2>1
  <2>2. CASE Receive(r)
    <3>1. i # r
      BY <1>2, <2>2 DEF Receive, IInv, RequestsOK, RowsOK
    <3>2. QED
      BY <2>2, <3>1 DEF Receive, IInv, TypeOK
  <2>3. QED
    BY <2>1, <2>2
<1>3. ASSUME NEW e \in Eoats
      PROVE  /\ ActiveInstallations(e)' = ActiveInstallations(e)
             /\ ActiveStorage(e)' = ActiveStorage(e)
  BY <1>1, <1>2 DEF ActiveInstallations, ActiveStorage
<1>4. ASSUME NEW e \in Eoats PROVE PlaceOf(e)' = PlaceOf(e)
  <2>1. CurrentRows(e)' = CurrentRows(e)
    BY <1>3 DEF CurrentRows
  <2>2. CASE CurrentRows(e) = {}
    BY <2>1, <2>2 DEF PlaceOf
  <2>3. CASE CurrentRows(e) # {}
    <3>1. AnyRow(CurrentRows(e)) \in CurrentRows(e)
      BY <2>3 DEF AnyRow
    <3>2. req'[AnyRow(CurrentRows(e))] = req[AnyRow(CurrentRows(e))]
      BY <1>2, <3>1 DEF CurrentRows, ActiveInstallations, ActiveStorage
    <3>3. QED
      BY <2>1, <2>3, <3>2 DEF PlaceOf
  <2>4. QED
    BY <2>2, <2>3
<1>5. QED
  BY <1>1, <1>4 DEF placeMap

\* One EOAT moves.
LEMMA PlaceMapMove ==
  ASSUME NEW e \in Eoats, NEW v, PlaceOf(e)' = v,
         \A d \in Eoats \ {e} : PlaceOf(d)' = PlaceOf(d)
  PROVE  placeMap' = [placeMap EXCEPT ![e] = v]
<1>1. [placeMap EXCEPT ![e] = v] = [d \in Eoats |-> IF d = e THEN v ELSE PlaceOf(d)]
  BY DEF placeMap
<1>2. placeMap' = [d \in Eoats |-> PlaceOf(d)']
  BY DEF placeMap
<1>3. \A d \in Eoats : PlaceOf(d)' = IF d = e THEN v ELSE PlaceOf(d)
  OBVIOUS
<1>4. [d \in Eoats |-> PlaceOf(d)'] = [d \in Eoats |-> IF d = e THEN v ELSE PlaceOf(d)]
  BY <1>3
<1>5. QED
  BY <1>1, <1>2, <1>4

LEMMA AnyOfOne == \A i : AnyRow({i}) = i
  BY DEF AnyRow

\* An EOAT that is somewhere is where its only active row says.
LEMMA PlaceByRow ==
  ASSUME IInv, NEW e \in Eoats, NEW i \in CurrentRows(e)
  PROVE  CurrentRows(e) = {i} /\ PlaceOf(e) = req[i].target
<1>1. CurrentRows(e) = {i}
  BY DEF CurrentRows, IInv, OnePlace, ActiveInstallations, ActiveStorage
<1>2. QED
  BY <1>1, AnyOfOne DEF PlaceOf

\* The places after a commit: only the EOAT it concerns has moved.
LEMMA CommitMoves ==
  ASSUME IInv, TypeOK', NEW r \in Requests, Commit(r)
  PROVE  /\ req[r].kind \in Moving => placeMap' = [placeMap EXCEPT ![req[r].row] = req[r].target]
         /\ req[r].kind = "mark_location_unknown" => placeMap' = [placeMap EXCEPT ![req[r].row] = None]
         /\ req[r].kind = "close_installation" =>
               IF inst[req[r].row] = "active"
                 THEN /\ req[req[r].row].row \in Eoats
                      /\ PlaceOf(req[req[r].row].row) \in Machines
                      /\ placeMap' = [placeMap EXCEPT ![req[req[r].row].row] = None]
                 ELSE placeMap' = placeMap
         /\ req[r].kind \in AssetEdits => placeMap' = placeMap
<1> DEFINE k == req[r].kind
           x == req[r].row
<1>1. /\ ShapeOK(r) /\ LocksHeld(r) /\ LocksOwned(r) /\ LocationsClosed(r) /\ phase[r] = "ready"
      /\ req' = req /\ \A s \in Requests : ShapeOK(s) /\ RowsOK(s)
  BY CommitEffect DEF IInv, RequestsOK
<1>2. \A i \in Requests : lock[i] = r => i = x \/ (k \in Relocating /\ req[i].row = x)
  BY <1>1 DEF LocksOwned
<1>3. ASSUME NEW e \in Eoats, CurrentRows(e)' = CurrentRows(e)
      PROVE  PlaceOf(e)' = PlaceOf(e)
  BY <1>1, <1>3 DEF PlaceOf
<1>4. k \in Relocating => /\ x \in Eoats
                          /\ CurrentRows(x)' = IF k \in Moving THEN {r} ELSE {}
                          /\ \A e \in Eoats \ {x} : CurrentRows(e)' = CurrentRows(e)
  <2> SUFFICES ASSUME k \in Relocating
               PROVE  /\ x \in Eoats
                      /\ CurrentRows(x)' = IF k \in Moving THEN {r} ELSE {}
                      /\ \A e \in Eoats \ {x} : CurrentRows(e)' = CurrentRows(e)
    OBVIOUS
  <2>1. x \in Eoats /\ x \notin Requests
    BY <1>1, NamesAssumption DEF ShapeOK, Assets
  <2>2. \A i \in ActiveInstallations(x) : lock[i] = r
    BY <1>1 DEF LocationsClosed
  <2>3. CurrentRows(x)' = IF k \in Moving THEN {r} ELSE {}
    BY <2>2, CommitEffect DEF CurrentRows, Moving, Relocating
  <2>4. ASSUME NEW e \in Eoats \ {x} PROVE CurrentRows(e)' = CurrentRows(e)
    <3>1. \A i \in ActiveInstallations(e) : lock[i] # r
      BY <1>2, <2>1 DEF ActiveInstallations
    <3>2. QED
      BY <3>1, CommitEffect DEF CurrentRows
  <2>5. QED
    BY <2>1, <2>3, <2>4
<1>5. k \in Relocating => placeMap' = [placeMap EXCEPT ![x] = IF k \in Moving THEN req[r].target ELSE None]
  <2> DEFINE goal == IF k \in Moving THEN req[r].target ELSE None
  <2> SUFFICES ASSUME k \in Relocating PROVE placeMap' = [placeMap EXCEPT ![x] = goal]
    OBVIOUS
  <2>1. PlaceOf(x)' = goal
    BY <1>1, <1>4, AnyOfOne DEF PlaceOf
  <2>2. \A e \in Eoats \ {x} : PlaceOf(e)' = PlaceOf(e)
    BY <1>3, <1>4
  <2> HIDE DEF goal
  <2>3. QED
    BY <1>1, <1>4, <2>1, <2>2, PlaceMapMove
<1>6. k = "close_installation" =>
        IF inst[x] = "active"
          THEN /\ req[x].row \in Eoats
               /\ PlaceOf(req[x].row) \in Machines
               /\ placeMap' = [placeMap EXCEPT ![req[x].row] = None]
          ELSE placeMap' = placeMap
  <2> SUFFICES ASSUME k = "close_installation"
               PROVE  IF inst[x] = "active"
                        THEN /\ req[x].row \in Eoats
                             /\ PlaceOf(req[x].row) \in Machines
                             /\ placeMap' = [placeMap EXCEPT ![req[x].row] = None]
                        ELSE placeMap' = placeMap
    OBVIOUS
  <2>1. x \in Requests /\ lock[x] = r /\ k \notin Relocating
    BY <1>1 DEF ShapeOK, LocksHeld, Working, Relocating
  <2>2. \A e : /\ ActiveInstallations(e)' = ActiveInstallations(e) \ {x}
               /\ ActiveStorage(e)' = ActiveStorage(e)
    <3>1. ASSUME NEW e PROVE ActiveInstallations(e)' = ActiveInstallations(e) \ {x}
      <4>1. \A i \in ActiveInstallations(e) : lock[i] = r <=> i = x
        BY <1>2, <2>1, RowsAreRequests
      <4>2. QED
        BY <4>1, CommitEffect
    <3>2. ASSUME NEW e PROVE ActiveStorage(e)' = ActiveStorage(e)
      <4>1. ActiveStorage(e)' = {i \in ActiveStorage(e) : ~(k \in Relocating /\ e = x)}
                                 \cup {i \in {r} : k = "move_to_storage" /\ e = x}
        BY CommitEffect
      <4>2. QED
        BY <2>1, <4>1
    <3>3. QED
      BY <3>1, <3>2
  <2>3. CASE inst[x] = "active"
    <3>1. req[x].row \in Eoats /\ req[x].target \in Machines
      BY <1>1, <2>1, <2>3 DEF RowsOK, ShapeOK, Relocating
    <3>2. x \in CurrentRows(req[x].row)
      BY <2>1, <2>3 DEF CurrentRows, ActiveInstallations
    <3>3. CurrentRows(req[x].row) = {x} /\ PlaceOf(req[x].row) \in Machines
      BY <3>1, <3>2, PlaceByRow
    <3>4. x \notin ActiveStorage(req[x].row)
      BY <1>1, <2>1, <2>3 DEF RowsOK, ActiveStorage
    <3>5. PlaceOf(req[x].row)' = None
      BY <1>1, <2>2, <3>3, <3>4 DEF CurrentRows, PlaceOf
    <3>6. ASSUME NEW e \in Eoats, e # req[x].row PROVE PlaceOf(e)' = PlaceOf(e)
      <4>1. x \notin ActiveInstallations(e)
        BY <3>6 DEF ActiveInstallations
      <4>2. QED
        BY <1>3, <2>2, <4>1 DEF CurrentRows
    <3>7. placeMap' = [placeMap EXCEPT ![req[x].row] = None]
      BY <1>1, <3>1, <3>5, <3>6, PlaceMapMove
    <3>8. QED
      BY <2>3, <3>1, <3>3, <3>7
  <2>4. CASE inst[x] # "active"
    <3>1. ASSUME NEW e \in Eoats PROVE PlaceOf(e)' = PlaceOf(e)
      <4>1. x \notin ActiveInstallations(e)
        BY <2>4 DEF ActiveInstallations
      <4>2. QED
        BY <1>3, <2>2, <4>1 DEF CurrentRows
    <3>2. QED
      BY <2>4, <3>1 DEF placeMap
  <2>5. QED
    BY <2>3, <2>4
<1>7. k \in AssetEdits => placeMap' = placeMap
  <2> SUFFICES ASSUME k \in AssetEdits PROVE placeMap' = placeMap
    OBVIOUS
  <2>1. k \notin Relocating /\ x \in Assets /\ x \notin Requests
    BY <1>1, NamesAssumption DEF ShapeOK, AssetEdits, Relocating
  <2>2. ASSUME NEW e \in Eoats PROVE PlaceOf(e)' = PlaceOf(e)
    <3>1. \A i \in ActiveInstallations(e) : lock[i] # r
      BY <1>2, <2>1 DEF ActiveInstallations
    <3>2. CurrentRows(e)' = CurrentRows(e)
      BY <2>1, <3>1, CommitEffect DEF CurrentRows, AssetEdits, Relocating
    <3>3. QED
      BY <1>3, <3>2
  <2>3. QED
    BY <2>2 DEF placeMap
<1>8. QED
  BY <1>5, <1>6, <1>7 DEF Moving, Relocating

\* A commit is one step of the placement.
LEMMA CommitSimulates ==
  ASSUME IInv, TypeOK', NEW r \in Requests, Commit(r)
  PROVE  Placement!Next \/ UNCHANGED <<version, active, placeMap>>
<1> DEFINE k == req[r].kind
           x == req[r].row
           t == req[r].target
<1>1. /\ ShapeOK(r) /\ ChecksHold(r) /\ LocationsClosed(r) /\ LocksOwned(r) /\ phase[r] = "ready"
      /\ k \in Keyed \cup AssetEdits /\ \A s \in Requests : RowsOK(s) /\ ShapeOK(s)
  BY CommitEffect, KindsAssumption DEF IInv, RequestsOK, ShapeOK, RequestRecords
<1>2. x \in Assets => version' = [version EXCEPT ![x] = @ + 1]
  BY DEF Commit, WriteAsset
<1>3. CASE k = "move_to_machine"
  <2>1. x \in Eoats /\ t \in Machines /\ x \in Assets
    BY <1>1, <1>3 DEF ShapeOK, Relocating, Assets
  <2>2. active[x] /\ active[t]
    BY <1>1, <1>3 DEF ChecksHold, Working, Targeted
  <2>3. ASSUME NEW d \in Eoats \ {x} PROVE placeMap[d] # t
    <3>1. SUFFICES ASSUME PlaceOf(d) = t PROVE FALSE
      BY DEF placeMap
    <3>2. CASE CurrentRows(d) = {}
      BY <2>1, <3>1, <3>2, NamesAssumption DEF PlaceOf, Assets
    <3>3. CASE CurrentRows(d) # {}
      <4>1. PICK i \in CurrentRows(d) : TRUE
        BY <3>3
      <4>2. req[i].target = t /\ i \in Requests /\ req[i].row = d
        BY <3>1, <4>1, PlaceByRow DEF CurrentRows, ActiveInstallations, ActiveStorage
      <4>3. stor[i] # "active"
        BY <1>1, <2>1, <4>2, NamesAssumption DEF RowsOK, ShapeOK, Assets
      <4>4. i \in InstalledOn(t)
        BY <4>1, <4>2, <4>3 DEF CurrentRows, ActiveInstallations, ActiveStorage, InstalledOn
      <4>5. lock[i] = r
        BY <1>1, <1>3, <4>4 DEF LocationsClosed
      <4>6. QED
        BY <1>1, <2>1, <4>2, <4>5, NamesAssumption DEF LocksOwned, Assets
    <3>4. QED
      BY <3>2, <3>3
  <2>4. placeMap' = [placeMap EXCEPT ![x] = t] /\ active' = active
    BY <1>3, CommitMoves, CommitVersions DEF Moving
  <2>5. Placement!Install(x, t)
    BY <1>2, <2>1, <2>2, <2>3, <2>4 DEF Placement!Install, Placement!Put, Placement!Bump, placeMap
  <2>6. QED
    BY <2>1, <2>5 DEF Placement!Next
<1>4. CASE k \in {"move_to_storage", "mark_location_unknown"}
  <2> DEFINE l == IF k = "move_to_storage" THEN t ELSE None
  <2>1. x \in Eoats /\ x \in Assets /\ l \in Locations \cup {None}
    BY <1>1, <1>4 DEF ShapeOK, Relocating, Assets
  <2>2. placeMap' = [placeMap EXCEPT ![x] = l] /\ active' = active
    BY <1>4, CommitMoves, CommitVersions DEF Moving
  <2>3. Placement!Take(x, l)
    BY <1>2, <2>1, <2>2 DEF Placement!Take, Placement!Put, Placement!Bump, placeMap
  <2>4. QED
    BY <2>1, <2>3 DEF Placement!Next
<1>5. CASE k = "close_installation"
  <2>1. x \in Requests /\ x \notin Assets
    BY <1>1, <1>5, NamesAssumption DEF ShapeOK
  <2>2. version' = version /\ active' = active
    BY <1>5, <2>1 DEF Commit, WriteAsset
  <2>3. CASE inst[x] = "active"
    <3>1. /\ req[x].row \in Eoats /\ PlaceOf(req[x].row) \in Machines
          /\ placeMap' = [placeMap EXCEPT ![req[x].row] = None]
      BY <1>5, <2>3, CommitMoves
    <3>2. Placement!Close(req[x].row)
      BY <2>2, <3>1 DEF Placement!Close, Placement!Put, placeMap
    <3>3. QED
      BY <3>1, <3>2 DEF Placement!Next
  <2>4. CASE inst[x] # "active"
    BY <1>5, <2>2, <2>4, CommitMoves
  <2>5. QED
    BY <2>3, <2>4
<1>6. CASE k \in AssetEdits
  <2>1. x \in Assets /\ placeMap' = placeMap /\ Placement!Bump(x)
    BY <1>1, <1>2, <1>6, CommitMoves DEF ShapeOK, Placement!Bump
  <2>2. CASE k = "update_asset"
    <3>1. active' = active
      BY <2>2, CommitVersions
    <3>2. Placement!Edit(x)
      BY <2>1, <3>1 DEF Placement!Edit, placeMap
    <3>3. QED
      BY <2>1, <3>2 DEF Placement!Next, Placement!Assets, Assets
  <2>3. CASE k = "restore"
    <3>1. active' = [active EXCEPT ![x] = TRUE]
      BY <2>3 DEF Commit, WriteAsset
    <3>2. Placement!Restore(x)
      BY <2>1, <3>1 DEF Placement!Restore, placeMap
    <3>3. QED
      BY <2>1, <3>2 DEF Placement!Next, Placement!Assets, Assets
  <2>4. CASE k = "archive"
    <3>1. active' = [active EXCEPT ![x] = FALSE]
      BY <2>4 DEF Commit, WriteAsset
    <3>2. x \in Eoats => PlaceOf(x) \notin Machines
      <4> SUFFICES ASSUME x \in Eoats PROVE PlaceOf(x) \notin Machines
        OBVIOUS
      <4>1. ActiveInstallations(x) = {}
        <5>1. SnapshotOK(r) /\ InFlight(r)
          BY <1>1 DEF IInv, RequestsOK, InFlight
        <5>2. QED
          BY <1>1, <2>1, <2>4, <5>1 DEF ChecksHold, SnapshotOK, RowVersion, Working
      <4>2. CASE CurrentRows(x) = {}
        BY <4>2, NamesAssumption DEF PlaceOf, Assets
      <4>3. CASE CurrentRows(x) # {}
        <5>1. PICK i \in ActiveStorage(x) : TRUE
          BY <4>1, <4>3 DEF CurrentRows
        <5>2. PlaceOf(x) = req[i].target /\ i \in Requests /\ stor[i] = "active"
          BY <5>1, PlaceByRow DEF CurrentRows, ActiveStorage
        <5>3. req[i].target \in Locations
          BY <1>1, <5>2 DEF RowsOK, ShapeOK
        <5>4. QED
          BY <5>2, <5>3, NamesAssumption DEF Assets
      <4>4. QED
        BY <4>2, <4>3
    <3>3. Placement!Archive(x)
      BY <2>1, <3>1, <3>2 DEF Placement!Archive, placeMap
    <3>4. QED
      BY <2>1, <3>3 DEF Placement!Next, Placement!Assets, Assets
  <2>5. QED
    BY <1>6, <2>2, <2>3, <2>4 DEF AssetEdits
<1>7. QED
  BY <1>1, <1>3, <1>4, <1>5, <1>6 DEF Keyed, Relocating

LEMMA StepSimulates ==
  IInv /\ TypeOK' /\ [Next]_vars => [Placement!Next]_<<version, active, placeMap>>
<1> SUFFICES ASSUME IInv, TypeOK', [Next]_vars
             PROVE  Placement!Next \/ UNCHANGED <<version, active, placeMap>>
  OBVIOUS
<1>1. CASE UNCHANGED vars
  <2>1. version' = version /\ active' = active /\ inst' = inst /\ stor' = stor /\ req' = req
    BY <1>1 DEF vars
  <2>2. \A e : CurrentRows(e)' = CurrentRows(e)
    BY <2>1 DEF CurrentRows, ActiveInstallations, ActiveStorage
  <2>3. \A e \in Eoats : PlaceOf(e)' = PlaceOf(e)
    BY <2>1, <2>2 DEF PlaceOf
  <2>4. QED
    BY <2>1, <2>3 DEF placeMap
<1>2. CASE Next
  <2>1. PICK r \in Requests : Receive(r) \/ Step(r) \/ Fail(r)
    BY <1>2 DEF Next
  <2>2. CASE Commit(r)
    BY <2>2, CommitSimulates
  <2>3. CASE ~Commit(r)
    BY <2>1, <2>3, OnlyCommitsWrite, PlacesUnchanged
  <2>4. QED
    BY <2>2, <2>3
<1>3. QED
  BY <1>1, <1>2

\* The write service implements EoatPlacement: each accepted write takes
\* effect at its commit, in one step, on the assets as they are then.
THEOREM Refinement == Spec => PlacementSpec
<1>1. Init => Placement!Init
  <2> SUFFICES ASSUME Init PROVE Placement!Init
    OBVIOUS
  <2>1. \A e \in Eoats : PlaceOf(e) = None
    BY DEF Init, PlaceOf, CurrentRows, ActiveInstallations, ActiveStorage
  <2>2. QED
    BY <2>1 DEF Init, Placement!Init, Assets, Placement!Assets
<1>2. IInv /\ IInv' /\ [Next]_vars => [Placement!Next]_(Placement!placementVars)
  BY StepSimulates DEF IInv, Placement!placementVars, placeMap
<1>3. QED
  BY <1>1, <1>2, Invariance, PTL DEF Spec, PlacementSpec, Placement!Spec

-----------------------------------------------------------------------------
(* Action properties.                                                      *)

\* _close_active_locations and close_installation keep history: no step
\* reopens or deletes an installation or a storage row.
THEOREM HistoryTheorem == Spec => HistoryKept
<1> DEFINE Kept == \A i \in Requests :
                     /\ inst[i] = "removed" => inst'[i] = "removed"
                     /\ stor[i] = "removed" => stor'[i] = "removed"
                     /\ inst[i] = "active" => inst'[i] # "absent"
                     /\ stor[i] = "active" => stor'[i] # "absent"
<1>1. IInv /\ [Next]_vars => [Kept]_vars
  <2> SUFFICES ASSUME IInv, Next PROVE Kept
    OBVIOUS
  <2>1. PICK r \in Requests : Receive(r) \/ Step(r) \/ Fail(r)
    BY DEF Next
  <2>2. CASE Commit(r)
    <3>1. inst[r] = "absent" /\ stor[r] = "absent"
      BY <2>2 DEF Commit, IInv, RequestsOK, RowsOK
    <3>2. QED
      BY <2>2, <3>1 DEF Commit, WriteInstallations, Removed, WriteStorage, ActiveStorage
  <2>3. CASE ~Commit(r)
    BY <2>1, <2>3, OnlyCommitsWrite DEF database
  <2>4. QED
    BY <2>2, <2>3
<1>2. QED
  BY <1>1, Invariance, PTL DEF Spec, HistoryKept

\* move_to_machine puts an EOAT only on a machine that is active at its commit.
THEOREM InstallTheorem == Spec => InstallsOnActiveMachine
<1> DEFINE Good == \A i \in Requests :
                     (inst[i] # "active" /\ inst'[i] = "active") => active'[req[i].target]
<1>1. IInv /\ [Next]_vars => [Good]_vars
  <2> SUFFICES ASSUME IInv, Next PROVE Good
    OBVIOUS
  <2>1. PICK r \in Requests : Receive(r) \/ Step(r) \/ Fail(r)
    BY DEF Next
  <2>2. CASE Commit(r)
    <3>1. ASSUME NEW i \in Requests, inst[i] # "active", inst'[i] = "active"
          PROVE  i = r /\ req[r].kind = "move_to_machine"
      BY <2>2, <3>1 DEF Commit, WriteInstallations
    <3>2. req[r].kind = "move_to_machine" => active[req[r].target]
      BY <2>2 DEF Commit, IInv, RequestsOK, ChecksHold, Working, Targeted
    <3>3. req[r].kind = "move_to_machine" => active' = active
      BY <2>2 DEF Commit, WriteAsset
    <3>4. QED
      BY <3>1, <3>2, <3>3
  <2>3. CASE ~Commit(r)
    BY <2>1, <2>3, OnlyCommitsWrite DEF database
  <2>4. QED
    BY <2>2, <2>3
<1>2. QED
  BY <1>1, Invariance, PTL DEF Spec, InstallsOnActiveMachine

-----------------------------------------------------------------------------
(***************************************************************************)
(* CurrentLocation: what the API says of an EOAT's place, for every number *)
(* of EOATs, machines, days, writes and audits.                            *)
(*                                                                         *)
(* The properties speak of what is shown; they rest on three facts about   *)
(* the open rows, which every placement write keeps together: an EOAT has  *)
(* at most one, a machine has at most one, and it is the row of the last   *)
(* accepted write.                                                         *)
(***************************************************************************)
InstalledRows == [open: {TRUE}, machine: Machines, at: Instants]
StoredRows == [open: {TRUE}, at: Instants]

OneRow == \A e \in Eoats : ~(Open(installed[e]) /\ Open(stored[e]))

OnePerMachine ==
    \A e, f \in Eoats :
        e # f /\ Open(installed[e]) /\ Open(installed[f])
            => installed[e].machine # installed[f].machine

LastIsOpen ==
    \A e \in Eoats :
        last[e].place # Nowhere =>
            /\ HasEvent(e)
            /\ EventPlace(e) = last[e].place
            /\ EventTime(e) = last[e].at

LocationIInv == LocationTypeOK /\ OneRow /\ OnePerMachine /\ LastIsOpen

LEMMA DayOfType == \A i \in Instants : DayOf(i) \in Int
  BY DEF Instants, DayOf

\* What a placement write leaves is described by what it does to the rows of
\* the EOAT it names, and by the place it records.
LEMMA WriteKeepsLocation ==
    ASSUME LocationIInv, NEW e \in Eoats, NEW place \in Places \cup {Nowhere},
           NEW when \in Instants,
           NEW row \in InstalledRows \cup {NoRow}, NEW shelf \in StoredRows \cup {NoRow},
           installed' = [installed EXCEPT ![e] = row],
           stored' = [stored EXCEPT ![e] = shelf],
           Written(e, place, when),
           row = NoRow \/ shelf = NoRow,
           row # NoRow => ~Occupied(e, row.machine),
           place # Nowhere =>
               \/ /\ row # NoRow
                  /\ place = [state |-> "INSTALLED", number |-> Number[row.machine]]
                  /\ row.at = when
               \/ /\ row = NoRow /\ shelf # NoRow
                  /\ place = [state |-> "STORED"]
                  /\ shelf.at = when
    PROVE  LocationIInv'
<1> USE DEF LocationIInv
<1>1. LocationTypeOK'
  <2>1. last' \in [Eoats -> [place: Places \cup {Nowhere}, at: Instants]]
    BY DEF LocationTypeOK, Written
  <2>2. writes' \in 0 .. MaxWrites
    BY BoundsAssumption DEF LocationTypeOK, Written
  <2>3. /\ installed' \in [Eoats -> {NoRow} \cup InstalledRows]
        /\ stored' \in [Eoats -> {NoRow} \cup StoredRows]
    BY DEF LocationTypeOK, InstalledRows, StoredRows
  <2> QED
    BY <2>1, <2>2, <2>3 DEF LocationTypeOK, Written, InstalledRows, StoredRows
<1>2. /\ installed'[e] = row /\ stored'[e] = shelf
      /\ last'[e] = [place |-> place, at |-> when]
      /\ \A f \in Eoats \ {e} : /\ installed'[f] = installed[f]
                                /\ stored'[f] = stored[f]
                                /\ last'[f] = last[f]
  BY DEF LocationTypeOK, Written
<1>3. OneRow'
  BY <1>2 DEF OneRow, Open
<1>4. OnePerMachine'
  BY <1>2 DEF OnePerMachine, Open, Occupied
<1>5. LastIsOpen'
  <2> SUFFICES ASSUME NEW f \in Eoats, last'[f].place # Nowhere
               PROVE  HasEvent(f)' /\ EventPlace(f)' = last'[f].place
                        /\ EventTime(f)' = last'[f].at
    BY DEF LastIsOpen
  <2>1. CASE f = e
    BY <2>1, <1>2 DEF HasEvent, EventPlace, EventTime, Open
  <2>2. CASE f # e
    BY <2>2, <1>2 DEF LastIsOpen, HasEvent, EventPlace, EventTime, Open
  <2> QED
    BY <2>1, <2>2
<1> QED
  BY <1>1, <1>3, <1>4, <1>5

\* A step that leaves the rows and the last writes alone.
LEMMA OtherStepKeepsLocation ==
    ASSUME LocationIInv, UNCHANGED <<installed, stored, last>>, LocationTypeOK'
    PROVE  LocationIInv'
  BY DEF LocationIInv, OneRow, OnePerMachine, LastIsOpen, HasEvent, EventPlace, EventTime

LEMMA LocationInvInitially == LocationInit => LocationIInv
<1> SUFFICES ASSUME LocationInit PROVE LocationIInv
  OBVIOUS
<1>1. LocationTypeOK
  BY BoundsAssumption DEF LocationInit, LocationTypeOK, Instants, NoMove
<1> QED
  BY <1>1 DEF LocationInit, LocationIInv, OneRow, OnePerMachine, LastIsOpen, Open, NoMove

LEMMA LocationInvKept == LocationIInv /\ [LocationNext]_locationVars => LocationIInv'
<1> SUFFICES ASSUME LocationIInv, [LocationNext]_locationVars PROVE LocationIInv'
  OBVIOUS
<1> USE BoundsAssumption
<1>0. LocationTypeOK
  BY DEF LocationIInv
<1>1. ASSUME NEW e \in Eoats, NEW m \in Machines, NEW when \in Instants, MoveToMachine(e, m, when)
      PROVE  LocationIInv'
  <2> DEFINE row == [open |-> TRUE, machine |-> m, at |-> when]
             place == [state |-> "INSTALLED", number |-> Number[m]]
  <2>1. row \in InstalledRows /\ row # NoRow /\ row.machine = m /\ row.at = when
    BY DEF InstalledRows, NoRow
  <2>2. place \in Places
    BY DEF Places
  <2>3. /\ installed' = [installed EXCEPT ![e] = row]
        /\ stored' = [stored EXCEPT ![e] = NoRow]
        /\ Written(e, place, when)
        /\ ~Occupied(e, m)
    BY <1>1 DEF MoveToMachine
  <2> HIDE DEF row, place
  <2>4. place = [state |-> "INSTALLED", number |-> Number[row.machine]]
    BY <2>1 DEF place
  <2> QED
    BY <2>1, <2>2, <2>3, <2>4, WriteKeepsLocation
<1>2. ASSUME NEW e \in Eoats, NEW when \in Instants, MoveToStorage(e, when)
      PROVE  LocationIInv'
  <2> DEFINE shelf == [open |-> TRUE, at |-> when]
  <2>1. shelf \in StoredRows /\ shelf # NoRow /\ shelf.at = when
    BY DEF StoredRows, NoRow
  <2>2. [state |-> "STORED"] \in Places
    BY DEF Places
  <2>3. /\ installed' = [installed EXCEPT ![e] = NoRow]
        /\ stored' = [stored EXCEPT ![e] = shelf]
        /\ Written(e, [state |-> "STORED"], when)
    BY <1>2 DEF MoveToStorage
  <2> HIDE DEF shelf
  <2> QED
    BY <2>1, <2>2, <2>3, WriteKeepsLocation
<1>3. ASSUME NEW e \in Eoats, NEW when \in Instants, CloseInstallation(e, when)
      PROVE  LocationIInv'
  <2>1. stored[e] \in StoredRows \cup {NoRow} /\ stored = [stored EXCEPT ![e] = stored[e]]
    BY <1>0 DEF LocationTypeOK, StoredRows
  <2>2. /\ installed' = [installed EXCEPT ![e] = NoRow]
        /\ stored' = [stored EXCEPT ![e] = stored[e]]
        /\ Written(e, Nowhere, when)
    BY <2>1, <1>3 DEF CloseInstallation
  <2> QED
    BY <2>1, <2>2, WriteKeepsLocation
<1>4. ASSUME NEW e \in Eoats, MarkLocationUnknown(e)
      PROVE  LocationIInv'
  <2>1. /\ installed' = [installed EXCEPT ![e] = NoRow]
        /\ stored' = [stored EXCEPT ![e] = NoRow]
        /\ Written(e, Nowhere, now)
        /\ now \in Instants
    BY <1>4, <1>0 DEF MarkLocationUnknown, LocationTypeOK
  <2> QED
    BY <2>1, WriteKeepsLocation
<1>5. ASSUME NEW e \in Eoats, SetArchived(e)
      PROVE  LocationIInv'
  <2>1. /\ UNCHANGED <<now, evidence, sheet, last, audits>>
        /\ writes < MaxWrites /\ writes' = writes + 1
        /\ archived' \subseteq Eoats
    BY <1>5, <1>0 DEF SetArchived, LocationTypeOK
  <2>2. writes' \in 0 .. MaxWrites
    BY <2>1, <1>0 DEF LocationTypeOK
  <2>3. LocationTypeOK' /\ UNCHANGED <<installed, stored, last>>
    BY <2>1, <2>2, <1>0 DEF LocationTypeOK, evidence
  <2> QED
    BY <2>3, OtherStepKeepsLocation
<1>6. ASSUME NEW e \in Eoats, Audit(e)
      PROVE  LocationIInv'
  <2>1. DayOf(now) \in Days
    BY <1>0 DEF LocationTypeOK, Instants, DayOf, Days
  <2>2. sheet' \in [Eoats -> {NoAudit} \cup Audits]
    BY <2>1, <1>6, <1>0 DEF Audit, LocationTypeOK, Audits
  <2>3. audits' \in 0 .. MaxAudits
    BY <1>6, <1>0 DEF Audit, LocationTypeOK
  <2>4. UNCHANGED <<now, evidence, archived, last, writes>>
    BY <1>6 DEF Audit
  <2>5. LocationTypeOK' /\ UNCHANGED <<installed, stored, last>>
    BY <2>2, <2>3, <2>4, <1>0 DEF LocationTypeOK, evidence
  <2> QED
    BY <2>5, OtherStepKeepsLocation
<1>7. CASE Import
  <2>1. ASSUME NEW e \in Eoats, sheet[e] # NoAudit
        PROVE  [place |-> Nowhere, day |-> sheet[e].day] \in Audits
    BY <2>1, <1>0 DEF LocationTypeOK, Audits, Observable
  <2>2. observed' \in [Eoats -> {NoAudit} \cup Audits]
    BY <2>1, <1>7, <1>0 DEF Import, LocationTypeOK
  <2>3. UNCHANGED <<now, installed, stored, archived, sheet, last, writes, audits>>
    BY <1>7 DEF Import
  <2>4. LocationTypeOK' /\ UNCHANGED <<installed, stored, last>>
    BY <2>2, <2>3, <1>0 DEF LocationTypeOK
  <2> QED
    BY <2>4, OtherStepKeepsLocation
<1>8. CASE Tick
  <2>1. LocationTypeOK' /\ UNCHANGED <<installed, stored, last>>
    BY <1>8, <1>0 DEF Tick, LocationTypeOK, evidence
  <2> QED
    BY <2>1, OtherStepKeepsLocation
<1>9. CASE UNCHANGED locationVars
  <2>1. LocationTypeOK' /\ UNCHANGED <<installed, stored, last>>
    BY <1>9, <1>0 DEF locationVars, LocationTypeOK
  <2> QED
    BY <2>1, OtherStepKeepsLocation
<1> QED
  BY <1>1, <1>2, <1>3, <1>4, <1>5, <1>6, <1>7, <1>8, <1>9 DEF LocationNext, Place

LEMMA LastMoveIsShown == LocationIInv => LastMoveShown
<1> SUFFICES ASSUME LocationIInv, NEW e \in Eoats, last[e].place # Nowhere,
                    HasAudit(e) => observed[e].day < DayOf(last[e].at)
             PROVE  Resolve(e).place = last[e].place
  BY DEF LastMoveShown
<1>1. HasEvent(e) /\ EventPlace(e) = last[e].place /\ EventTime(e) = last[e].at
  BY DEF LocationIInv, LastIsOpen
<1>2. ~(Open(installed[e]) /\ Open(stored[e]))
  BY DEF LocationIInv, OneRow
<1>3. ASSUME HasAudit(e)
      PROVE  /\ DayOf(EventTime(e)) # observed[e].day
             /\ ~(DayOf(EventTime(e)) < observed[e].day)
  <2>1. DayOf(last[e].at) \in Int /\ observed[e].day \in Int
    BY <1>3, DayOfType, BoundsAssumption DEF LocationIInv, LocationTypeOK, HasAudit, Audits, Days
  <2> QED
    BY <2>1, <1>1, <1>3
<1>4. Resolve(e) = [source |-> "LIFECYCLE_EVENT", place |-> EventPlace(e)]
  BY <1>1, <1>2, <1>3 DEF Resolve
<1> QED
  BY <1>1, <1>4

LEMMA TwoAreShownOnlyByAudit == LocationIInv => TwoShownOnlyByAudit
<1>1. ASSUME LocationIInv, NEW m \in Machines, NEW e \in CurrentEoats(m), Resolve(e).source # "OBSERVATION"
      PROVE  e \in Eoats /\ Open(installed[e]) /\ Number[installed[e].machine] = Number[m]
  <2>1. e \in Eoats /\ Resolve(e).place = [state |-> "INSTALLED", number |-> Number[m]]
    BY <1>1 DEF CurrentEoats
  <2>2. Resolve(e).place # Conflict /\ Resolve(e).place # Nowhere
        /\ Resolve(e).place # [state |-> "STORED"]
    BY <2>1 DEF Conflict, Nowhere
  <2>3. Resolve(e).place = EventPlace(e)
    BY <2>2, <1>1 DEF Resolve
  <2>4. Open(installed[e])
    BY <2>2, <2>3 DEF EventPlace
  <2>5. EventPlace(e) = [state |-> "INSTALLED", number |-> Number[installed[e].machine]]
    BY <2>4 DEF EventPlace
  <2> QED
    BY <2>1, <2>3, <2>4, <2>5
<1> QED
  BY <1>1 DEF TwoShownOnlyByAudit, LocationIInv, OnePerMachine

\* The variables keep their types.
THEOREM LocationTypeCorrect == LocationSpec => []LocationTypeOK
<1>1. LocationIInv => LocationTypeOK
  BY DEF LocationIInv
<1> QED
  BY <1>1, LocationInvInitially, LocationInvKept, PTL DEF LocationSpec

\* The place of the last accepted placement write is shown until an audit of
\* its day or a later one is imported.
THEOREM LastMoveAlwaysShown == LocationSpec => []LastMoveShown
  BY LocationInvInitially, LocationInvKept, LastMoveIsShown, PTL DEF LocationSpec

\* Of two EOATs shown on one machine, one is shown on the word of an audit, or
\* they are installed on two machines that share its number.
THEOREM OnlyAuditsShowTwo == LocationSpec => []TwoShownOnlyByAudit
  BY LocationInvInitially, LocationInvKept, TwoAreShownOnlyByAudit, PTL DEF LocationSpec
=============================================================================
