---------------------------- MODULE AtlasWrites ----------------------------
(***************************************************************************)
(* The write service of the EOAT Atlas API (server/eoat_api): concurrent   *)
(* HTTP requests that move EOATs between machines and storage, close an    *)
(* installation, and edit, archive or restore an asset.  Every request     *)
(* runs one MySQL transaction: it takes a snapshot, looks its idempotency  *)
(* key up, locks rows, checks row versions, flushes its inserts, and is    *)
(* committed by the HTTP middleware before its answer leaves the server.   *)
(*                                                                         *)
(* The database is InnoDB at its default isolation (REPEATABLE READ):      *)
(* SELECT ... FOR UPDATE waits for the row's lock and reads the committed  *)
(* row, a plain SELECT reads the snapshot, a locking read of an absent     *)
(* idempotency key keeps others from inserting it, and a cycle of waiting  *)
(* transactions is broken by failing one of them.                          *)
(***************************************************************************)
EXTENDS Integers, FiniteSets, EoatsAndMachines

CONSTANTS
    Locations,                   \* the storage locations
    Requests,                    \* HTTP requests, each sent at most once
    SharedKeys,                  \* idempotency keys that several requests may carry
    Kinds,                       \* the operations the clients use
    None                         \* no request, no target

Relocating == {"move_to_machine", "move_to_storage", "mark_location_unknown"}
Keyed == Relocating \cup {"close_installation"}
AssetEdits == {"update_asset", "archive", "restore"}

Assets == Eoats \cup Machines

ASSUME KindsAssumption == Kinds \subseteq Keyed \cup AssetEdits
ASSUME NamesAssumption ==
    /\ Eoats \cap Machines = {}
    /\ Assets \cap Requests = {}
    /\ Assets \cap Locations = {}
    /\ Locations \cap Requests = {}
    /\ None \notin Requests \cup Assets \cup Locations

(***************************************************************************)
(* A request creates at most one installation and at most one storage      *)
(* assignment, so these rows are named by the request that created them.   *)
(* The rows a request may lock are assets, storage locations and           *)
(* installations.                                                          *)
(***************************************************************************)
LockableRows == Assets \cup Locations \cup Requests
RowStates == {"absent", "active", "removed"}
Phases == {"idle", "received", "keyed", "target", "relocate", "insert", "ready", "done"}
Outcomes == {"none", "ok", "replay", "conflict", "error"}

VARIABLES
    version,  \* row_version of every asset
    active,   \* is_active of every asset
    inst,     \* state of the eoat_installations row a request created
    stor,     \* state of the eoat_storage_assignments row a request created
    idem,     \* requests whose idempotency_records row is committed
    lock,     \* which request holds a row's lock
    req,      \* what a request asks for
    phase,    \* how far its transaction has come
    snap,     \* the EOATs its snapshot shows installed
    outcome   \* what its client is told

vars == <<version, active, inst, stor, idem, lock, req, phase, snap, outcome>>
database == <<version, active, inst, stor, idem>>

\* row: the asset or installation row the request names and whose version
\* it expects; target: the machine or storage location an EOAT moves to;
\* key: a fresh UUID (written as the request itself) or a key used before.
Targets == Machines \cup Locations
RequestRecords == [kind: Kinds, row: Assets \cup Requests,
                   target: Targets \cup {None},
                   expect: Nat, key: SharedKeys \cup Requests]
NoRequest == [kind |-> "none", row |-> None, target |-> None, expect |-> 0, key |-> None]

Init ==
    /\ version = [a \in Assets |-> 1]
    /\ active = [a \in Assets |-> TRUE]
    /\ inst = [r \in Requests |-> "absent"]
    /\ stor = [r \in Requests |-> "absent"]
    /\ idem = {}
    /\ lock = [x \in LockableRows |-> None]
    /\ req = [r \in Requests |-> NoRequest]
    /\ phase = [r \in Requests |-> "idle"]
    /\ snap = [r \in Requests |-> {}]
    /\ outcome = [r \in Requests |-> "none"]

-----------------------------------------------------------------------------
(* What the tables say.                                                    *)

ActiveInstallations(e) == {i \in Requests : inst[i] = "active" /\ req[i].row = e}
ActiveStorage(e) == {i \in Requests : stor[i] = "active" /\ req[i].row = e}
InstalledOn(m) == {i \in Requests : inst[i] = "active" /\ req[i].target = m}
Installed == {e \in Eoats : ActiveInstallations(e) # {}}

\* row_version is bumped once in an installation's life, when it is closed.
RowVersion(x) == IF x \in Assets THEN version[x]
                 ELSE IF inst[x] = "removed" THEN 2 ELSE 1

\* The scope of an idempotency key: one actor, one operation, one key.
KeyScope(r) == <<req[r].kind, req[r].key>>
\* Mutant of Body: the hash leaves the expected version out.
BodyWithoutVersion(r) == <<req[r].row, req[r].target>>

\* The hashed body: the path, the payload and the expected version.
Body(r) == <<req[r].row, req[r].target, req[r].expect>>

InFlight(r) == phase[r] \notin {"idle", "done"}
\* A keyed request past its lookup holds the gap where its key would be.
HoldsKeyGap(r) == InFlight(r) /\ phase[r] # "received" /\ req[r].kind \in Keyed

-----------------------------------------------------------------------------
(* Ends of a transaction: every lock goes with it.                         *)

\* Mutant of Unlocked: the end of a request keeps the lock of its target.
UnlockedButTarget(r) ==
    [x \in LockableRows |-> IF lock[x] = r /\ x # req[r].target THEN None ELSE lock[x]]

Unlocked(r) == [x \in LockableRows |-> IF lock[x] = r THEN None ELSE lock[x]]

\* An error answer (status >= 400) or a failed request: the session is
\* rolled back, so nothing the request staged reaches the database.
Finish(r, result) ==
    /\ phase' = [phase EXCEPT ![r] = "done"]
    /\ outcome' = [outcome EXCEPT ![r] = result]
    /\ lock' = Unlocked(r)
    /\ UNCHANGED <<req, snap>>

Rollback(r, result) == Finish(r, result) /\ UNCHANGED database

-----------------------------------------------------------------------------
(* Requests.                                                               *)

\* The versions a client can know of a row: those already committed.
KnownVersions(x) == 1 .. RowVersion(x)

Fits(q) ==
    CASE q.kind \in Relocating ->
            /\ q.row \in Eoats
            /\ q.kind = "move_to_machine" => q.target \in Machines
            /\ q.kind = "move_to_storage" => q.target \in Locations
            /\ q.kind = "mark_location_unknown" => q.target = None
      [] q.kind = "close_installation" ->
            q.row \in {i \in Requests : inst[i] # "absent"} /\ q.target = None
      [] OTHER -> q.row \in Assets /\ q.target = None

\* A client sends a request; resolving its actor is the transaction's first
\* consistent read and fixes the snapshot.  Only keyed routes look a key up.
Receive(r) ==
    /\ phase[r] = "idle"
    /\ \E kind \in Kinds, x \in Assets \cup Requests, t \in Targets \cup {None},
          k \in SharedKeys \cup {r} :
         \E v \in KnownVersions(x) :
           LET q == [kind |-> kind, row |-> x, target |-> t, expect |-> v, key |-> k]
           IN /\ Fits(q)
              /\ kind \notin Keyed => k = r
              /\ req' = [req EXCEPT ![r] = q]
              /\ phase' = [phase EXCEPT ![r] = IF kind \in Keyed THEN "received" ELSE "keyed"]
    /\ snap' = [snap EXCEPT ![r] = Installed]
    /\ UNCHANGED <<database, lock, outcome>>

SameScope(r) == {s \in idem : KeyScope(s) = KeyScope(r)}

\* The key is known: the stored answer is returned for the same body, and a
\* different body is refused.  A replay commits an empty transaction.
AnswerKnownKey(r) ==
    /\ phase[r] = "received"
    /\ SameScope(r) # {}
    /\ Finish(r, IF \E s \in SameScope(r) : Body(s) = Body(r) THEN "replay" ELSE "conflict")
    /\ UNCHANGED database

\* The key is absent: the locking read leaves its gap locked and the
\* operation is executed.
ClaimKey(r) ==
    /\ phase[r] = "received"
    /\ SameScope(r) = {}
    /\ phase' = [phase EXCEPT ![r] = "keyed"]
    /\ UNCHANGED <<database, lock, req, snap, outcome>>

\* Mutant of RowAccepts: archiving does not look for an installation.
RowAcceptsInstalled(r) ==
    /\ RowVersion(req[r].row) = req[r].expect
    /\ req[r].kind = "move_to_machine" => active[req[r].row]

\* check_version and the refusals that read the locked row: an archived
\* EOAT is not installed, and an EOAT the snapshot shows installed is not
\* archived.
RowAccepts(r) ==
    LET q == req[r] IN
    /\ RowVersion(q.row) = q.expect
    /\ q.kind = "move_to_machine" => active[q.row]
    /\ q.kind = "archive" => q.row \notin snap[r]

PhaseAfterRow(kind) ==
    CASE kind \in {"move_to_machine", "move_to_storage"} -> "target"
      [] kind = "mark_location_unknown" -> "relocate"
      [] OTHER -> "ready"

\* Mutant of LockRow: the row is read without FOR UPDATE.
LockRowUnlocked(r) ==
    /\ phase[r] = "keyed"
    /\ RowAccepts(r)
    /\ phase' = [phase EXCEPT ![r] = PhaseAfterRow(req[r].kind)]
    /\ UNCHANGED <<database, lock, req, snap, outcome>>

\* SELECT ... FOR UPDATE of the row the request names.
LockRow(r) ==
    /\ phase[r] = "keyed"
    /\ lock[req[r].row] = None
    /\ RowAccepts(r)
    /\ lock' = [lock EXCEPT ![req[r].row] = r]
    /\ phase' = [phase EXCEPT ![r] = PhaseAfterRow(req[r].kind)]
    /\ UNCHANGED <<database, req, snap, outcome>>

RefuseRow(r) ==
    /\ phase[r] = "keyed"
    /\ lock[req[r].row] = None
    /\ ~RowAccepts(r)
    /\ Rollback(r, "conflict")

\* Mutant of LockTarget: the target is read without FOR UPDATE.
LockTargetUnlocked(r) ==
    /\ phase[r] = "target"
    /\ req[r].target \in Machines => active[req[r].target]
    /\ phase' = [phase EXCEPT ![r] = "relocate"]
    /\ UNCHANGED <<database, lock, req, snap, outcome>>

\* A move locks the machine or the storage location it goes to; a machine
\* must be active.  (No request archives a storage location.)
LockTarget(r) ==
    LET t == req[r].target IN
    /\ phase[r] = "target"
    /\ lock[t] = None
    /\ t \in Machines => active[t]
    /\ lock' = [lock EXCEPT ![t] = r]
    /\ phase' = [phase EXCEPT ![r] = "relocate"]
    /\ UNCHANGED <<database, req, snap, outcome>>

\* The machine is archived, or the tool, the robot or the fit check (all
\* read from the snapshot, all outside this module) refuse the installation.
RefuseInstall(r) ==
    /\ phase[r] = "target"
    /\ req[r].kind = "move_to_machine"
    /\ lock[req[r].target] = None
    /\ Rollback(r, "conflict")

\* _close_active_locations: locks the EOAT's active installation and stages
\* its removal.  The active storage assignment is only ever touched under
\* the EOAT's lock, so it needs none of its own here.
CloseLocations(r) ==
    LET mine == ActiveInstallations(req[r].row) IN
    /\ phase[r] = "relocate"
    /\ \A i \in mine : lock[i] = None
    /\ lock' = [x \in LockableRows |-> IF x \in mine THEN r ELSE lock[x]]
    /\ phase' = [phase EXCEPT ![r] = IF req[r].kind = "move_to_machine" THEN "insert" ELSE "ready"]
    /\ UNCHANGED <<database, req, snap, outcome>>

\* Mutant of Occupants: only the EOAT's marker is unique.
OccupantsOfEoat(r) == {i \in ActiveInstallations(req[r].row) : lock[i] # r}

\* Active rows the new installation would share a unique marker with.
Occupants(r) == {i \in ActiveInstallations(req[r].row) \cup InstalledOn(req[r].target) : lock[i] # r}

\* The flush of the new installation; a marker held by a row that another
\* transaction is closing makes it wait for that transaction.
FlushInstallation(r) ==
    /\ phase[r] = "insert"
    /\ Occupants(r) = {}
    /\ phase' = [phase EXCEPT ![r] = "ready"]
    /\ UNCHANGED <<database, lock, req, snap, outcome>>

RefuseOccupied(r) ==
    /\ phase[r] = "insert"
    /\ \E i \in Occupants(r) : lock[i] = None
    /\ Rollback(r, "conflict")

-----------------------------------------------------------------------------
(* Commit, by operation.                                                   *)

\* The installations a request removes: those it locked to close.
Removed(r) == {i \in Requests : lock[i] = r /\ inst[i] = "active"}

\* Mutant of WriteInstallations: a closed installation is deleted.
WriteInstallationsDeleting(r) ==
    inst' = [i \in Requests |->
               CASE i = r /\ req[r].kind = "move_to_machine" -> "active"
                 [] i \in Removed(r) -> "absent"
                 [] OTHER -> inst[i]]

WriteInstallations(r) ==
    inst' = [i \in Requests |->
               CASE i = r /\ req[r].kind = "move_to_machine" -> "active"
                 [] i \in Removed(r) -> "removed"
                 [] OTHER -> inst[i]]

WriteStorage(r) ==
    stor' = [i \in Requests |->
               CASE i = r /\ req[r].kind = "move_to_storage" -> "active"
                 [] req[r].kind \in Relocating /\ i \in ActiveStorage(req[r].row) -> "removed"
                 [] OTHER -> stor[i]]

\* Mutant of WriteAsset: only edits bump the version, moves do not.
WriteAssetEditsOnly(r) ==
    LET q == req[r] IN
    /\ version' = IF q.kind \in AssetEdits THEN [version EXCEPT ![q.row] = @ + 1] ELSE version
    /\ active' = CASE q.kind = "archive" -> [active EXCEPT ![q.row] = FALSE]
                   [] q.kind = "restore" -> [active EXCEPT ![q.row] = TRUE]
                   [] OTHER -> active

\* Every write to an asset row bumps its version; closing an installation
\* does not touch the EOAT's row.
WriteAsset(r) ==
    LET q == req[r] IN
    /\ version' = IF q.row \in Assets THEN [version EXCEPT ![q.row] = @ + 1] ELSE version
    /\ active' = CASE q.kind = "archive" -> [active EXCEPT ![q.row] = FALSE]
                   [] q.kind = "restore" -> [active EXCEPT ![q.row] = TRUE]
                   [] OTHER -> active

\* The idempotency record waits for the gap locks of requests that looked
\* the same key up.
KeyGapFree(r) ==
    \A s \in Requests \ {r} : HoldsKeyGap(s) => KeyScope(s) # KeyScope(r)

\* Mutants of RecordKey: one operation records none; the bare key is recorded.
RecordKeyOfMoves(r) == idem' = IF req[r].kind \in {"move_to_machine", "move_to_storage"}
                                 THEN idem \cup {r} ELSE idem
RecordBareKey(r) == idem' = IF req[r].kind \in Keyed THEN idem \cup {req[r].key} ELSE idem

RecordKey(r) == idem' = IF req[r].kind \in Keyed THEN idem \cup {r} ELSE idem

\* The middleware commits a successful write before the answer leaves.
Commit(r) ==
    /\ phase[r] = "ready"
    /\ req[r].kind \in Keyed => KeyGapFree(r)
    /\ WriteInstallations(r)
    /\ WriteStorage(r)
    /\ WriteAsset(r)
    /\ RecordKey(r)
    /\ Finish(r, "ok")

-----------------------------------------------------------------------------
(* Failures.                                                               *)

\* The server or its connection dies, a lock wait times out, or a check on
\* data outside this module (dates, lookups) refuses the request.
Fail(r) == InFlight(r) /\ Rollback(r, "error")

WaitsForRow(r, s) ==
    \E x \in LockableRows :
       /\ lock[x] = s
       /\ \/ phase[r] = "keyed" /\ x = req[r].row
          \/ phase[r] = "target" /\ x = req[r].target
          \/ phase[r] = "relocate" /\ x \in ActiveInstallations(req[r].row)
          \/ phase[r] = "insert" /\ x \in Occupants(r)

WaitsForKey(r, s) ==
    /\ phase[r] = "ready" /\ req[r].kind \in Keyed
    /\ HoldsKeyGap(s) /\ KeyScope(s) = KeyScope(r)

\* r belongs to a set of requests none of which can go on before another.
Deadlocked(r) ==
    \E S \in SUBSET Requests :
       /\ r \in S
       /\ \A s \in S : \E t \in S \ {s} : WaitsForRow(s, t) \/ WaitsForKey(s, t)

\* The failures InnoDB is bound to: a transaction of a cycle.
FailDeadlocked(r) == Deadlocked(r) /\ Fail(r)

-----------------------------------------------------------------------------
Step(r) ==
    \/ AnswerKnownKey(r) \/ ClaimKey(r)
    \/ LockRow(r) \/ RefuseRow(r)
    \/ LockTarget(r) \/ RefuseInstall(r)
    \/ CloseLocations(r)
    \/ FlushInstallation(r) \/ RefuseOccupied(r)
    \/ Commit(r)

Next == \E r \in Requests : Receive(r) \/ Step(r) \/ Fail(r)

Spec == Init /\ [][Next]_vars

\* A request that was received is worked on until it is answered: nothing is
\* assumed of the clients, and failures need not happen except that InnoDB
\* never leaves a cycle of waiting transactions standing.
Fairness == \A r \in Requests : WF_vars(Step(r)) /\ WF_vars(FailDeadlocked(r))
FairSpec == Spec /\ Fairness

-----------------------------------------------------------------------------
(* The promise: EoatPlacement, with an EOAT's place read off the tables.   *)

CurrentRows(e) == ActiveInstallations(e) \cup ActiveStorage(e)
AnyRow(rows) == CHOOSE i \in rows : TRUE
PlaceOf(e) == IF CurrentRows(e) = {} THEN None ELSE req[AnyRow(CurrentRows(e))].target

Placement == INSTANCE EoatPlacement
               WITH Nowhere <- None, place <- [e \in Eoats |-> PlaceOf(e)]

-----------------------------------------------------------------------------
(* Properties.                                                             *)

\* Every variable holds a value the code could store there.
TypeOK ==
    /\ version \in [Assets -> Nat]
    /\ active \in [Assets -> BOOLEAN]
    /\ inst \in [Requests -> RowStates]
    /\ stor \in [Requests -> RowStates]
    /\ idem \subseteq Requests
    /\ lock \in [LockableRows -> Requests \cup {None}]
    /\ req \in [Requests -> RequestRecords \cup {NoRequest}]
    /\ phase \in [Requests -> Phases]
    /\ snap \in [Requests -> SUBSET Eoats]
    /\ outcome \in [Requests -> Outcomes]

\* An EOAT is in one place: at most one active row over the installations
\* and the storage assignments together.  No constraint of the database
\* relates the two tables; only the EOAT row's lock does.
OnePlace ==
    \A e \in Eoats : \A i, j \in Requests :
       /\ i \in ActiveInstallations(e) => j \notin ActiveStorage(e)
       /\ i \in ActiveInstallations(e) /\ j \in ActiveInstallations(e) => i = j
       /\ i \in ActiveStorage(e) /\ j \in ActiveStorage(e) => i = j

\* A machine holds at most one EOAT.
MachineHoldsOne ==
    \A m \in Machines : \A i, j \in InstalledOn(m) : i = j

\* An archived EOAT is not installed, although archiving reads the
\* installations from a snapshot that may be older than the lock it holds.
ArchivedNotInstalled ==
    \A e \in Eoats : active[e] \/ ActiveInstallations(e) = {}

\* A retried operation takes effect at most once: no two requests executed
\* under the same operation and key.
ExecutedOncePerKey ==
    \A r, s \in Requests :
       (r # s /\ outcome[r] = "ok" /\ outcome[s] = "ok"
          /\ req[r].kind \in Keyed /\ req[s].kind \in Keyed)
       => <<req[r].kind, req[r].key>> # <<req[s].kind, req[s].key>>

\* An answer is replayed only to a request whose body was executed before.
ReplayedWasExecuted ==
    \A r \in Requests : outcome[r] = "replay" =>
       \E s \in Requests : outcome[s] = "ok" /\ req[s] = req[r]

\* No write overwrites one its client has not seen: two executed writes of
\* the same asset never expected the same version.
NoLostUpdate ==
    \A r, s \in Requests :
       (r # s /\ outcome[r] = "ok" /\ outcome[s] = "ok"
          /\ req[r].row = req[s].row /\ req[r].row \in Assets)
       => req[r].expect # req[s].expect

\* An installation starts on a machine that is active when it starts.
InstallsOnActiveMachine ==
    [][\A i \in Requests :
         (inst[i] # "active" /\ inst'[i] = "active") => active'[req[i].target]]_vars

\* History is kept: a closed installation or storage row is never reopened
\* or deleted, and no active row disappears without being closed.
HistoryKept ==
    [][\A i \in Requests :
         /\ inst[i] = "removed" => inst'[i] = "removed"
         /\ stor[i] = "removed" => stor'[i] = "removed"
         /\ inst[i] = "active" => inst'[i] # "absent"
         /\ stor[i] = "active" => stor'[i] # "absent"]_vars

\* Every accepted write takes effect in one step, at its commit: what the
\* tables say of versions, activity and places is a behaviour of
\* EoatPlacement, although the rows were checked under locks taken earlier
\* and partly against an older snapshot.
PlacementSpec == Placement!Spec

\* Every request the server received is answered, whatever the others do.
EveryRequestAnswered == \A r \in Requests : InFlight(r) ~> phase[r] = "done"
=============================================================================
