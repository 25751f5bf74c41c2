---------------------------- MODULE DeployHelper ----------------------------
(***************************************************************************)
(* The privileged deployment helper (eoat_atlas_deploy_helper.py): the     *)
(* transaction record it writes before and after every effect, the lock    *)
(* file, the current and previous links, the service they decide, and the  *)
(* web-host configuration that shares the lock.                            *)
(*                                                                         *)
(* Each operation runs in a process of its own, which may be killed        *)
(* between any two of its file operations.  Nothing keeps two processes    *)
(* from working on one transaction at once: each has a copy of its record  *)
(* in memory and saves the whole of it.  The history variable overlaps     *)
(* counts how often that has happened, for the properties to name it.      *)
(*                                                                         *)
(* Reading the record and the checks that follow are one step (only an     *)
(* overlapping operation could tell); so are checking the lock and         *)
(* unlinking it.  A step that saves also reads the lock file.              *)
(***************************************************************************)
EXTENDS Naturals

CONSTANTS
    Deployments,   \* deployment ids
    HostChanges,   \* host configuration ids
    Helpers,       \* helper processes
    Releases,      \* release directories
    Base,          \* the release that is current before any deployment
    MaxOverlaps,   \* bound: overlapping operations, after which none starts
    Unwritten,     \* the lock file exists and is still empty
    None

Transactions == Deployments \cup HostChanges
Mixed == "mixed"   \* files of a host change and older ones side by side

ASSUME DeployAssumption ==
    /\ Deployments \cap HostChanges = {}
    /\ Mixed \notin Transactions \cup {Unwritten, None}
    /\ {Unwritten, None} \cap (Transactions \cup Releases) = {} /\ Unwritten # None
    /\ Base \in Releases /\ MaxOverlaps \in Nat

VARIABLES
    \* on disk
    record,      \* the state in a transaction's record
    kept,        \* what else the record keeps
    staging,     \* the deployments that have a staging directory
    promoted,    \* complete release directories
    lock,        \* what the lock file names
    current,     \* the current link
    previous,    \* the previous link
    files,       \* the host change whose files are in place, None for the original ones
    made,        \* the host changes that have a backup directory
    \* in memory
    running,     \* the release the service runs, None if it is down
    at,          \* what each helper executes: operation, transaction, last step, state
    refresh,     \* whether it has yet to rewrite the lock file after a save
    \* history
    overlaps     \* operations started on a transaction another helper was at work on

links == <<current, previous, running>>
host == <<files, made>>
release == <<staging, promoted>>
saved == <<record, kept>>
vars == <<saved, release, lock, links, host, at, refresh, overlaps>>

\* previous_target and the release of a deployment; the backup of a host change.
Contents ==
    [prev : Releases \cup {None}, target : Releases \cup {None},
     backup : HostChanges \cup {Mixed, None, Unwritten}]
Blank == [prev |-> None, target |-> None, backup |-> Unwritten]

StageOrder ==
    {<<"LOCK_ACQUIRED", "BACKUP_CREATED">>, <<"BACKUP_CREATED", "ARTIFACT_TRANSFERRED">>,
     <<"ARTIFACT_TRANSFERRED", "ARTIFACT_VERIFIED">>, <<"RELEASE_EXTRACTED", "RUNTIME_READY">>}
BeforeActivation ==
    {"LOCK_ACQUIRED", "BACKUP_CREATED", "ARTIFACT_TRANSFERRED", "ARTIFACT_VERIFIED",
     "RELEASE_EXTRACTED", "RUNTIME_READY", "STAGED_VALIDATED"}
AbortableLate == BeforeActivation \cup {"CREATED", "ACTIVATION_STARTED"}   \* (mutated)
Abortable == (BeforeActivation \ {"ARTIFACT_TRANSFERRED"}) \cup {"CREATED"}
Eligible == {"ACTIVATION_STARTED", "ACTIVATED", "SERVICE_RESTARTED", "HEALTH_VALIDATED",
             "MANUAL_INTERVENTION_REQUIRED"}
States == BeforeActivation \cup Eligible
    \cup {"absent", "CREATED", "PREFLIGHT_PASSED", "COMPLETED", "ROLLBACK_STARTED", "ROLLED_BACK",
          "FAILED", "BACKUPS_CREATED", "FILES_INSTALLED", "COMMITTED"}

Operations == {"none", "begin", "stage", "abort", "activate", "undo", "host", "host_rollback", "restore"}
Steps == States \cup
    {"none", "started", "locking", "locked", "promoted", "abortable", "previous", "linked", "restarted",
     "eligible", "restored", "undone", "unhealthy", "removed", "backing", "installing", "installed",
     "restoring", "requested"}

Idle == [op |-> "none", of |-> None, done |-> "none", state |-> Blank]

Init ==
    /\ record = [t \in Transactions |-> "absent"]
    /\ kept = [t \in Transactions |-> Blank]
    /\ staging = {} /\ promoted = {Base}
    /\ lock = None
    /\ current = Base /\ previous = None /\ running = Base
    /\ files = None /\ made = {}
    /\ at = [p \in Helpers |-> Idle]
    /\ refresh = [p \in Helpers |-> FALSE]
    /\ overlaps = 0

-----------------------------------------------------------------------------
(* The steps that operations share.                                        *)

Executes(p, op, done) == at[p].op = op /\ at[p].done = done /\ ~refresh[p]
Moves(p, a) == at' = [at EXCEPT ![p] = a] /\ UNCHANGED overlaps
Goes(p, op, done) == Moves(p, [at[p] EXCEPT !.op = op, !.done = done])
Stops(p) == Moves(p, Idle)

\* An operator starts an operation on transaction t, with this state in memory.
Starts(p, op, t, done, state) ==
    /\ at[p] = Idle
    /\ overlaps < MaxOverlaps
    /\ at' = [at EXCEPT ![p] = [op |-> op, of |-> t, done |-> done, state |-> state]]
    /\ overlaps' = IF \E q \in Helpers : at[q].of = t THEN overlaps + 1 ELSE overlaps
    /\ UNCHANGED <<saved, release, lock, links, host, refresh>>

\* A save that cannot read the lock file is rejected after the record is
\* written, and the handler of the host installer writes it again.
Written(p, status) ==
    IF /\ lock = Unwritten /\ at[p].op \in {"host", "restore"}
       /\ status \notin {"CREATED", "LOCK_ACQUIRED", "FAILED"}
    THEN "MANUAL_INTERVENTION_REQUIRED" ELSE status

\* _save: write the state in memory over the record, then see whether the lock
\* names the transaction and must be rewritten, and go on to the next step of
\* operation next. The last save of an operation has next = "none".
SaveState(p, next, status, state) ==
    /\ record' = [record EXCEPT ![at[p].of] = Written(p, status)]
    /\ kept' = [kept EXCEPT ![at[p].of] = state]
    /\ refresh' = [refresh EXCEPT ![p] = (lock = at[p].of)]
    /\ IF lock = Unwritten \/ (next = "none" /\ lock # at[p].of)
       THEN Stops(p)
       ELSE Moves(p, [at[p] EXCEPT !.op = next, !.done = status, !.state = state])

Save(p, next, status) == SaveState(p, next, status, at[p].state)

\* The rest of _save: atomic_json puts a lock file in place, even where
\* another helper has unlinked it since.
RewriteLock(p) ==
    /\ refresh[p]
    /\ refresh' = [refresh EXCEPT ![p] = FALSE]
    /\ lock' = at[p].of
    /\ IF at[p].op = "none" THEN Stops(p) ELSE UNCHANGED <<at, overlaps>>
    /\ UNCHANGED <<saved, release, links, host>>

SaveStep(p, op, done, next, status) ==
    /\ Executes(p, op, done)
    /\ Save(p, next, status)
    /\ UNCHANGED <<release, lock, links, host>>

\* A check of the operation fails: Rejected ends it, the record stays.
Rejects(p, op, done) ==
    /\ Executes(p, op, done)
    /\ Stops(p)
    /\ UNCHANGED <<saved, release, lock, links, host, refresh>>

\* _release_lock: the lock goes only if it still names the transaction.
ReleaseLock(p, op, done) ==
    /\ Executes(p, op, done)
    /\ Stops(p)
    /\ lock' = IF lock = at[p].of THEN None ELSE lock
    /\ UNCHANGED <<saved, release, links, host, refresh>>

-----------------------------------------------------------------------------
(* begin                                                                   *)

\* The current link is read before the lock is taken, and an id that has a
\* record is refused; a begin that has not saved yet leaves none.
Begin(p, d) ==
    /\ record[d] = "absent"
    /\ \E r \in Releases :
          Starts(p, "begin", d, "started", [Blank EXCEPT !.prev = current, !.target = r])

\* (A lock taken without O_EXCL.)
CreateLockOver(p, op, done) ==
    /\ Executes(p, op, done)
    /\ lock' = Unwritten
    /\ Goes(p, op, "locking")
    /\ UNCHANGED <<saved, release, links, host, refresh>>

\* _lock: O_CREAT | O_EXCL, then the file is written.
CreateLock(p, op, done) ==
    /\ Executes(p, op, done)
    /\ lock = None
    /\ lock' = Unwritten
    /\ Goes(p, op, "locking")
    /\ UNCHANGED <<saved, release, links, host, refresh>>

LockHeld(p, op, done) == lock # None /\ Rejects(p, op, done)

WriteLock(p, op) ==
    /\ Executes(p, op, "locking")
    /\ lock' = at[p].of
    /\ Goes(p, op, "locked")
    /\ UNCHANGED <<saved, release, links, host, refresh>>

BeginStep(p) ==
    \/ SaveStep(p, "begin", "started", "begin", "CREATED")
    \/ SaveStep(p, "begin", "CREATED", "begin", "PREFLIGHT_PASSED")
    \/ CreateLock(p, "begin", "PREFLIGHT_PASSED") \/ LockHeld(p, "begin", "PREFLIGHT_PASSED")
    \/ WriteLock(p, "begin")
    \/ SaveStep(p, "begin", "locked", "none", "LOCK_ACQUIRED")

-----------------------------------------------------------------------------
(* stage                                                                   *)

Target(p) == at[p].state.target
Prev(p) == at[p].state.prev

Stage(p, d) ==
    /\ lock = d /\ record[d] = "LOCK_ACQUIRED"
    /\ Starts(p, "stage", d, "LOCK_ACQUIRED", kept[d])

\* The archive is extracted into a new staging directory.
Extract(p) ==
    /\ Executes(p, "stage", "ARTIFACT_VERIFIED")
    /\ Target(p) \notin promoted /\ at[p].of \notin staging
    /\ staging' = staging \cup {at[p].of}
    /\ Save(p, "stage", "RELEASE_EXTRACTED")
    /\ UNCHANGED <<promoted, lock, links, host>>

\* The staging directory becomes the release.
Promote(p) ==
    /\ Executes(p, "stage", "RUNTIME_READY")
    /\ at[p].of \in staging /\ Target(p) \notin promoted
    /\ staging' = staging \ {at[p].of}
    /\ promoted' = promoted \cup {Target(p)}
    /\ Goes(p, "stage", "promoted")
    /\ UNCHANGED <<saved, lock, links, host, refresh>>

StageStep(p) ==
    \/ \E s \in StageOrder :
          /\ SaveStep(p, "stage", s[1], "stage", s[2])
          /\ s[2] = "RUNTIME_READY" => at[p].of \in staging
    \/ Extract(p)
    \/ \E s \in {"BACKUP_CREATED", "ARTIFACT_VERIFIED", "RELEASE_EXTRACTED", "RUNTIME_READY"} :
          Rejects(p, "stage", s)
    \/ Promote(p)
    \/ SaveStep(p, "stage", "promoted", "none", "STAGED_VALIDATED")
    \/ SaveStep(p, "stage", "ARTIFACT_VERIFIED", "none", "STAGED_VALIDATED") /\ Target(p) \in promoted

Abort(p, d) ==
    /\ lock = d /\ record[d] \in Abortable
    /\ Starts(p, "abort", d, "abortable", kept[d])

RemoveStaging(p) ==
    /\ Executes(p, "abort", "abortable")
    /\ staging' = staging \ {at[p].of}
    /\ Goes(p, "abort", "removed")
    /\ UNCHANGED <<saved, promoted, lock, links, host, refresh>>

AbortStep(p) ==
    \/ RemoveStaging(p)
    \/ SaveStep(p, "abort", "removed", "abort", "FAILED")
    \/ ReleaseLock(p, "abort", "FAILED")

-----------------------------------------------------------------------------
(* activate and rollback                                                   *)

\* (An activation that trusts the previous target of its begin.)
ActivateUnchecked(p, d) ==
    /\ lock = d /\ record[d] = "STAGED_VALIDATED"
    /\ Starts(p, "activate", d, "STAGED_VALIDATED", kept[d])

Activate(p, d) ==
    /\ lock = d /\ record[d] = "STAGED_VALIDATED"
    /\ current = kept[d].prev
    /\ Starts(p, "activate", d, "STAGED_VALIDATED", kept[d])

Relink(p, op, from, to) ==
    /\ Executes(p, op, from)
    /\ Goes(p, op, to)
    /\ UNCHANGED <<saved, release, lock, host, refresh>>

\* (The wrong path is linked.)
LinkPreviousTarget(p) ==
    /\ Relink(p, "activate", "ACTIVATION_STARTED", "previous")
    /\ previous' = Target(p)
    /\ UNCHANGED <<current, running>>

LinkPrevious(p) ==
    /\ Relink(p, "activate", "ACTIVATION_STARTED", "previous")
    /\ previous' = Prev(p)
    /\ UNCHANGED <<current, running>>

LinkCurrent(p) ==
    /\ Relink(p, "activate", "previous", "linked")
    /\ current' = Target(p)
    /\ UNCHANGED <<previous, running>>

\* The link is read again; a surprise is put back and reported.
VerifyLink(p) ==
    /\ Executes(p, "activate", "linked")
    /\ IF current = Target(p)
       THEN SaveStep(p, "activate", "linked", "activate", "ACTIVATED")
       ELSE /\ current' = Prev(p)
            /\ Stops(p)
            /\ UNCHANGED <<saved, release, lock, previous, running, host, refresh>>

\* systemctl restart, then is-active.
Restart(p, op, from, to) ==
    /\ Relink(p, op, from, to)
    /\ running' = current
    /\ UNCHANGED <<current, previous>>

RestartFails(p, op, from, to) ==
    /\ Executes(p, op, from)
    /\ IF to = "none" THEN Stops(p) ELSE Goes(p, op, to)
    /\ running' \in {None, current}
    /\ UNCHANGED <<saved, release, lock, current, previous, host, refresh>>

Healthy(p) == running = Target(p)

\* The activated release must identify itself, any running one may do after
\* a rollback; a health check may always fail.
ActivateStep(p) ==
    \/ SaveStep(p, "activate", "STAGED_VALIDATED", "activate", "ACTIVATION_STARTED")
    \/ LinkPrevious(p) \/ LinkCurrent(p) \/ VerifyLink(p)
    \/ Restart(p, "activate", "ACTIVATED", "restarted")
    \/ RestartFails(p, "activate", "ACTIVATED", "none")
    \/ SaveStep(p, "activate", "restarted", "activate", "SERVICE_RESTARTED")
    \/ SaveStep(p, "activate", "SERVICE_RESTARTED", "activate", "HEALTH_VALIDATED") /\ Healthy(p)
    \/ SaveStep(p, "activate", "SERVICE_RESTARTED", "undo", "ROLLBACK_STARTED")
    \/ SaveStep(p, "activate", "HEALTH_VALIDATED", "activate", "COMPLETED")
    \/ ReleaseLock(p, "activate", "COMPLETED")

Rollback(p, d) ==
    /\ lock = d /\ record[d] \in Eligible
    /\ Starts(p, "undo", d, "eligible", kept[d])

RestoreCurrent(p) ==
    /\ Relink(p, "undo", "ROLLBACK_STARTED", "restored")
    /\ current' = Prev(p)
    /\ UNCHANGED <<previous, running>>

UndoStep(p) ==
    \/ SaveStep(p, "undo", "eligible", "undo", "ROLLBACK_STARTED")
    \/ RestoreCurrent(p)
    \/ Restart(p, "undo", "restored", "undone")
    \/ RestartFails(p, "undo", "restored", "unhealthy")
    \/ running # None /\ SaveStep(p, "undo", "undone", "undo", "ROLLED_BACK")
    \/ \E s \in {"undone", "unhealthy"} :
          SaveStep(p, "undo", s, "none", "MANUAL_INTERVENTION_REQUIRED")
    \/ ReleaseLock(p, "undo", "ROLLED_BACK")

\* What recover reports for a deployment that holds the lock.
Advice(d) == IF record[d] \in Abortable THEN "abort" ELSE "rollback"

-----------------------------------------------------------------------------
(* The web-host configuration. SOURCE_VERIFIED, FILES_PREPARED and the     *)
(* three validated states lie within the steps below.                      *)

\* A used id starts over: nothing of its record is read.
Install(p, h) == Starts(p, "host", h, "started", Blank)

\* mkdir fails where an earlier install of this id has come as far: the
\* process dies of it, and the lock stays.
MakeBackupDirectory(p) ==
    /\ Executes(p, "host", "LOCK_ACQUIRED")
    /\ at[p].of \notin made
    /\ made' = made \cup {at[p].of}
    /\ Goes(p, "host", "backing")
    /\ UNCHANGED <<saved, release, lock, links, files, refresh>>

BackUpFiles(p) ==
    /\ Executes(p, "host", "backing")
    /\ SaveState(p, "host", "BACKUPS_CREATED", [at[p].state EXCEPT !.backup = files])
    /\ UNCHANGED <<release, lock, links, host>>

ReplaceFiles(p, op, from, to, content) ==
    /\ Executes(p, op, from)
    /\ files' = content
    /\ Goes(p, op, to)
    /\ UNCHANGED <<saved, release, lock, links, made, refresh>>

\* A lock that has been lost fails the installer, which then restores, and
\* a restoring one, which gives up.
HostUnlock(p, op, done, next, status) ==
    /\ Executes(p, op, done)
    /\ IF lock = at[p].of THEN ReleaseLock(p, op, done) ELSE SaveStep(p, op, done, next, status)

\* Past its lock and before its backup, an install fails only on a malformed lock.
HostStep(p) ==
    \/ SaveStep(p, "host", "started", "host", "CREATED")
    \/ CreateLock(p, "host", "CREATED") \/ LockHeld(p, "host", "CREATED")
    \/ WriteLock(p, "host")
    \/ SaveStep(p, "host", "locked", "host", "LOCK_ACQUIRED")
    \/ MakeBackupDirectory(p) \/ BackUpFiles(p)
    \/ ReplaceFiles(p, "host", "BACKUPS_CREATED", "installing", Mixed)
    \/ ReplaceFiles(p, "host", "installing", "installed", at[p].of)
    \/ SaveStep(p, "host", "installed", "host", "FILES_INSTALLED")
    \/ SaveStep(p, "host", "FILES_INSTALLED", "host", "COMMITTED")
    \/ HostUnlock(p, "host", "COMMITTED", "restore", "ROLLBACK_STARTED")
    \/ \E s \in {"LOCK_ACQUIRED", "backing"} :
          (s = "backing" \/ lock = Unwritten) /\ SaveStep(p, "host", s, "host", "FAILED")
    \/ ReleaseLock(p, "host", "FAILED")
    \/ \E s \in {"BACKUPS_CREATED", "installing", "installed", "FILES_INSTALLED"} :
          SaveStep(p, "host", s, "restore", "ROLLBACK_STARTED")

\* rollback-web-host-config accepts every state.
HostRollback(p, h) ==
    /\ lock = h
    /\ Starts(p, "host_rollback", h, "requested", kept[h])

\* Without a backup in the record (an install that died, or a used id) the rollback dies on the way.
RestoreStep(p) ==
    \/ SaveStep(p, "host_rollback", "requested", "host_rollback", "ROLLBACK_STARTED")
    \/ Rejects(p, "host_rollback", "ROLLBACK_STARTED") /\ at[p].state.backup = Unwritten
    \/ \E op \in {"restore", "host_rollback"} :
          \/ /\ Executes(p, op, "ROLLBACK_STARTED")
             /\ at[p].state.backup # Unwritten
             /\ ReplaceFiles(p, op, "ROLLBACK_STARTED", "restoring", Mixed)
          \/ ReplaceFiles(p, op, "restoring", "restored", at[p].state.backup)
          \/ SaveStep(p, op, "restored", op, "ROLLED_BACK")
    \/ HostUnlock(p, "restore", "ROLLED_BACK", "none", "MANUAL_INTERVENTION_REQUIRED")
    \/ ReleaseLock(p, "host_rollback", "ROLLED_BACK")
    \/ SaveStep(p, "restore", "restored", "none", "MANUAL_INTERVENTION_REQUIRED")
    \/ Rejects(p, "host_rollback", "restored")

-----------------------------------------------------------------------------
Operator(p) ==
    \/ \E d \in Deployments :
          Begin(p, d) \/ Stage(p, d) \/ Abort(p, d) \/ Activate(p, d) \/ Rollback(p, d)
    \/ \E h \in HostChanges : Install(p, h) \/ HostRollback(p, h)

\* The process is killed: what it has written stays.
Crash(p) ==
    /\ at[p] # Idle
    /\ Stops(p)
    /\ refresh' = [refresh EXCEPT ![p] = FALSE]
    /\ UNCHANGED <<saved, release, lock, links, host>>

Next == \E p \in Helpers :
    \/ Operator(p)
    \/ RewriteLock(p) \/ BeginStep(p) \/ StageStep(p) \/ AbortStep(p)
    \/ ActivateStep(p) \/ UndoStep(p) \/ HostStep(p) \/ RestoreStep(p)
    \/ Crash(p)

Spec == Init /\ [][Next]_vars

-----------------------------------------------------------------------------
(* Properties.                                                             *)

\* Every variable holds values of its kind.
TypeOK ==
    /\ record \in [Transactions -> States] /\ kept \in [Transactions -> Contents]
    /\ staging \subseteq Deployments /\ promoted \subseteq Releases
    /\ lock \in Transactions \cup {Unwritten, None}
    /\ current \in Releases /\ {previous, running} \subseteq Releases \cup {None}
    /\ files \in HostChanges \cup {Mixed, None} /\ made \subseteq HostChanges
    /\ at \in [Helpers ->
         [op : Operations, of : Transactions \cup {None}, done : Steps, state : Contents]]
    /\ refresh \in [Helpers -> BOOLEAN] /\ overlaps \in 0 .. MaxOverlaps

\* The helper does not keep two processes off one transaction.  Once they have
\* met there, a save or a lock file written late can undo what the other did,
\* to any transaction: the properties hold until then.  README.md, "Known
\* disagreements", has the traces that break each of them.

Open ==
    (BeforeActivation \cup Eligible \cup {"ROLLBACK_STARTED", "BACKUPS_CREATED", "FILES_INSTALLED"})

\* Unless two operations have overlapped on a transaction, one between
\* LOCK_ACQUIRED and its end holds the lock, whatever was killed and whichever
\* id was used again: no other deployment or host change begins over an
\* unfinished one (begin, install, _lock, _release_lock).
OpenHoldsLock == overlaps = 0 => \A t \in Transactions : record[t] \in Open => lock = t

\* Unless operations have overlapped, a free lock means a sound server: the
\* service runs the release that the current link names, and the host files
\* are those of one host change. No order of failures, kills, aborts and
\* rollbacks frees it earlier (activate, rollback, abort, install).
FreeLockSound == overlaps = 0 /\ lock = None => running = current /\ files # Mixed

\* Unless operations have overlapped, a deployment is recorded COMPLETED only
\* while the service runs its release, with the current link on it and the
\* previous link on the one it replaced (activate, _validate_health).
CompletedRuns ==
    [][overlaps = 0 => \A d \in Deployments :
          record'[d] = "COMPLETED" /\ record[d] # "COMPLETED" =>
              /\ running = kept'[d].target /\ current = kept'[d].target
              /\ previous = kept'[d].prev]_vars

\* Unless operations have overlapped, the previous link, to which an operator
\* goes back, is only ever given the release that is current at that moment,
\* although begin reads the current link before it takes the lock.
PreviousWasCurrent == [][overlaps = 0 /\ previous' # previous => previous' = current]_vars

\* Unless operations have overlapped, no link moves and the service is not
\* restarted while the files of a host change are being replaced: host changes
\* and activations share the lock. The comment in Helper.dispatch says so of
\* every host change; overlapping operations break it.
HostChangesAlone == [][overlaps = 0 /\ files = Mixed => UNCHANGED links]_vars

-----------------------------------------------------------------------------
(* What the code does not keep: README.md, "Known disagreements".          *)

\* What recover advises for an interrupted deployment is an operation that
\* accepts the deployment.
AdviceAccepted ==
    \A d \in Deployments :
        lock = d /\ (\A p \in Helpers : at[p].of # d)
            => record[d] \in (IF Advice(d) = "abort" THEN Abortable ELSE Eligible)
=============================================================================
