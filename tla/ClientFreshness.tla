--------------------------- MODULE ClientFreshness ---------------------------
(***************************************************************************)
(* How a desktop client keeps the data it shows in step with the server:   *)
(* the change feed and data revision the server publishes with each commit *)
(* (write_services.audit_change, data_state), the status poller            *)
(* (QtDataFreshnessPoller), the freshness state machine                    *)
(* (DataFreshnessService), the refresh worker with its SyncCoordinator and *)
(* CacheRepository, and the window that ties them together.                *)
(*                                                                         *)
(* The window's slots run one at a time on the GUI thread; a status        *)
(* request and a load run on two worker threads, and the cache file is     *)
(* written by both the loader and the GUI thread.  The seven pages always  *)
(* receive the same revision together, so they are one page here.  The     *)
(* refresh that follows a write of this client (gateway.py) is left out:   *)
(* here the loader alone replaces the cached entities.                     *)
(***************************************************************************)
EXTENDS Integers, FiniteSets

CONSTANTS
    FedWrites,     \* transactions that add a change_feed row (the API's writes)
    UnfedWrites,   \* transactions that only advance the revision (imports)
    Automatic,     \* the setting refresh_when_data_changes is "automatic"
    MaxOpen,       \* bound: transactions in progress at once
    MaxFailures,   \* bound: failed status requests and loads
    MaxEdits,      \* bound: edits of the settings page
    MaxRestarts,   \* bound: restarts of the client
    MaxRestores,   \* bound: restores of the server's database
    None           \* no revision known

Writes == FedWrites \cup UnfedWrites

ASSUME WritesAssumption == FedWrites \cap UnfedWrites = {} /\ IsFiniteSet(Writes)
ASSUME BoundsAssumption ==
    /\ Automatic \in BOOLEAN
    /\ {MaxOpen, MaxFailures, MaxEdits, MaxRestarts, MaxRestores} \subseteq Nat
    /\ None \notin Nat

VARIABLES
    \* the server's database
    write,      \* state of each transaction
    feedId,     \* change_id of its change_feed row, 0 before it is flushed
    nextId,     \* the table's AUTO_INCREMENT counter
    revision,   \* data_state.current_revision
    overtaken,  \* history: writes committed after a write with a larger change_id
    \* the client's disk
    cache,      \* the SQLite cache: its entities, data_revision and cursor
    \* the client's worker threads
    poll,       \* the status request: idle, asked, answered or failed
    answer,     \* the revision it was answered
    load,       \* the refresh worker
    \* the client's GUI thread
    state,      \* DataFreshnessService.state
    current,    \* .current_revision
    pageRev,    \* displayed_revision of the pages
    stale,      \* whether the pages are marked stale
    shown,      \* the writes that the displayed bundle contains
    polling,    \* the setting automatic_polling_enabled
    timer,      \* whether the poller's timer is armed
    dirty,      \* whether the settings page holds unsaved edits
    retry,      \* whether a retry of a deferred refresh is queued
    spent       \* what is used up of each bound

server == <<write, feedId, nextId, revision, overtaken>>
page == <<pageRev, stale, shown>>
settings == <<polling, dirty, retry>>
vars == <<server, cache, poll, answer, load, state, current, page, timer, settings, spent>>

Committed == {w \in Writes : write[w] = "committed"}
Open == {w \in Writes : write[w] = "open"}
LastId(ids) == IF ids = {} THEN 0 ELSE CHOOSE i \in ids : \A j \in ids : j <= i
\* sync_status: the highest change_id a reader sees.
FeedCursor == LastId({feedId[w] : w \in Committed \cap FedWrites})
\* changes: the writes a client at this cursor is told of.
ChangesAfter(cursor) == {w \in Committed \cap FedWrites : feedId[w] > cursor}

\* taken only serves the properties: the restores done when the snapshot was
\* taken that the entities come from.
NoCache == [exists |-> FALSE, data |-> {}, rev |-> 0, cursor |-> 0, taken |-> 0]
\* A cache built before any of the writes.
OldCache == [NoCache EXCEPT !.exists = TRUE]
\* So do since and era: the writes committed and the restores done when the
\* load was started.
NoLoad == [phase |-> "idle", deep |-> FALSE, data |-> {}, rev |-> 0, cursor |-> 0, taken |-> 0,
           since |-> {}, era |-> 0]

PollingStates == {"waiting", "checking", "current", "update_available", "refreshing",
                  "paused_for_edit", "paused_for_operation", "offline_cached", "error", "disabled"}
Paused == {"paused_for_edit", "paused_for_operation"}
LoadPhases == {"idle", "changes", "snapshot", "replace", "entities", "revision",
               "loaded", "failed", "closing"}

\* Mutant of Started: a deep refresh is satisfied by the change feed.
StartedAlike(deep) ==
    [NoLoad EXCEPT !.phase = IF cache.exists THEN "changes" ELSE "snapshot",
                   !.deep = deep \/ ~cache.exists,
                   !.since = Committed, !.era = spent.restores]

\* The worker's first request: a deep refresh, and any refresh without a
\* cache, asks for a snapshot; the others ask for the changes.
Started(deep) ==
    [NoLoad EXCEPT !.phase = IF deep \/ ~cache.exists THEN "snapshot" ELSE "changes",
                   !.deep = deep \/ ~cache.exists,
                   !.since = Committed, !.era = spent.restores]

\* The window's constructor enables polling and starts a load.
Launched == IF polling THEN "waiting" ELSE "disabled"

Init ==
    /\ write = [w \in Writes |-> "new"]
    /\ feedId = [w \in Writes |-> 0]
    /\ nextId = 1
    /\ revision = 0
    /\ overtaken = {}
    /\ spent = [failures |-> 0, edits |-> 0, restarts |-> 0, restores |-> 0]
    /\ cache \in {NoCache, OldCache}
    /\ polling \in BOOLEAN
    /\ load = Started(FALSE)
    /\ poll = "idle" /\ answer = 0
    /\ state = Launched /\ timer = polling
    /\ current = None /\ pageRev = None
    /\ stale = FALSE /\ shown = {}
    /\ dirty = FALSE /\ retry = FALSE

Spend(what, bound) ==
    /\ spent[what] < bound
    /\ spent' = [spent EXCEPT ![what] = @ + 1]

-----------------------------------------------------------------------------
(* The server.                                                             *)

\* A write flushes its change_feed row: the id is taken here, and seen by
\* others only at the commit.
FlushWrite(w) ==
    /\ write[w] = "new"
    /\ Cardinality(Open) < MaxOpen
    /\ write' = [write EXCEPT ![w] = "open"]
    /\ IF w \in FedWrites
         THEN feedId' = [feedId EXCEPT ![w] = nextId] /\ nextId' = nextId + 1
         ELSE UNCHANGED <<feedId, nextId>>
    /\ UNCHANGED <<revision, overtaken, cache, poll, answer, load, state, current, page, timer,
                   settings, spent>>

\* before_commit advances the revision under its row's lock, in the same
\* transaction as the data.
CommitWrite(w) ==
    /\ write[w] = "open"
    /\ write' = [write EXCEPT ![w] = "committed"]
    /\ revision' = revision + 1
    /\ overtaken' = IF w \in FedWrites /\ ChangesAfter(feedId[w]) # {}
                    THEN overtaken \cup {w} ELSE overtaken
    /\ UNCHANGED <<feedId, nextId, cache, poll, answer, load, state, current, page, timer,
                   settings, spent>>

\* A rollback publishes neither the row nor a revision; its id stays used.
RollbackWrite(w) ==
    /\ write[w] = "open"
    /\ write' = [write EXCEPT ![w] = "undone"]
    /\ UNCHANGED <<feedId, nextId, revision, overtaken, cache, poll, answer, load, state, current, page,
                   timer, settings, spent>>

\* The database is restored from a backup older than every write.
Restore ==
    /\ Open = {} /\ Committed # {}
    /\ Spend("restores", MaxRestores)
    /\ write' = [w \in Writes |-> IF w \in Committed THEN "undone" ELSE write[w]]
    /\ nextId' = 1
    /\ revision' = 0
    /\ UNCHANGED <<feedId, overtaken, cache, poll, answer, load, state, current, page, timer, settings>>

-----------------------------------------------------------------------------
(* Status polls.                                                           *)

\* begin_check: one check at a time; _start_worker stops the timer.
StartCheck ==
    /\ poll = "idle"
    /\ poll' = "asked"
    /\ state' = "checking"
    /\ timer' = FALSE
    /\ UNCHANGED <<server, cache, answer, load, current, page, settings, spent>>

\* The timer fires (during a check it is just armed again).
ScheduledCheck == timer /\ StartCheck

\* Check data connection: a manual check, also when polling is disabled.
\* A window that is restored starts the same check when polling is enabled.
CheckNow == StartCheck

AnswerPoll ==
    /\ poll = "asked"
    /\ poll' = "answered"
    /\ answer' = revision
    /\ UNCHANGED <<server, cache, load, state, current, page, timer, settings, spent>>

FailPoll ==
    /\ poll = "asked"
    /\ Spend("failures", MaxFailures)
    /\ poll' = "failed"
    /\ UNCHANGED <<server, cache, answer, load, state, current, page, timer, settings>>

-----------------------------------------------------------------------------
(* Refreshes, from the GUI thread.                                         *)

\* _freshness_refresh_block_reason (with pause_refresh_while_editing on, its
\* default): a load that is running, then an edit.
Blocked == load.phase # "idle" \/ dirty
PausedFor == IF load.phase # "idle" THEN "paused_for_operation" ELSE "paused_for_edit"

\* A refresh the user asks for; deep: the Deep Refresh action.
RefreshNow(deep) ==
    /\ load.phase = "idle"
    /\ load' = Started(deep)
    /\ UNCHANGED <<server, cache, poll, answer, state, current, page, timer, settings, spent>>

\* How the window takes a poll's transition.  "initial" and "unchanged" end
\* here; a decrease reloads whatever the setting says.
TakeTransition(refresh) ==
    IF refresh /\ ~Blocked
      THEN state' = "refreshing" /\ load' = Started(FALSE)
      ELSE /\ state' = IF refresh THEN PausedFor ELSE "update_available"
           /\ UNCHANGED load

Registered == pageRev # None
Settled == IF polling THEN "current" ELSE "disabled"

\* Mutant of MarkStale: pages are marked at the first answer only.
MarkStaleOnce(rev) ==
    stale' = IF current = None THEN Registered /\ pageRev # rev ELSE stale

\* receive_status on the pages: forced when the revision went down.
MarkStale(rev) ==
    stale' = CASE current = rev -> stale
               [] current # None /\ rev < current -> Registered
               [] OTHER -> Registered /\ pageRev # rev

\* Mutant of ScheduleNext: nothing is scheduled after a failure.
ScheduleNextUnlessFailed == timer' = (polling /\ poll # "failed")

ScheduleNext == timer' = polling

\* _poll_succeeded: receive_status, the diagnostics written to the cache
\* file, the window's reaction and the next poll's timer.
PollSucceeded ==
    /\ poll = "answered"
    /\ poll' = "idle" /\ answer' = 0
    /\ current' = answer
    /\ MarkStale(answer)
    /\ cache' = IF cache.exists THEN [cache EXCEPT !.rev = answer] ELSE cache
    /\ IF current \in {None, answer}
         THEN /\ state' = IF current = answer /\ stale THEN "update_available" ELSE Settled
              /\ UNCHANGED load
         ELSE TakeTransition(Automatic \/ answer < current)
    /\ ScheduleNext
    /\ UNCHANGED <<server, pageRev, shown, settings, spent>>

PollFailed ==
    /\ poll = "failed"
    /\ poll' = "idle"
    /\ state' = IF current = None THEN "error" ELSE "offline_cached"
    /\ ScheduleNext
    /\ UNCHANGED <<server, cache, answer, load, current, page, settings, spent>>

-----------------------------------------------------------------------------
(* The refresh worker (SyncCoordinator, CacheRepository, load_bundle).     *)

LoaderStep(from, next) ==
    /\ load.phase = from
    /\ load' = next
    /\ UNCHANGED <<server, poll, answer, state, current, page, timer, settings, spent>>

\* Mutant of AskChanges: the refresh does not look at what it is told.
AskChangesOnly ==
    LoaderStep("changes", [load EXCEPT !.phase = "entities"]) /\ UNCHANGED cache

\* standard_refresh: changes after the cached cursor lead to a snapshot; with
\* none the cached entities are kept.
AskChanges ==
    /\ LoaderStep("changes",
         [load EXCEPT !.phase = IF ChangesAfter(cache.cursor) = {} THEN "entities" ELSE "snapshot"])
    /\ UNCHANGED cache

\* snapshot: entities, revision and cursor from one transaction's snapshot.
TakeSnapshot ==
    /\ LoaderStep("snapshot", [load EXCEPT !.phase = "replace", !.data = Committed,
                                           !.rev = revision, !.cursor = FeedCursor,
                                           !.taken = spent.restores])
    /\ UNCHANGED cache

\* Mutant of ReplaceCache: the next id, not the last seen, is the cursor.
ReplaceCacheCursorAhead ==
    /\ LoaderStep("replace", [load EXCEPT !.phase = "entities"])
    /\ cache' = [exists |-> TRUE, data |-> load.data, rev |-> load.rev, cursor |-> load.cursor + 1,
                 taken |-> load.taken]

\* build_snapshot, validate and replace_with: the built cache takes over.
ReplaceCache ==
    /\ LoaderStep("replace", [load EXCEPT !.phase = "entities"])
    /\ cache' = [exists |-> TRUE, data |-> load.data, rev |-> load.rev, cursor |-> load.cursor,
                 taken |-> load.taken]

\* load_bundle reads the entities, and the revision after them.
ReadEntities ==
    /\ LoaderStep("entities", [load EXCEPT !.phase = "revision", !.data = cache.data,
                                           !.taken = cache.taken])
    /\ UNCHANGED cache

ReadRevision ==
    LoaderStep("revision", [load EXCEPT !.phase = "loaded", !.rev = cache.rev]) /\ UNCHANGED cache

\* A request fails, or the new cache cannot be built or put in place; then
\* the previous cache is kept.
FailLoad ==
    /\ load.phase \in {"changes", "snapshot", "replace"}
    /\ Spend("failures", MaxFailures)
    /\ load' = [load EXCEPT !.phase = "failed"]
    /\ UNCHANGED <<server, cache, poll, answer, state, current, page, timer, settings>>

\* _data_loaded: the bundle is shown and its revision registered; pages at
\* the current revision finish the refresh.
DataLoaded ==
    /\ load.phase = "loaded"
    /\ load' = [load EXCEPT !.phase = "closing"]
    /\ shown' = load.data
    /\ pageRev' = load.rev
    /\ current' = IF current = None THEN load.rev ELSE current
    /\ stale' = (load.rev # current')
    /\ state' = IF stale' THEN state ELSE "current"
    /\ UNCHANGED <<server, cache, poll, answer, timer, settings, spent>>

\* _data_failed: the bundle shown before stays.
DataFailed ==
    /\ load.phase = "failed"
    /\ load' = [load EXCEPT !.phase = "closing"]
    /\ state' = IF state = "refreshing" THEN "update_available" ELSE state
    /\ UNCHANGED <<server, cache, poll, answer, current, page, timer, settings, spent>>

\* _clear_worker_refs, once the worker's thread has ended.
ClearWorkerRefs ==
    /\ load.phase = "closing"
    /\ load' = NoLoad
    /\ UNCHANGED <<server, cache, poll, answer, state, current, page, timer, settings, spent>>

-----------------------------------------------------------------------------
(* Edits of the settings page, and restarts.                               *)

StartEdit ==
    /\ ~dirty
    /\ Spend("edits", MaxEdits)
    /\ dirty' = TRUE
    /\ UNCHANGED <<server, cache, poll, answer, load, state, current, page, polling, timer, retry>>

\* Mutant of Reconfigure: the timer is only stopped.
ReconfigureStopped == timer' = FALSE

\* reconfigure: the timer is stopped, and started if polling is enabled.
Reconfigure == timer' = polling'

\* Saving applies the settings (configure, then reconfigure) and queues the
\* retry.
SaveEdit ==
    /\ dirty
    /\ dirty' = FALSE
    /\ retry' = TRUE
    /\ polling' \in BOOLEAN
    /\ state' = CASE ~polling' -> "disabled"
                  [] polling' /\ state = "disabled" -> "waiting"
                  [] OTHER -> state
    /\ Reconfigure
    /\ UNCHANGED <<server, cache, poll, answer, load, current, page, spent>>

DiscardEdit ==
    /\ dirty
    /\ dirty' = FALSE
    /\ retry' = TRUE
    /\ UNCHANGED <<server, cache, poll, answer, load, state, current, page, polling, timer, spent>>

\* _retry_deferred_freshness_refresh: only a refresh that is still paused.
RetryDeferred ==
    /\ retry
    /\ retry' = FALSE
    /\ IF stale /\ ~Blocked /\ state \in Paused
         THEN state' = "refreshing" /\ load' = Started(FALSE)
         ELSE UNCHANGED <<state, load>>
    /\ UNCHANGED <<server, cache, poll, answer, current, page, polling, timer, dirty, spent>>

\* The client ends and is started again; only the cache and the saved
\* settings survive.
Restart ==
    /\ Spend("restarts", MaxRestarts)
    /\ load' = Started(FALSE)
    /\ poll' = "idle" /\ answer' = 0
    /\ state' = Launched /\ timer' = polling
    /\ current' = None /\ pageRev' = None
    /\ stale' = FALSE /\ shown' = {}
    /\ dirty' = FALSE /\ retry' = FALSE
    /\ UNCHANGED <<server, cache, polling>>

-----------------------------------------------------------------------------
Server == \E w \in Writes : FlushWrite(w) \/ CommitWrite(w) \/ RollbackWrite(w)

Loader == AskChanges \/ TakeSnapshot \/ ReplaceCache \/ ReadEntities \/ ReadRevision

Gui == \/ ScheduledCheck \/ PollSucceeded \/ PollFailed
       \/ DataLoaded \/ DataFailed \/ ClearWorkerRefs \/ RetryDeferred

User == \/ CheckNow
        \/ \E deep \in BOOLEAN : RefreshNow(deep)
        \/ StartEdit \/ SaveEdit \/ DiscardEdit

Next ==
    \/ Server \/ Restore
    \/ AnswerPoll \/ FailPoll
    \/ Loader \/ FailLoad
    \/ Gui \/ User \/ Restart

Spec == Init /\ [][Next]_vars

\* The event loop delivers timers and signals and the workers go on; the
\* window is not kept minimized with polling while minimized turned off.
\* Nothing is assumed of the user's clicks, the writers or the failures.
Fairness ==
    /\ WF_vars(ScheduledCheck) /\ WF_vars(AnswerPoll)
    /\ WF_vars(PollSucceeded) /\ WF_vars(PollFailed)
    /\ WF_vars(Loader) /\ WF_vars(DataLoaded) /\ WF_vars(DataFailed)
    /\ WF_vars(ClearWorkerRefs) /\ WF_vars(RetryDeferred)
FairSpec == Spec /\ Fairness

-----------------------------------------------------------------------------
(* Properties.                                                             *)

Revisions == 0 .. Cardinality(Writes)
Cursors == 0 .. Cardinality(FedWrites)

\* Every variable holds a value the code could store there.
TypeOK ==
    /\ write \in [Writes -> {"new", "open", "committed", "undone"}]
    /\ feedId \in [Writes -> Cursors]
    /\ nextId \in 1 .. Cardinality(FedWrites) + 1
    /\ revision \in Revisions
    /\ overtaken \subseteq FedWrites
    /\ cache \in [exists : BOOLEAN, data : SUBSET Writes, rev : Revisions, cursor : Cursors, taken : Nat]
    /\ poll \in {"idle", "asked", "answered", "failed"}
    /\ answer \in Revisions
    /\ load \in [phase : LoadPhases, deep : BOOLEAN, data : SUBSET Writes, rev : Revisions,
                 cursor : Cursors, taken : Nat, since : SUBSET Writes, era : Nat]
    /\ state \in PollingStates
    /\ {current, pageRev} \subseteq Revisions \cup {None}
    /\ shown \subseteq Writes
    /\ {stale, polling, timer, dirty, retry} \subseteq BOOLEAN
    /\ spent \in [{"failures", "edits", "restarts", "restores"} -> Nat]

\* While polling is enabled the poller never falls asleep: a timer is armed
\* or a status request is on its way, whatever manual checks, failures,
\* saved settings and late answers do to the timer.
PollerAwake == polling => timer \/ poll # "idle"

\* A page that is not marked stale displays the current revision, although
\* the mark is set by polls and cleared by loads that end in any order.
UnstaleMeansCurrent == (Registered /\ ~stale) => pageRev = current

\* The writes the feed tells a client of: an import adds no row, and a write
\* that was overtaken may be behind a cursor that was read before it.
Told(writes) == (writes \cap FedWrites) \ overtaken

\* The cache holds every write up to its cursor, so a refresh that is told of
\* no change may keep it.  Not so a write that was overtaken, nor a cursor
\* from before a restore, when change_ids begin anew.
CursorCovers ==
    \A w \in Told(Committed) :
       (cache.exists /\ cache.taken = spent.restores /\ feedId[w] <= cache.cursor) => w \in cache.data

\* What a refresh shows includes every write that was committed when it was
\* started, although it may have kept the cached entities; except imports,
\* overtaken writes, and everything when a restore has come between the
\* snapshot it shows, or its start, and its end.  The cache's documentation
\* makes none of these exceptions: README.md, "Known disagreements".
RefreshIsFresh ==
    [][(load.phase = "loaded" /\ load'.phase = "closing"
          /\ load.era = spent.restores /\ load.taken = spent.restores)
         => Told(load.since) \subseteq shown']_vars

\* A deep refresh shows every write committed when it was started, imports and
\* overtaken writes too, however writes, polls and failures interleave; only a
\* restore between its start and its end is excepted.
DeepRefreshIsFresh ==
    [][(load.phase = "loaded" /\ load'.phase = "closing" /\ load.deep
          /\ load.era = spent.restores)
         => load.since \subseteq shown']_vars

\* While polling stays enabled the client learns of the server's revision:
\* once writes, restores and failures come to an end, so does its ignorance.
RevisionNoticed == <>[](polling => current = revision)

-----------------------------------------------------------------------------
(* What the code does not keep: README.md, "Known disagreements".          *)

\* A displayed revision is the one its data had: revisions count commits, so
\* a page at revision n shows n writes (with no restore).
PageRevisionTruthful == Registered => Cardinality(shown) = pageRev

\* A refresh with no restore of the server in its course, that ends at the
\* server's revision and is called current, shows no write a restore undid.
RestoredDataReloaded ==
    [][(load.phase = "loaded" /\ load'.phase = "closing" /\ load.era = spent.restores
          /\ state' = "current" /\ current' = revision)
         => shown' \subseteq Committed]_vars

\* With polling left on, a refresh deferred for an edit takes place once
\* the edit is resolved.
DeferredRefreshRuns ==
    []polling => ((state = "paused_for_edit" /\ stale) ~> (~stale \/ []dirty))
=============================================================================
