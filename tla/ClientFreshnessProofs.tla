------------------------ MODULE ClientFreshnessProofs ------------------------
(***************************************************************************)
(* What holds of the client however many writes, restores, failures, edits *)
(* and restarts there are, and whichever setting the user chose: that the  *)
(* poller stays awake, what an unmarked page displays, and what a refresh  *)
(* shows of the writes that preceded it.                                   *)
(*                                                                         *)
(* A deep refresh needs only what its own load has read so far (DeepInv).  *)
(* A standard refresh relies on the feed to announce what the cached       *)
(* entities lack (Covers): a cursor is the change_id of a committed write  *)
(* (Order), so a write that commits later is behind it only if it was      *)
(* overtaken.                                                              *)
(***************************************************************************)
EXTENDS ClientFreshness, FiniteSetTheorems, WellFoundedInduction, TLAPS

AwakeInv == polling \in BOOLEAN /\ timer \in BOOLEAN /\ PollerAwake

\* The poller never falls asleep while polling is enabled: manual checks,
\* failed requests, saved settings and restarts all leave a timer armed or
\* a request on its way.
THEOREM PollerStaysAwake == Spec => []PollerAwake
<1>1. Init => AwakeInv
  BY DEF Init, AwakeInv, PollerAwake
<1>2. AwakeInv /\ [Next]_vars => AwakeInv'
  <2> SUFFICES ASSUME AwakeInv, [Next]_vars
               PROVE  AwakeInv'
    OBVIOUS
  <2> USE DEF AwakeInv, PollerAwake, settings
  <2>1. CASE Server
    BY <2>1 DEF Server, FlushWrite, CommitWrite, RollbackWrite
  <2>2. CASE Restore
    BY <2>2 DEF Restore
  <2>3. CASE AnswerPoll \/ FailPoll
    BY <2>3 DEF AnswerPoll, FailPoll
  <2>4. CASE Loader \/ FailLoad
    BY <2>4 DEF Loader, FailLoad, LoaderStep, AskChanges, TakeSnapshot, ReplaceCache,
                ReadEntities, ReadRevision
  <2>5. CASE Gui
    <3>1. CASE ScheduledCheck
      BY <3>1 DEF ScheduledCheck, StartCheck
    <3>2. CASE PollSucceeded \/ PollFailed
      BY <3>2 DEF PollSucceeded, PollFailed, ScheduleNext
    <3>3. CASE DataLoaded
      BY <3>3 DEF DataLoaded
    <3>4. CASE DataFailed \/ ClearWorkerRefs
      BY <3>4 DEF DataFailed, ClearWorkerRefs
    <3>5. CASE RetryDeferred
      BY <3>5 DEF RetryDeferred
    <3> QED
      BY <2>5, <3>1, <3>2, <3>3, <3>4, <3>5 DEF Gui
  <2>6. CASE User
    <3>1. CASE CheckNow
      BY <3>1 DEF CheckNow, StartCheck
    <3>2. CASE \E deep \in BOOLEAN : RefreshNow(deep)
      BY <3>2 DEF RefreshNow
    <3>3. CASE StartEdit \/ SaveEdit \/ DiscardEdit
      BY <3>3 DEF StartEdit, SaveEdit, DiscardEdit, Reconfigure
    <3> QED
      BY <2>6, <3>1, <3>2, <3>3 DEF User
  <2>7. CASE Restart
    BY <2>7 DEF Restart
  <2>8. CASE UNCHANGED vars
    BY <2>8 DEF vars
  <2> QED
    BY <2>1, <2>2, <2>3, <2>4, <2>5, <2>6, <2>7, <2>8 DEF Next
<1>3. AwakeInv => PollerAwake
  BY DEF AwakeInv
<1> QED
  BY <1>1, <1>2, <1>3, PTL DEF Spec

\* A page that is not marked stale displays the revision last seen: polls
\* that move the revision mark it, also when the revision goes down, and
\* loads clear the mark only by displaying that revision.
THEOREM UnstalePagesAreCurrent == Spec => []UnstaleMeansCurrent
<1>1. Init => UnstaleMeansCurrent
  BY DEF Init, UnstaleMeansCurrent, Registered
<1>2. UnstaleMeansCurrent /\ [Next]_vars => UnstaleMeansCurrent'
  <2> SUFFICES ASSUME UnstaleMeansCurrent, [Next]_vars
               PROVE  UnstaleMeansCurrent'
    OBVIOUS
  <2> USE DEF UnstaleMeansCurrent, Registered, page
  <2>1. CASE Server
    BY <2>1 DEF Server, FlushWrite, CommitWrite, RollbackWrite
  <2>2. CASE Restore
    BY <2>2 DEF Restore
  <2>3. CASE AnswerPoll \/ FailPoll
    BY <2>3 DEF AnswerPoll, FailPoll
  <2>4. CASE Loader \/ FailLoad
    BY <2>4 DEF Loader, FailLoad, LoaderStep, AskChanges, TakeSnapshot, ReplaceCache,
                ReadEntities, ReadRevision
  <2>5. CASE Gui
    <3>1. CASE ScheduledCheck
      BY <3>1 DEF ScheduledCheck, StartCheck
    <3>2. CASE PollSucceeded
      <4>1. current' = answer /\ MarkStale(answer) /\ UNCHANGED pageRev
        BY <3>2 DEF PollSucceeded
      <4>2. CASE current = answer
        BY <4>1, <4>2 DEF MarkStale
      <4>3. CASE current # answer /\ current # None /\ answer < current
        BY <4>1, <4>3 DEF MarkStale
      <4>4. CASE current # answer /\ ~(current # None /\ answer < current)
        BY <4>1, <4>4 DEF MarkStale
      <4> QED
        BY <4>2, <4>3, <4>4
    <3>3. CASE PollFailed
      BY <3>3 DEF PollFailed
    <3>4. CASE DataLoaded
      BY <3>4 DEF DataLoaded
    <3>5. CASE DataFailed \/ ClearWorkerRefs \/ RetryDeferred
      BY <3>5 DEF DataFailed, ClearWorkerRefs, RetryDeferred
    <3> QED
      BY <2>5, <3>1, <3>2, <3>3, <3>4, <3>5 DEF Gui
  <2>6. CASE User
    <3>1. CASE CheckNow
      BY <3>1 DEF CheckNow, StartCheck
    <3>2. CASE \E deep \in BOOLEAN : RefreshNow(deep)
      BY <3>2 DEF RefreshNow
    <3>3. CASE StartEdit \/ SaveEdit \/ DiscardEdit
      BY <3>3 DEF StartEdit, SaveEdit, DiscardEdit
    <3> QED
      BY <2>6, <3>1, <3>2, <3>3 DEF User
  <2>7. CASE Restart
    BY <2>7 DEF Restart
  <2>8. CASE UNCHANGED vars
    BY <2>8 DEF vars
  <2> QED
    BY <2>1, <2>2, <2>3, <2>4, <2>5, <2>6, <2>7, <2>8 DEF Next
<1> QED
  BY <1>1, <1>2, PTL DEF Spec

(***************************************************************************)
(* What a refresh shows.  A write that a load must show is first in the     *)
(* database, then in the snapshot, then in the cache and then in the        *)
(* bundle; nothing but a restore takes it away in between.  A refresh that  *)
(* keeps the cached entities relies on the cursor, which only an overtaken   *)
(* write can be behind without being in the entities.                       *)
(***************************************************************************)
Steps == {"failures", "edits", "restarts", "restores"}

CacheType == [exists: BOOLEAN, data: SUBSET Writes, rev: Nat, cursor: Nat, taken: Nat]
LoadType == [phase: LoadPhases, deep: BOOLEAN, data: SUBSET Writes, rev: Nat, cursor: Nat,
             taken: Nat, since: SUBSET Writes, era: Nat]

\* The types, without the bounds of TypeOK: a write that is open or committed
\* has a change_id that the counter has passed.
Typed ==
    /\ write \in [Writes -> {"new", "open", "committed", "undone"}]
    /\ feedId \in [Writes -> Nat]
    /\ nextId \in Nat \ {0}
    /\ revision \in Nat /\ answer \in Nat
    /\ cache \in CacheType
    /\ load \in LoadType
    /\ spent \in [Steps -> Nat]
    /\ \A w \in FedWrites : write[w] \in {"open", "committed"} => 0 < feedId[w] /\ feedId[w] < nextId

\* Where the writes are that a load must show, in each of its phases.
Seen ==
    /\ load.phase \in {"changes", "snapshot"} => load.since \subseteq Committed
    /\ load.phase \in {"replace", "revision", "loaded"} => load.since \subseteq load.data
    /\ load.phase = "entities" => load.since \subseteq cache.data

\* A deep load does not ask for changes, and is as good as no restore meets it.
DeepInv ==
    /\ Typed
    /\ load.era <= spent["restores"]
    /\ load.deep => load.phase # "changes"
    /\ load.deep /\ load.era = spent["restores"] => Seen

\* The change_ids in the feed, or on their way into it, are distinct, and a
\* cursor of this era is the start or the change_id of a committed write.
Drawn == {w \in FedWrites : write[w] \in {"open", "committed"}}
CacheReached == cache.cursor = 0 \/ \E v \in Committed \cap FedWrites : feedId[v] = cache.cursor
LoadReached == load.cursor = 0 \/ \E v \in Committed \cap FedWrites : feedId[v] = load.cursor
Order ==
    /\ \A v, w \in Drawn : feedId[v] = feedId[w] => v = w
    /\ cache.taken <= spent["restores"] /\ load.taken <= spent["restores"]
    /\ cache.taken = spent["restores"] => CacheReached
    /\ load.phase = "replace" /\ load.taken = spent["restores"] => LoadReached

\* What a snapshot brings holds every write up to its cursor, as the cache does.
Covers ==
    /\ CursorCovers
    /\ load.phase = "replace" /\ load.taken = spent["restores"] =>
          \A w \in Told(Committed) : feedId[w] <= load.cursor => w \in load.data

FeedInv == Typed /\ Order /\ Covers /\ (load.phase = "changes" => cache.exists)

\* Where the writes are that a load is told of, in each of its phases.
SeenTold ==
    /\ load.phase \in {"changes", "snapshot"} => load.since \subseteq Committed
    /\ load.phase = "replace" => load.since \subseteq load.data
    /\ load.phase = "entities" /\ cache.taken = spent["restores"] => Told(load.since) \subseteq cache.data
    /\ load.phase \in {"revision", "loaded"} /\ load.taken = spent["restores"]
         => Told(load.since) \subseteq load.data

FreshInv ==
    /\ FeedInv
    /\ load.era <= spent["restores"]
    /\ load.era = spent["restores"] => SeenTold

\* What a bounded set of change_ids gives as its last one.
LEMMA LastIdBound ==
  ASSUME NEW ids \in SUBSET Nat, NEW n \in Nat, \A i \in ids : i < n
  PROVE  /\ LastId(ids) \in Nat
         /\ \A i \in ids : i <= LastId(ids)
         /\ ids # {} => LastId(ids) \in ids
<1>1. CASE ids = {}
  BY <1>1 DEF LastId
<1>2. CASE ids # {}
  <2> DEFINE T == {k \in Nat : \A i \in ids : i <= k}
  <2>1. n \in T
    OBVIOUS
  <2>2. PICK k \in T : \A j \in T : ~(<<j, k>> \in OpToRel(<, Nat))
    <3>1. T \subseteq Nat /\ T # {}
      BY <2>1
    <3> HIDE DEF T
    <3>2. QED
      BY <3>1, NatLessThanWellFounded, WFMin, Zenon
  <2>3. \A j \in T : ~(j < k)
    BY <2>2 DEF OpToRel
  <2>4. k \in ids
    <3>1. SUFFICES ASSUME k \notin ids
                   PROVE  FALSE
      OBVIOUS
    <3>2. \A i \in ids : i < k
      BY <3>1
    <3>3. k # 0
      <4>1. PICK i \in ids : TRUE
        BY <1>2
      <4>2. i \in Nat /\ i < k
        BY <3>2, <4>1
      <4>3. QED
        BY <4>2
    <3>4. k - 1 \in T
      BY <3>2, <3>3
    <3>5. QED
      BY <2>3, <3>4
  <2>5. LastId(ids) = CHOOSE i \in ids : \A j \in ids : j <= i
    BY <1>2 DEF LastId
  <2>6. LastId(ids) \in ids /\ \A j \in ids : j <= LastId(ids)
    BY <2>4, <2>5
  <2>7. QED
    BY <2>6
<1>3. QED
  BY <1>1, <1>2

LEMMA CursorType ==
  ASSUME Typed
  PROVE  /\ FeedCursor \in Nat /\ FeedCursor < nextId
         /\ \A w \in Committed \cap FedWrites : feedId[w] <= FeedCursor
         /\ FeedCursor = 0 \/ \E w \in Committed \cap FedWrites : FeedCursor = feedId[w]
<1> DEFINE ids == {feedId[w] : w \in Committed \cap FedWrites}
<1>1. \A w \in Committed \cap FedWrites : feedId[w] \in Nat /\ feedId[w] < nextId
  BY DEF Typed, Committed, Writes
<1>2. ids \in SUBSET Nat /\ (\A i \in ids : i < nextId) /\ nextId \in Nat /\ 0 < nextId
  BY <1>1 DEF Typed
<1>3. LastId(ids) \in Nat /\ (\A i \in ids : i <= LastId(ids)) /\ (ids # {} => LastId(ids) \in ids)
  <2> HIDE DEF ids
  <2>1. QED
    BY <1>2, LastIdBound
<1>4. FeedCursor = LastId(ids)
  BY DEF FeedCursor
<1>5. ids = {} => LastId(ids) = 0
  BY DEF LastId
<1>6. CASE ids = {}
  BY <1>2, <1>3, <1>4, <1>5, <1>6
<1>7. CASE ids # {}
  BY <1>2, <1>3, <1>4, <1>7
<1>8. QED
  BY <1>6, <1>7

(***************************************************************************)
(* What each step does to the writes, the cache and the load.               *)
(***************************************************************************)
\* The cached entities and their cursor stay; a poll may write its revision.
SameEntities ==
    /\ cache' \in CacheType
    /\ cache'.exists = cache.exists /\ cache'.data = cache.data /\ cache'.cursor = cache.cursor
    /\ cache'.taken = cache.taken

SameServer == UNCHANGED <<write, feedId, nextId, revision, overtaken>>
SameRestores == spent'["restores"] = spent["restores"]

\* A step of the database, by a write.
Writing == SameEntities /\ load' = load /\ spent' = spent /\ answer' = answer /\ Server

\* A step that leaves the load alone, or starts one.
Starting == \E deep \in BOOLEAN : load' = Started(deep)
Beside == SameServer /\ SameEntities /\ SameRestores /\ (load' = load \/ Starting)

\* A step that moves the load to its next phase.
Moving(next) ==
    /\ SameServer /\ SameEntities /\ SameRestores
    /\ load' = [load EXCEPT !.phase = next]

LEMMA SpendEffect ==
  ASSUME Typed, NEW what \in Steps, NEW bound, Spend(what, bound)
  PROVE  /\ spent' \in [Steps -> Nat]
         /\ \A s \in Steps : s # what => spent'[s] = spent[s]
         /\ spent'[what] = spent[what] + 1
BY DEF Spend, Typed

LEMMA StepCases ==
  ASSUME Typed, Next
  PROVE  /\ spent' \in [Steps -> Nat]
         /\ \/ Writing
            \/ Restore /\ SameEntities
            \/ Beside /\ (answer' \in {answer, revision, 0})
            \/ AskChanges /\ SameEntities /\ SameServer /\ SameRestores /\ answer' = answer
            \/ TakeSnapshot /\ SameEntities /\ SameServer /\ SameRestores /\ answer' = answer
            \/ ReplaceCache /\ SameServer /\ SameRestores /\ answer' = answer
            \/ ReadEntities /\ SameEntities /\ SameServer /\ SameRestores /\ answer' = answer
            \/ ReadRevision /\ SameEntities /\ SameServer /\ SameRestores /\ answer' = answer
            \/ FailLoad /\ Moving("failed") /\ answer' = answer
            \/ DataLoaded /\ Moving("closing") /\ answer' = answer
            \/ DataFailed /\ Moving("closing") /\ answer' = answer
            \/ ClearWorkerRefs /\ SameServer /\ SameEntities /\ SameRestores /\ answer' = answer
<1>1. cache \in CacheType /\ spent \in [Steps -> Nat]
  BY DEF Typed
<1>2. cache' = cache => SameEntities
  BY <1>1 DEF SameEntities
<1>3. spent' = spent => spent' \in [Steps -> Nat] /\ SameRestores
  BY <1>1 DEF SameRestores
<1>4. \A bound : /\ Spend("failures", bound) => spent' \in [Steps -> Nat] /\ SameRestores
                 /\ Spend("edits", bound) => spent' \in [Steps -> Nat] /\ SameRestores
                 /\ Spend("restarts", bound) => spent' \in [Steps -> Nat] /\ SameRestores
                 /\ Spend("restores", bound) => spent' \in [Steps -> Nat]
  BY SpendEffect DEF Steps, SameRestores
<1>5. CASE Server
  <2>1. UNCHANGED <<cache, load, spent, answer>>
    BY <1>5 DEF Server, FlushWrite, CommitWrite, RollbackWrite
  <2>2. QED
    BY <1>2, <1>3, <1>5, <2>1 DEF Writing
<1>6. CASE Restore
  <2>1. cache' = cache /\ Spend("restores", MaxRestores)
    BY <1>6 DEF Restore
  <2>2. QED
    BY <1>2, <1>4, <1>6, <2>1
<1>7. CASE AnswerPoll
  BY <1>2, <1>3, <1>7 DEF AnswerPoll, Beside, SameServer, server
<1>8. CASE FailPoll
  BY <1>2, <1>4, <1>8 DEF FailPoll, Beside, SameServer, server
<1>9. CASE Loader
  <2>1. SameServer /\ spent' = spent /\ answer' = answer
    BY <1>9 DEF Loader, AskChanges, TakeSnapshot, ReplaceCache, ReadEntities, ReadRevision,
       LoaderStep, SameServer, server
  <2>2. ReplaceCache \/ cache' = cache
    BY <1>9 DEF Loader, AskChanges, TakeSnapshot, ReadEntities, ReadRevision
  <2>3. QED
    BY <1>2, <1>3, <1>9, <2>1, <2>2 DEF Loader
<1>10. CASE FailLoad
  BY <1>2, <1>4, <1>10 DEF FailLoad, Moving, SameServer, server
<1>11. CASE ScheduledCheck \/ CheckNow
  <2>1. SameServer /\ UNCHANGED <<cache, load, spent, answer>>
    BY <1>11 DEF ScheduledCheck, CheckNow, StartCheck, SameServer, server
  <2>2. QED
    BY <1>2, <1>3, <2>1 DEF Beside
<1>12. CASE PollSucceeded
  <2>1. SameServer /\ spent' = spent /\ answer' = 0
        /\ cache' = IF cache.exists THEN [cache EXCEPT !.rev = answer] ELSE cache
    BY <1>12 DEF PollSucceeded, SameServer, server
  <2>2. load' = load \/ load' = Started(FALSE)
    BY <1>12 DEF PollSucceeded, TakeTransition
  <2>3. answer \in Nat
    BY DEF Typed
  <2>4. SameEntities
    BY <1>1, <2>1, <2>3 DEF SameEntities, CacheType
  <2>5. QED
    BY <1>3, <2>1, <2>2, <2>4 DEF Beside, Starting
<1>13. CASE PollFailed
  BY <1>2, <1>3, <1>13 DEF PollFailed, Beside, SameServer, server
<1>14. CASE DataLoaded
  BY <1>2, <1>3, <1>14 DEF DataLoaded, Moving, SameServer, server
<1>15. CASE DataFailed
  BY <1>2, <1>3, <1>15 DEF DataFailed, Moving, SameServer, server
<1>16. CASE ClearWorkerRefs
  BY <1>2, <1>3, <1>16 DEF ClearWorkerRefs, SameServer, server
<1>17. CASE RetryDeferred
  <2>1. SameServer /\ UNCHANGED <<cache, spent, answer>>
    BY <1>17 DEF RetryDeferred, SameServer, server
  <2>2. load' = load \/ load' = Started(FALSE)
    BY <1>17 DEF RetryDeferred
  <2>3. QED
    BY <1>2, <1>3, <2>1, <2>2 DEF Beside, Starting
<1>18. CASE \E deep \in BOOLEAN : RefreshNow(deep)
  <2>1. SameServer /\ UNCHANGED <<cache, spent, answer>> /\ Starting
    BY <1>18 DEF RefreshNow, SameServer, server, Starting
  <2>2. QED
    BY <1>2, <1>3, <2>1 DEF Beside
<1>19. CASE StartEdit
  BY <1>2, <1>4, <1>19 DEF StartEdit, Beside, SameServer, server
<1>20. CASE SaveEdit \/ DiscardEdit
  <2>1. SameServer /\ UNCHANGED <<cache, load, spent, answer>>
    BY <1>20 DEF SaveEdit, DiscardEdit, SameServer, server
  <2>2. QED
    BY <1>2, <1>3, <2>1 DEF Beside
<1>21. CASE Restart
  <2>1. SameServer /\ cache' = cache /\ answer' = 0 /\ load' = Started(FALSE)
        /\ Spend("restarts", MaxRestarts)
    BY <1>21 DEF Restart, SameServer, server
  <2>2. QED
    BY <1>2, <1>4, <2>1 DEF Beside, Starting
<1>22. QED
  BY <1>5, <1>6, <1>7, <1>8, <1>9, <1>10, <1>11, <1>12, <1>13, <1>14, <1>15, <1>16, <1>17, <1>18,
     <1>19, <1>20, <1>21 DEF Next, Gui, User

LEMMA StartedFields ==
  ASSUME Typed, NEW deep \in BOOLEAN
  PROVE  /\ Started(deep) \in LoadType
         /\ Started(deep).since = Committed /\ Started(deep).era = spent["restores"]
         /\ Started(deep).phase \in {"changes", "snapshot"}
         /\ Started(deep).deep => Started(deep).phase = "snapshot"
         /\ Started(deep).phase = "changes" => cache.exists
         /\ Started(deep).cursor = 0 /\ Started(deep).taken = 0
<1>1. PICK s \in SUBSET Writes : s = Committed
  BY DEF Committed
<1>2. PICK e \in Nat : e = spent.restores
  BY DEF Typed, Steps
<1>3. CASE deep \/ ~cache.exists
  <2> DEFINE r == [NoLoad EXCEPT !.phase = "snapshot", !.deep = TRUE, !.since = s, !.era = e]
  <2>1. Started(deep) = r
    BY <1>1, <1>2, <1>3 DEF Started
  <2>2. /\ r \in LoadType
        /\ r.phase = "snapshot" /\ r.since = s /\ r.era = e /\ r.cursor = 0 /\ r.taken = 0
    BY DEF NoLoad, LoadType, LoadPhases
  <2> HIDE DEF r
  <2>3. QED
    BY <1>1, <1>2, <2>1, <2>2
<1>4. CASE ~(deep \/ ~cache.exists)
  <2> DEFINE r == [NoLoad EXCEPT !.phase = "changes", !.deep = FALSE, !.since = s, !.era = e]
  <2>1. Started(deep) = r
    BY <1>1, <1>2, <1>4 DEF Started
  <2>2. /\ r \in LoadType
        /\ r.phase = "changes" /\ r.deep = FALSE /\ r.since = s /\ r.era = e /\ r.cursor = 0 /\ r.taken = 0
    BY DEF NoLoad, LoadType, LoadPhases
  <2> HIDE DEF r
  <2>3. QED
    BY <1>1, <1>2, <1>4, <2>1, <2>2
<1>5. QED
  BY <1>3, <1>4

\* The load's record, when its phase changes.
LEMMA PhaseFields ==
  ASSUME Typed, NEW next \in LoadPhases, load' = [load EXCEPT !.phase = next]
  PROVE  /\ load' \in LoadType /\ load'.phase = next
         /\ load'.deep = load.deep /\ load'.data = load.data /\ load'.cursor = load.cursor
         /\ load'.since = load.since /\ load'.era = load.era /\ load'.taken = load.taken
BY DEF Typed, LoadType

LEMMA NoLoadFields ==
  ASSUME load' = NoLoad
  PROVE  /\ load' \in LoadType /\ load'.phase = "idle" /\ load'.deep = FALSE
         /\ load'.cursor = 0 /\ load'.taken = 0 /\ load'.era = 0
BY DEF NoLoad, LoadType, LoadPhases

LEMMA SnapshotFields ==
  ASSUME Typed, TakeSnapshot
  PROVE  /\ load' \in LoadType /\ load.phase = "snapshot" /\ load'.phase = "replace"
         /\ load'.data = Committed /\ load'.cursor = FeedCursor
         /\ load'.taken = spent["restores"]
         /\ load'.deep = load.deep /\ load'.since = load.since /\ load'.era = load.era
<1>1. load' = [load EXCEPT !.phase = "replace", !.data = Committed, !.rev = revision,
                           !.cursor = FeedCursor, !.taken = spent["restores"]]
      /\ load.phase = "snapshot"
  BY DEF TakeSnapshot, LoaderStep
<1>2. /\ Committed \in SUBSET Writes /\ revision \in Nat /\ FeedCursor \in Nat
      /\ spent["restores"] \in Nat
  BY CursorType DEF Committed, Typed, Steps
<1>3. load \in LoadType
  BY DEF Typed
<1>4. QED
  BY <1>1, <1>2, <1>3 DEF LoadType, LoadPhases

LEMMA ReplaceFields ==
  ASSUME Typed, ReplaceCache
  PROVE  /\ load' \in LoadType /\ load.phase = "replace" /\ load'.phase = "entities"
         /\ load'.cursor = load.cursor /\ load'.taken = load.taken
         /\ load'.deep = load.deep /\ load'.since = load.since /\ load'.era = load.era
         /\ cache' \in CacheType /\ cache'.exists = TRUE
         /\ cache'.data = load.data /\ cache'.cursor = load.cursor /\ cache'.taken = load.taken
<1>1. /\ load' = [load EXCEPT !.phase = "entities"] /\ load.phase = "replace"
      /\ cache' = [exists |-> TRUE, data |-> load.data, rev |-> load.rev, cursor |-> load.cursor,
                   taken |-> load.taken]
  BY DEF ReplaceCache, LoaderStep
<1>2. load \in LoadType /\ "entities" \in LoadPhases
  BY DEF Typed, LoadPhases
<1>3. cache' \in CacheType
  BY <1>1, <1>2 DEF LoadType, CacheType
<1>4. QED
  BY <1>1, <1>2, <1>3, PhaseFields

LEMMA EntitiesFields ==
  ASSUME Typed, ReadEntities
  PROVE  /\ load' \in LoadType /\ load.phase = "entities" /\ load'.phase = "revision"
         /\ load'.data = cache.data /\ load'.cursor = load.cursor /\ load'.taken = cache.taken
         /\ load'.deep = load.deep /\ load'.since = load.since /\ load'.era = load.era
<1>1. load' = [load EXCEPT !.phase = "revision", !.data = cache.data, !.taken = cache.taken]
      /\ load.phase = "entities"
  BY DEF ReadEntities, LoaderStep
<1>2. load \in LoadType /\ cache.data \in SUBSET Writes /\ cache.taken \in Nat
  BY DEF Typed, CacheType
<1>3. QED
  BY <1>1, <1>2 DEF LoadType, LoadPhases

LEMMA RevisionFields ==
  ASSUME Typed, ReadRevision
  PROVE  /\ load' \in LoadType /\ load.phase = "revision" /\ load'.phase = "loaded"
         /\ load'.data = load.data /\ load'.cursor = load.cursor /\ load'.taken = load.taken
         /\ load'.deep = load.deep /\ load'.since = load.since /\ load'.era = load.era
<1>1. load' = [load EXCEPT !.phase = "loaded", !.rev = cache.rev] /\ load.phase = "revision"
  BY DEF ReadRevision, LoaderStep
<1>2. load \in LoadType /\ cache.rev \in Nat
  BY DEF Typed, CacheType
<1>3. QED
  BY <1>1, <1>2 DEF LoadType, LoadPhases

LEMMA ChangesFields ==
  ASSUME Typed, AskChanges
  PROVE  /\ load' \in LoadType /\ load.phase = "changes"
         /\ load'.phase = IF ChangesAfter(cache.cursor) = {} THEN "entities" ELSE "snapshot"
         /\ load'.data = load.data /\ load'.cursor = load.cursor /\ load'.taken = load.taken
         /\ load'.deep = load.deep /\ load'.since = load.since /\ load'.era = load.era
<1> DEFINE next == IF ChangesAfter(cache.cursor) = {} THEN "entities" ELSE "snapshot"
<1>1. load' = [load EXCEPT !.phase = next] /\ load.phase = "changes"
  BY DEF AskChanges, LoaderStep
<1>2. next \in LoadPhases
  BY DEF LoadPhases
<1> HIDE DEF next
<1>3. QED
  BY <1>1, <1>2, PhaseFields DEF next

LEMMA MovingFields ==
  ASSUME Typed, NEW next \in {"failed", "closing"}, Moving(next)
  PROVE  /\ load' \in LoadType /\ load'.phase = next /\ load'.cursor = load.cursor
         /\ load'.deep = load.deep /\ load'.era = load.era /\ load'.taken = load.taken
BY PhaseFields DEF Moving, LoadPhases

LEMMA TypedStep ==
  ASSUME Typed, Next
  PROVE  Typed'
<1> DEFINE Ids == \A w \in FedWrites : write[w] \in {"open", "committed"} =>
                     0 < feedId[w] /\ feedId[w] < nextId
<1>1. Ids /\ spent' \in [Steps -> Nat] /\ \A w \in FedWrites : w \in Writes
  BY StepCases DEF Typed, Writes
<1>2. ASSUME SameServer, cache' \in CacheType, load' \in LoadType,
             answer' \in {answer, revision, 0}
      PROVE  Typed'
  BY <1>1, <1>2 DEF Typed, SameServer
<1>3. CASE Writing
  <2>1. PICK w \in Writes : FlushWrite(w) \/ CommitWrite(w) \/ RollbackWrite(w)
    BY <1>3 DEF Writing, Server
  <2>2. load' = load /\ answer' = answer /\ cache' \in CacheType
    BY <1>3 DEF Writing, SameEntities
  <2>3. CASE FlushWrite(w)
    <3>1. write' = [write EXCEPT ![w] = "open"] /\ revision' = revision
      BY <2>3 DEF FlushWrite
    <3>2. CASE w \in FedWrites
      <4>1. feedId' = [feedId EXCEPT ![w] = nextId] /\ nextId' = nextId + 1
        BY <2>3, <3>2 DEF FlushWrite
      <4>2. Ids'
        BY <1>1, <3>1, <4>1 DEF Typed
      <4>3. QED
        BY <1>1, <2>2, <3>1, <4>1, <4>2 DEF Typed
    <3>3. CASE w \notin FedWrites
      <4>1. UNCHANGED <<feedId, nextId>>
        BY <2>3, <3>3 DEF FlushWrite
      <4>2. Ids'
        BY <1>1, <3>1, <3>3, <4>1 DEF Typed
      <4>3. QED
        BY <1>1, <2>2, <3>1, <4>1, <4>2 DEF Typed
    <3>4. QED
      BY <3>2, <3>3
  <2>4. CASE CommitWrite(w)
    <3>1. /\ write[w] = "open" /\ write' = [write EXCEPT ![w] = "committed"]
          /\ revision' = revision + 1 /\ UNCHANGED <<feedId, nextId>>
      BY <2>4 DEF CommitWrite
    <3>2. Ids'
      BY <1>1, <3>1 DEF Typed
    <3>3. QED
      BY <1>1, <2>2, <3>1, <3>2 DEF Typed
  <2>5. CASE RollbackWrite(w)
    <3>1. /\ write' = [write EXCEPT ![w] = "undone"]
          /\ UNCHANGED <<feedId, nextId, revision>>
      BY <2>5 DEF RollbackWrite
    <3>2. Ids'
      BY <1>1, <3>1 DEF Typed
    <3>3. QED
      BY <1>1, <2>2, <3>1, <3>2 DEF Typed
  <2>6. QED
    BY <2>1, <2>3, <2>4, <2>5
<1>4. CASE Restore /\ SameEntities
  <2>1. /\ Open = {} /\ nextId' = 1 /\ revision' = 0
        /\ write' = [w \in Writes |-> IF w \in Committed THEN "undone" ELSE write[w]]
        /\ UNCHANGED <<feedId, load, answer>>
    BY <1>4 DEF Restore
  <2>2. \A w \in Writes : write'[w] \notin {"open", "committed"}
    BY <2>1 DEF Open, Committed
  <2>3. write' \in [Writes -> {"new", "open", "committed", "undone"}]
    BY <2>1 DEF Typed
  <2>4. QED
    BY <1>1, <1>4, <2>1, <2>2, <2>3 DEF Typed, SameEntities
<1>5. CASE Beside /\ answer' \in {answer, revision, 0}
  <2>1. load' \in LoadType
    BY <1>5, StartedFields DEF Beside, Starting, Typed
  <2>2. QED
    BY <1>2, <1>5, <2>1 DEF Beside, SameEntities
<1>6. CASE SameEntities /\ SameServer /\ answer' = answer
           /\ (AskChanges \/ TakeSnapshot \/ ReadEntities \/ ReadRevision \/ ClearWorkerRefs)
  <2>1. load' \in LoadType
    BY <1>6, ChangesFields, SnapshotFields, EntitiesFields, RevisionFields, NoLoadFields
    DEF ClearWorkerRefs
  <2>2. QED
    BY <1>2, <1>6, <2>1 DEF SameEntities
<1>7. CASE ReplaceCache /\ SameServer /\ answer' = answer
  BY <1>2, <1>7, ReplaceFields
<1>8. CASE (Moving("failed") \/ Moving("closing")) /\ answer' = answer
  BY <1>2, <1>8, MovingFields DEF Moving, SameEntities
<1>9. QED
  BY <1>3, <1>4, <1>5, <1>6, <1>7, <1>8, StepCases

LEMMA TypedInit == Init => Typed
<1> SUFFICES ASSUME Init
             PROVE  Typed
  OBVIOUS
<1>1. cache \in CacheType
  <2>1. NoCache \in CacheType
    BY DEF NoCache, CacheType
  <2>2. OldCache \in CacheType
    BY <2>1 DEF OldCache, CacheType
  <2>3. QED
    BY <2>1, <2>2 DEF Init
<1>2. /\ write \in [Writes -> {"new", "open", "committed", "undone"}]
      /\ feedId \in [Writes -> Nat] /\ nextId = 1 /\ revision = 0 /\ answer = 0
      /\ \A w \in Writes : write[w] = "new"
  BY DEF Init
<1>3. spent \in [Steps -> Nat]
  BY DEF Init, Steps
<1>4. load \in LoadType
  <2> DEFINE full == ~cache.exists
  <2>1. load = [phase |-> IF full THEN "snapshot" ELSE "changes", deep |-> full,
                data |-> {}, rev |-> 0, cursor |-> 0, taken |-> 0, since |-> Committed,
                era |-> spent["restores"]]
    BY DEF Init, Started, NoLoad
  <2>2. full \in BOOLEAN /\ Committed \in SUBSET Writes /\ spent["restores"] \in Nat
    BY <1>3 DEF Committed, Steps
  <2> HIDE DEF full
  <2>3. QED
    BY <2>1, <2>2 DEF LoadType, LoadPhases
<1>5. \A w \in FedWrites : w \in Writes
  BY DEF Writes
<1>6. QED
  BY <1>1, <1>2, <1>3, <1>4, <1>5 DEF Typed

(***************************************************************************)
(* What a load has seen.                                                    *)
(***************************************************************************)
\* Only a restore takes a committed write back.
LEMMA CommittedGrows ==
  ASSUME Typed, Writing
  PROVE  Committed \subseteq Committed'
<1>1. PICK w \in Writes : FlushWrite(w) \/ CommitWrite(w) \/ RollbackWrite(w)
  BY DEF Writing, Server
<1>2. \A v \in Writes : write[v] = "committed" => write'[v] = "committed"
  BY <1>1 DEF FlushWrite, CommitWrite, RollbackWrite, Typed
<1>3. QED
  BY <1>2 DEF Committed

LEMMA RestoreCounts ==
  ASSUME Typed, Restore
  PROVE  spent'["restores"] = spent["restores"] + 1 /\ spent["restores"] < MaxRestores
         /\ load' = load
BY DEF Restore, Spend, Typed, Steps

\* A load that keeps the cached entities has seen what they hold.
LEMMA SeenStep ==
  ASSUME Typed, Next, ~Restore, ~(Beside /\ Starting), Seen,
         AskChanges /\ ChangesAfter(cache.cursor) = {} => load.since \subseteq cache.data
  PROVE  Seen'
<1>1. UNCHANGED write => Committed' = Committed
  BY DEF Committed
<1>2. CASE Writing
  <2>1. load' = load /\ cache'.data = cache.data
    BY <1>2 DEF Writing, SameEntities
  <2>2. QED
    BY <1>2, <2>1, CommittedGrows DEF Seen
<1>3. CASE Beside
  <2>1. load' = load /\ cache'.data = cache.data /\ UNCHANGED write
    BY <1>3 DEF Beside, SameEntities, SameServer
  <2>2. QED
    BY <1>1, <2>1 DEF Seen
<1>4. CASE AskChanges /\ SameEntities /\ SameServer
  <2>1. cache'.data = cache.data /\ UNCHANGED write
    BY <1>4 DEF SameEntities, SameServer
  <2>2. QED
    BY <1>1, <1>4, <2>1, ChangesFields DEF Seen
<1>5. CASE TakeSnapshot
  BY <1>5, SnapshotFields DEF Seen
<1>6. CASE ReplaceCache
  BY <1>6, ReplaceFields DEF Seen
<1>7. CASE ReadEntities
  BY <1>7, EntitiesFields DEF Seen
<1>8. CASE ReadRevision
  BY <1>8, RevisionFields DEF Seen
<1>9. CASE Moving("failed") \/ Moving("closing")
  BY <1>9, MovingFields DEF Seen
<1>10. CASE ClearWorkerRefs
  BY <1>10, NoLoadFields DEF Seen, ClearWorkerRefs
<1>11. QED
  BY <1>2, <1>3, <1>4, <1>5, <1>6, <1>7, <1>8, <1>9, <1>10, StepCases

\* A load that was just started sees the database.
LEMMA StartSeen ==
  ASSUME Typed, Beside, Starting
  PROVE  /\ Seen' /\ load'.era = spent'["restores"]
         /\ load'.deep => load'.phase = "snapshot"
         /\ load'.phase = "changes" => cache'.exists
         /\ load'.cursor = 0 /\ load'.taken = 0 /\ load'.phase \in {"changes", "snapshot"}
<1>1. PICK deep \in BOOLEAN : load' = Started(deep)
  BY DEF Starting
<1>2. UNCHANGED write /\ SameRestores /\ cache'.exists = cache.exists
  BY DEF Beside, SameServer, SameEntities
<1>3. Committed' = Committed
  BY <1>2 DEF Committed
<1>4. /\ load'.since = Committed /\ load'.era = spent["restores"]
      /\ load'.phase \in {"changes", "snapshot"}
      /\ load'.deep => load'.phase = "snapshot"
      /\ load'.phase = "changes" => cache.exists
      /\ load'.cursor = 0 /\ load'.taken = 0
  BY <1>1, StartedFields
<1>5. Seen'
  BY <1>3, <1>4 DEF Seen
<1>6. QED
  BY <1>2, <1>4, <1>5 DEF SameRestores

LEMMA DeepStep ==
  ASSUME DeepInv, Next
  PROVE  DeepInv'
<1>1. Typed /\ Typed'
  BY TypedStep DEF DeepInv
<1>2. spent["restores"] \in Nat /\ load.era \in Nat
  BY <1>1 DEF Typed, Steps, LoadType
<1>3. CASE Restore
  BY <1>1, <1>2, <1>3, RestoreCounts DEF DeepInv
<1>4. CASE Beside /\ Starting
  BY <1>1, <1>2, <1>4, StartSeen DEF DeepInv, Beside, SameRestores
<1>5. CASE ~Restore /\ ~(Beside /\ Starting)
  <2>1. /\ spent'["restores"] = spent["restores"]
        /\ \/ load'.deep = load.deep /\ load'.era = load.era
           \/ load'.deep = FALSE /\ load'.era = 0
        /\ load'.phase = "changes" => load.phase = "changes"
    <3>1. CASE Writing
      BY <3>1 DEF Writing
    <3>2. CASE Beside
      BY <1>5, <3>2 DEF Beside, SameRestores
    <3>3. CASE (AskChanges \/ TakeSnapshot \/ ReplaceCache \/ ReadEntities \/ ReadRevision) /\ SameRestores
      BY <1>1, <3>3, ChangesFields, SnapshotFields, ReplaceFields, EntitiesFields, RevisionFields
      DEF SameRestores
    <3>4. CASE Moving("failed") \/ Moving("closing")
      BY <1>1, <3>4, MovingFields DEF Moving, SameRestores
    <3>5. CASE ClearWorkerRefs /\ SameRestores
      BY <3>5, NoLoadFields DEF ClearWorkerRefs, SameRestores
    <3>6. QED
      BY <1>1, <1>5, <3>1, <3>2, <3>3, <3>4, <3>5, StepCases
  <2>2. load.deep => ~AskChanges
    BY <1>1, ChangesFields DEF DeepInv
  <2>3. load'.deep /\ load'.era = spent'["restores"] => Seen'
    <3>1. SUFFICES ASSUME load'.deep, load'.era = spent'["restores"]
                   PROVE  Seen'
      OBVIOUS
    <3>2. load.deep /\ load.era = spent["restores"]
      BY <2>1, <3>1
    <3>3. Seen
      BY <3>2 DEF DeepInv
    <3>4. QED
      BY <1>1, <1>5, <2>2, <3>2, <3>3, SeenStep
  <2>4. QED
    BY <1>1, <1>2, <2>1, <2>3 DEF DeepInv
<1>6. QED
  BY <1>3, <1>4, <1>5

\* A bundle is shown as it was loaded.
LEMMA ShownIsLoaded ==
  ASSUME Typed, Next, load.phase = "loaded", load'.phase = "closing"
  PROVE  shown' = load.data
<1>1. CASE DataLoaded
  BY <1>1 DEF DataLoaded
<1>2. CASE DataFailed
  BY <1>2 DEF DataFailed
<1>3. CASE FailLoad
  BY <1>3 DEF FailLoad
<1>4. CASE Writing \/ Restore
  BY <1>4, RestoreCounts DEF Writing
<1>5. CASE Beside
  BY <1>5, StartSeen DEF Beside
<1>6. CASE AskChanges \/ TakeSnapshot \/ ReplaceCache \/ ReadEntities \/ ReadRevision
  BY <1>6, ChangesFields, SnapshotFields, ReplaceFields, EntitiesFields, RevisionFields
<1>7. CASE ClearWorkerRefs
  BY <1>7 DEF ClearWorkerRefs
<1>8. QED
  BY <1>1, <1>2, <1>3, <1>4, <1>5, <1>6, <1>7, StepCases

LEMMA FreshStutter ==
  ASSUME UNCHANGED vars
  PROVE  /\ UNCHANGED <<write, feedId, nextId, revision, overtaken, answer, cache, load, spent>>
         /\ Typed => Typed'
         /\ Seen => Seen'
         /\ FeedInv => FeedInv'
         /\ FreshInv => FreshInv'
<1>1. UNCHANGED <<write, feedId, nextId, revision, overtaken, answer, cache, load, spent>>
  BY DEF vars, server
<1>2. Committed' = Committed /\ Open' = Open
  BY <1>1 DEF Committed, Open
<1>3. Typed => Typed'
  BY <1>1 DEF Typed
<1>4. Seen => Seen'
  BY <1>1, <1>2 DEF Seen
<1>5. Order => Order'
  BY <1>1, <1>2 DEF Order, CacheReached, LoadReached, Drawn
<1>6. Covers => Covers'
  BY <1>1, <1>2 DEF Covers, CursorCovers, Told
<1>7. SeenTold => SeenTold'
  BY <1>1, <1>2 DEF SeenTold, Told
<1>8. FeedInv => FeedInv'
  BY <1>1, <1>3, <1>5, <1>6 DEF FeedInv
<1>9. QED
  BY <1>1, <1>3, <1>4, <1>7, <1>8 DEF FreshInv

LEMMA InitLoad ==
  ASSUME Init
  PROVE  /\ Seen /\ load.era = spent["restores"] /\ load.cursor = 0 /\ load.taken = 0
         /\ load.deep => load.phase = "snapshot"
         /\ load.phase = "changes" => cache.exists
         /\ load.phase \in {"changes", "snapshot"}
<1>1. load = Started(FALSE) /\ FALSE \in BOOLEAN
  BY DEF Init
<1>2. /\ load.since = Committed /\ load.era = spent["restores"] /\ load.cursor = 0
      /\ load.taken = 0
      /\ load.phase \in {"changes", "snapshot"}
      /\ load.deep => load.phase = "snapshot"
      /\ load.phase = "changes" => cache.exists
  BY <1>1, TypedInit, StartedFields
<1>3. QED
  BY <1>2 DEF Seen

\* What a load under way has read is in the bundle it will show.
THEOREM DeepInvariance == Spec => []DeepInv
<1>1. Init => DeepInv
  <2> SUFFICES ASSUME Init
               PROVE  DeepInv
    OBVIOUS
  <2>1. Typed /\ spent["restores"] \in Nat
    BY TypedInit DEF Typed, Steps
  <2>2. QED
    BY <2>1, InitLoad DEF DeepInv
<1>2. DeepInv /\ [Next]_vars => DeepInv'
  <2>1. DeepInv /\ UNCHANGED vars => DeepInv'
    BY FreshStutter DEF DeepInv
  <2>2. QED
    BY <2>1, DeepStep
<1>3. QED
  BY <1>1, <1>2, PTL DEF Spec

\* deep_refresh asks for a snapshot whatever the cursor says, and the bundle
\* is read from the cache that the snapshot replaced: writes with or without a
\* feed row, polls, edits, failures and restarts take nothing from it.
THEOREM DeepRefreshShowsAll == Spec => DeepRefreshIsFresh
<1> DEFINE Fresh == (load.phase = "loaded" /\ load'.phase = "closing" /\ load.deep
                       /\ load.era = spent.restores)
                      => load.since \subseteq shown'
<1>1. ASSUME DeepInv, [Next]_vars
      PROVE  [Fresh]_vars
  <2>1. SUFFICES ASSUME Next, load.phase = "loaded", load'.phase = "closing", load.deep,
                        load.era = spent.restores
                 PROVE  load.since \subseteq shown'
    BY <1>1
  <2>2. load.since \subseteq load.data
    BY <1>1, <2>1 DEF DeepInv, Seen
  <2>3. shown' = load.data
    BY <1>1, <2>1, ShownIsLoaded DEF DeepInv
  <2>4. QED
    BY <2>2, <2>3
<1>2. DeepInv /\ [Next]_vars => [Fresh]_vars
  BY <1>1
<1> HIDE DEF Fresh
<1>3. Spec => [][Fresh]_vars
  BY <1>2, DeepInvariance, PTL DEF Spec
<1>4. QED
  BY <1>3 DEF Fresh, DeepRefreshIsFresh

(***************************************************************************)
(* What the feed tells.                                                     *)
(***************************************************************************)
\* A write takes a change_id above every cursor; when it commits and has not
\* been overtaken, no cursor of this era has passed it.
LEMMA WritingFeed ==
  ASSUME FeedInv, Writing
  PROVE  Order' /\ Covers' /\ overtaken \subseteq overtaken'
<1>1. Typed /\ Order /\ Covers
  BY DEF FeedInv
<1>2. PICK w \in Writes : FlushWrite(w) \/ CommitWrite(w) \/ RollbackWrite(w)
  BY DEF Writing, Server
<1>3. /\ load' = load /\ spent' = spent /\ cache'.exists = cache.exists
      /\ cache'.data = cache.data /\ cache'.cursor = cache.cursor /\ cache'.taken = cache.taken
  BY DEF Writing, SameEntities
<1>4. /\ cache.cursor \in Nat /\ load.cursor \in Nat /\ nextId \in Nat
      /\ feedId \in [Writes -> Nat]
      /\ write \in [Writes -> {"new", "open", "committed", "undone"}]
      /\ FedWrites \subseteq Writes
      /\ \A v \in Drawn : 0 < feedId[v] /\ feedId[v] < nextId
  BY <1>1 DEF Typed, CacheType, LoadType, Writes, Drawn
<1>5. CASE FlushWrite(w)
  <2>1. /\ write[w] = "new" /\ write' = [write EXCEPT ![w] = "open"]
        /\ overtaken' = overtaken
    BY <1>5 DEF FlushWrite
  <2>2. Committed' = Committed /\ w \notin Committed /\ w \notin Drawn /\ Drawn' \subseteq Drawn \cup {w}
    BY <1>4, <2>1 DEF Committed, Drawn
  <2>3. \A v \in Writes : v # w => feedId'[v] = feedId[v]
    BY <1>4, <1>5 DEF FlushWrite
  <2>4. \A v \in Committed \cap FedWrites : feedId'[v] = feedId[v]
    BY <1>4, <2>2, <2>3
  <2>5. w \in FedWrites => feedId'[w] = nextId
    BY <1>4, <1>5 DEF FlushWrite
  <2>6. Order'
    <3>1. ASSUME NEW u \in Drawn', NEW v \in Drawn', feedId'[u] = feedId'[v]
          PROVE  u = v
      <4>1. w \in FedWrites => \A x \in Drawn : feedId'[x] < nextId
        BY <1>4, <2>2, <2>3 DEF Drawn
      <4>2. \A x \in Drawn : feedId'[x] = feedId[x]
        BY <1>4, <2>2, <2>3 DEF Drawn
      <4>3. u \in FedWrites /\ v \in FedWrites
        BY DEF Drawn
      <4>4. CASE u = w \/ v = w
        BY <1>4, <2>2, <2>5, <3>1, <4>1, <4>3, <4>4
      <4>5. CASE u # w /\ v # w
        BY <1>1, <2>2, <3>1, <4>2, <4>5 DEF Order
      <4>6. QED
        BY <4>4, <4>5
    <3>2. CacheReached => CacheReached'
      BY <1>3, <2>2, <2>4 DEF CacheReached
    <3>3. LoadReached => LoadReached'
      BY <1>3, <2>2, <2>4 DEF LoadReached
    <3>4. QED
      BY <1>1, <1>3, <3>1, <3>2, <3>3 DEF Order
  <2>7. Covers'
    BY <1>1, <1>3, <2>1, <2>2, <2>4 DEF Covers, CursorCovers, Told
  <2>8. QED
    BY <2>1, <2>6, <2>7
<1>6. CASE CommitWrite(w)
  <2>1. /\ write[w] = "open" /\ write' = [write EXCEPT ![w] = "committed"]
        /\ UNCHANGED <<feedId, nextId>>
        /\ overtaken \subseteq overtaken'
        /\ w \in FedWrites /\ w \notin overtaken' => ChangesAfter(feedId[w]) = {}
    BY <1>6 DEF CommitWrite
  <2>2. Committed' = Committed \cup {w} /\ w \notin Committed /\ Drawn' = Drawn
    BY <1>4, <2>1 DEF Committed, Drawn
  <2>3. w \in FedWrites => w \in Drawn
    BY <2>1 DEF Drawn
  <2>4. Committed \cap FedWrites \subseteq Drawn
    BY DEF Committed, Drawn
  <2>5. Order'
    <3>1. CacheReached => CacheReached'
      BY <1>3, <2>1, <2>2 DEF CacheReached
    <3>2. LoadReached => LoadReached'
      BY <1>3, <2>1, <2>2 DEF LoadReached
    <3>3. QED
      BY <1>1, <1>3, <2>1, <2>2, <3>1, <3>2 DEF Order
  <2>6. ASSUME NEW c \in Nat, w \in FedWrites, w \notin overtaken',
               c = 0 \/ \E v \in Committed \cap FedWrites : feedId[v] = c
        PROVE  ~(feedId[w] <= c)
    <3>1. CASE c = 0
      BY <1>4, <2>3, <2>6, <3>1
    <3>2. CASE \E v \in Committed \cap FedWrites : feedId[v] = c
      <4>1. PICK v \in Committed \cap FedWrites : feedId[v] = c
        BY <3>2
      <4>2. ~(feedId[v] > feedId[w])
        BY <2>1, <2>6 DEF ChangesAfter
      <4>3. feedId[v] # feedId[w]
        BY <1>1, <2>2, <2>3, <2>4, <2>6 DEF Order
      <4>4. feedId[v] \in Nat /\ feedId[w] \in Nat
        BY <1>4
      <4>5. QED
        BY <4>1, <4>2, <4>3, <4>4
    <3>3. QED
      BY <2>6, <3>1, <3>2
  <2>7. w \in FedWrites /\ w \notin overtaken' /\ cache.taken = spent["restores"]
          => ~(feedId[w] <= cache.cursor)
    BY <1>1, <1>4, <2>6 DEF Order, CacheReached
  <2>8. w \in FedWrites /\ w \notin overtaken' /\ load.phase = "replace" /\ load.taken = spent["restores"]
          => ~(feedId[w] <= load.cursor)
    BY <1>1, <1>4, <2>6 DEF Order, LoadReached
  <2>9. Told(Committed)' \subseteq Told(Committed) \cup {w}
        /\ (w \in Told(Committed)' => w \in FedWrites /\ w \notin overtaken')
    BY <2>1, <2>2 DEF Told
  <2>10. CursorCovers'
    BY <1>1, <1>3, <2>1, <2>7, <2>9 DEF Covers, CursorCovers
  <2>11. Covers'
    BY <1>1, <1>3, <2>1, <2>8, <2>9, <2>10 DEF Covers
  <2>12. QED
    BY <2>1, <2>5, <2>11
<1>7. CASE RollbackWrite(w)
  <2>1. /\ write[w] = "open" /\ write' = [write EXCEPT ![w] = "undone"]
        /\ UNCHANGED <<feedId, nextId, overtaken>>
    BY <1>7 DEF RollbackWrite
  <2>2. Drawn' \subseteq Drawn /\ Committed' = Committed
    BY <1>4, <2>1 DEF Drawn, Committed
  <2>3. Order'
    <3>1. CacheReached => CacheReached'
      BY <1>3, <2>1, <2>2 DEF CacheReached
    <3>2. LoadReached => LoadReached'
      BY <1>3, <2>1, <2>2 DEF LoadReached
    <3>3. QED
      BY <1>1, <1>3, <2>1, <2>2, <3>1, <3>2 DEF Order
  <2>4. Covers'
    BY <1>1, <1>3, <2>1, <2>2 DEF Covers, CursorCovers, Told
  <2>5. QED
    BY <2>1, <2>3, <2>4
<1>8. QED
  BY <1>2, <1>5, <1>6, <1>7

LEMMA FeedStep ==
  ASSUME FeedInv, Next
  PROVE  FeedInv'
<1> DEFINE Asks == load.phase = "changes" => cache.exists
<1>1. Typed /\ Typed' /\ Order /\ Covers /\ Asks
  BY TypedStep DEF FeedInv
<1>2. SameServer /\ SameRestores =>
        /\ Committed' = Committed /\ Told(Committed)' = Told(Committed) /\ Drawn' = Drawn
        /\ feedId' = feedId /\ spent'["restores"] = spent["restores"]
  BY DEF SameServer, SameRestores, Drawn, Committed, Told
<1>3. ASSUME SameServer, SameEntities, SameRestores, load'.taken \in {load.taken, 0, cache.taken},
             load'.phase = "replace" => load.phase = "replace" /\ load' = load,
             load'.phase = "changes" => cache.exists
      PROVE  FeedInv'
  <2>1. /\ cache'.exists = cache.exists /\ cache'.data = cache.data /\ cache'.cursor = cache.cursor
        /\ cache'.taken = cache.taken
    BY <1>3 DEF SameEntities
  <2>2. CacheReached => CacheReached'
    BY <1>2, <1>3, <2>1 DEF CacheReached
  <2>3. load' = load /\ LoadReached => LoadReached'
    BY <1>2, <1>3 DEF LoadReached
  <2>4. load'.taken <= spent["restores"]
    BY <1>1, <1>3 DEF Order, Typed, Steps
  <2>5. Order'
    BY <1>1, <1>2, <1>3, <2>1, <2>2, <2>3, <2>4 DEF Order
  <2>6. Covers'
    BY <1>1, <1>2, <1>3, <2>1 DEF Covers, CursorCovers
  <2>7. QED
    BY <1>1, <1>3, <2>1, <2>5, <2>6 DEF FeedInv
<1>4. CASE Writing
  <2>1. load' = load /\ cache'.exists = cache.exists
    BY <1>4 DEF Writing, SameEntities
  <2>2. QED
    BY <1>1, <1>4, <2>1, WritingFeed DEF FeedInv
<1>5. CASE Restore /\ SameEntities
  <2>1. /\ load' = load /\ cache'.exists = cache.exists /\ cache'.taken = cache.taken
        /\ spent'["restores"] = spent["restores"] + 1
    BY <1>1, <1>5, RestoreCounts DEF SameEntities
  <2>2. /\ spent["restores"] \in Nat /\ cache.taken \in Nat /\ load.taken \in Nat
    BY <1>1 DEF Typed, Steps, CacheType, LoadType
  <2>3. cache'.taken < spent'["restores"] /\ load'.taken < spent'["restores"]
    BY <1>1, <2>1, <2>2 DEF Order
  <2>4. Drawn' = {}
    <3>1. /\ Open = {} /\ FedWrites \subseteq Writes
          /\ write' = [w \in Writes |-> IF w \in Committed THEN "undone" ELSE write[w]]
      BY <1>5 DEF Restore, Writes
    <3>2. \A w \in Writes : write'[w] \notin {"open", "committed"}
      BY <3>1 DEF Open, Committed
    <3>3. QED
      BY <3>1, <3>2 DEF Drawn
  <2>5. Order'
    BY <2>1, <2>2, <2>3, <2>4 DEF Order
  <2>6. Covers'
    BY <2>1, <2>2, <2>3 DEF Covers, CursorCovers
  <2>7. QED
    BY <1>1, <2>1, <2>5, <2>6 DEF FeedInv
<1>6. CASE Beside
  <2>1. CASE load' = load
    BY <1>1, <1>3, <1>6, <2>1 DEF Beside
  <2>2. CASE Starting
    <3>1. /\ load'.taken = 0 /\ load'.phase \in {"changes", "snapshot"}
          /\ load'.phase = "changes" => cache'.exists
      BY <1>1, <1>6, <2>2, StartSeen
    <3>2. SameServer /\ SameEntities /\ SameRestores /\ cache'.exists = cache.exists
      BY <1>6 DEF Beside, SameEntities
    <3>3. QED
      BY <1>3, <3>1, <3>2
  <2>3. QED
    BY <1>6, <2>1, <2>2 DEF Beside
<1>7. CASE (AskChanges \/ ReadEntities \/ ReadRevision) /\ SameServer /\ SameEntities /\ SameRestores
  <2>1. /\ load'.taken \in {load.taken, cache.taken}
        /\ load'.phase \in {"entities", "snapshot", "revision", "loaded"}
    BY <1>1, <1>7, ChangesFields, EntitiesFields, RevisionFields
  <2>2. QED
    BY <1>3, <1>7, <2>1
<1>8. CASE Moving("failed") \/ Moving("closing")
  <2>1. /\ load'.taken = load.taken /\ load'.phase \in {"failed", "closing"}
        /\ SameServer /\ SameEntities /\ SameRestores
    BY <1>1, <1>8, MovingFields DEF Moving
  <2>2. QED
    BY <1>3, <2>1
<1>9. CASE ClearWorkerRefs /\ SameServer /\ SameEntities /\ SameRestores
  <2>1. load'.taken = 0 /\ load'.phase = "idle"
    BY <1>9, NoLoadFields DEF ClearWorkerRefs
  <2>2. QED
    BY <1>3, <1>9, <2>1
<1>10. CASE TakeSnapshot /\ SameServer /\ SameEntities /\ SameRestores
  <2>1. /\ load'.phase = "replace" /\ load'.data = Committed /\ load'.cursor = FeedCursor
        /\ load'.taken = spent["restores"]
    BY <1>1, <1>10, SnapshotFields
  <2>2. /\ cache'.exists = cache.exists /\ cache'.data = cache.data /\ cache'.cursor = cache.cursor
        /\ cache'.taken = cache.taken
    BY <1>10 DEF SameEntities
  <2>3. PICK c : c = FeedCursor
    OBVIOUS
  <2>4. c = 0 \/ \E v \in Committed \cap FedWrites : feedId[v] = c
    BY <1>1, <2>3, CursorType
  <2>5. LoadReached'
    BY <1>2, <1>10, <2>1, <2>3, <2>4 DEF LoadReached
  <2>6. CacheReached => CacheReached'
    BY <1>2, <1>10, <2>2 DEF CacheReached
  <2>7. spent["restores"] \in Nat
    BY <1>1 DEF Typed, Steps
  <2>8. Order'
    BY <1>1, <1>2, <1>10, <2>1, <2>2, <2>5, <2>6, <2>7 DEF Order
  <2>9. Told(Committed) \subseteq Committed
    BY DEF Told
  <2>10. Covers'
    BY <1>1, <1>2, <1>10, <2>1, <2>2, <2>9 DEF Covers, CursorCovers
  <2>11. QED
    BY <1>1, <2>1, <2>8, <2>10 DEF FeedInv
<1>11. CASE ReplaceCache /\ SameServer /\ SameRestores
  <2>1. /\ load.phase = "replace" /\ load'.phase = "entities" /\ load'.taken = load.taken
        /\ cache'.data = load.data /\ cache'.cursor = load.cursor /\ cache'.taken = load.taken
    BY <1>1, <1>11, ReplaceFields
  <2>2. LoadReached => CacheReached'
    BY <1>2, <1>11, <2>1 DEF CacheReached, LoadReached
  <2>3. Order'
    BY <1>1, <1>2, <1>11, <2>1, <2>2 DEF Order
  <2>4. Covers'
    BY <1>1, <1>2, <1>11, <2>1 DEF Covers, CursorCovers
  <2>5. QED
    BY <1>1, <2>1, <2>3, <2>4 DEF FeedInv
<1>12. QED
  BY <1>1, <1>4, <1>5, <1>6, <1>7, <1>8, <1>9, <1>10, <1>11, StepCases

LEMMA FeedInit == Init => FeedInv
<1> SUFFICES ASSUME Init
             PROVE  FeedInv
  OBVIOUS
<1>1. Drawn = {} /\ Committed = {} /\ spent["restores"] = 0
  BY DEF Init, Drawn, Committed, Writes
<1>2. cache.cursor = 0 /\ cache.taken = 0
  <2>1. NoCache.cursor = 0 /\ NoCache.taken = 0
    BY DEF NoCache
  <2>2. OldCache.cursor = 0 /\ OldCache.taken = 0
    BY DEF OldCache, NoCache
  <2>3. QED
    BY <2>1, <2>2 DEF Init
<1>3. Order
  BY <1>1, <1>2, InitLoad DEF Order, CacheReached
<1>4. Covers
  BY <1>1 DEF Covers, CursorCovers, Told
<1>5. QED
  BY <1>3, <1>4, TypedInit, InitLoad DEF FeedInv

\* Distinct change_ids, cursors that are ids of committed writes, and entities
\* that hold every write up to their cursor: the steps of writers, loads and
\* restores keep these together.
THEOREM FeedInvariance == Spec => []FeedInv
<1>1. FeedInv /\ [Next]_vars => FeedInv'
  <2>1. FeedInv /\ UNCHANGED vars => FeedInv'
    BY FreshStutter
  <2>2. QED
    BY <2>1, FeedStep
<1>2. QED
  BY FeedInit, <1>1, PTL DEF Spec

\* The cursor of a snapshot is below the change_id of every write that commits
\* later without being overtaken: until the server is restored the feed
\* announces all of those that the cached entities do not hold.
THEOREM CursorTells == Spec => []CursorCovers
<1>1. FeedInv => CursorCovers
  BY DEF FeedInv, Covers
<1>2. QED
  BY FeedInvariance, <1>1, PTL

\* A refresh takes what it shows from the database, or from cached entities
\* after the feed told it of nothing behind their cursor.
LEMMA FreshStep ==
  ASSUME FreshInv, Next
  PROVE  FreshInv'
<1>1. FeedInv /\ FeedInv' /\ Typed /\ Typed' /\ Covers /\ load.era <= spent["restores"]
  BY FeedStep DEF FreshInv, FeedInv
<1>2. /\ spent["restores"] \in Nat /\ load.era \in Nat /\ load.taken \in Nat /\ cache.taken \in Nat
      /\ load.taken <= spent["restores"]
  BY <1>1 DEF FeedInv, Order, Typed, Steps, LoadType, CacheType
<1>3. \A S, T : S \subseteq T => Told(S) \subseteq Told(T)
  BY DEF Told
<1>4. CASE Restore
  BY <1>1, <1>2, <1>4, RestoreCounts DEF FreshInv
<1>5. CASE Beside /\ Starting
  <2>1. Seen' /\ load'.era = spent'["restores"] /\ load'.phase \in {"changes", "snapshot"}
    BY <1>1, <1>5, StartSeen
  <2>2. SeenTold'
    BY <2>1 DEF Seen, SeenTold
  <2>3. spent'["restores"] \in Nat
    BY <1>1 DEF Typed, Steps
  <2>4. QED
    BY <1>1, <2>1, <2>2, <2>3 DEF FreshInv
<1>6. ASSUME spent'["restores"] = spent["restores"], load'.era = load.era, SeenTold => SeenTold'
      PROVE  FreshInv'
  BY <1>1, <1>6 DEF FreshInv
<1>7. CASE Writing
  <2>1. load' = load /\ spent' = spent /\ cache'.data = cache.data /\ cache'.taken = cache.taken
    BY <1>7 DEF Writing, SameEntities
  <2>2. Committed \subseteq Committed' /\ overtaken \subseteq overtaken'
    BY <1>1, <1>7, CommittedGrows, WritingFeed
  <2>3. Told(load.since)' \subseteq Told(load.since)
    BY <2>1, <2>2 DEF Told
  <2>4. SeenTold => SeenTold'
    BY <2>1, <2>2, <2>3 DEF SeenTold
  <2>5. QED
    BY <1>6, <2>1, <2>4
<1>8. SameServer => Committed' = Committed /\ overtaken' = overtaken
  BY DEF SameServer, Committed
<1>9. CASE Beside /\ ~Starting
  <2>1. /\ load' = load /\ cache'.data = cache.data /\ cache'.taken = cache.taken
        /\ SameServer /\ spent'["restores"] = spent["restores"]
    BY <1>9 DEF Beside, SameEntities, SameRestores
  <2>2. Told(load.since)' = Told(load.since)
    BY <1>8, <2>1 DEF Told
  <2>3. SeenTold => SeenTold'
    BY <1>8, <2>1, <2>2 DEF SeenTold
  <2>4. QED
    BY <1>6, <2>1, <2>3
<1>10. ASSUME SameServer, SameRestores, load'.since = load.since, load'.era = load.era,
              load.era = spent["restores"] /\ SeenTold => SeenTold'
       PROVE  FreshInv'
  BY <1>1, <1>10 DEF FreshInv, SameRestores
<1>11. ASSUME SameServer, load'.since = load.since
       PROVE  Told(load.since)' = Told(load.since) /\ Committed' = Committed
  BY <1>8, <1>11 DEF Told
<1>12. CASE AskChanges /\ SameServer /\ SameEntities /\ SameRestores
  <2>1. /\ load.phase = "changes" /\ load'.since = load.since /\ load'.era = load.era
        /\ load'.phase = IF ChangesAfter(cache.cursor) = {} THEN "entities" ELSE "snapshot"
    BY <1>1, <1>12, ChangesFields
  <2>2. cache'.data = cache.data /\ cache'.taken = cache.taken /\ spent'["restores"] = spent["restores"]
    BY <1>12 DEF SameEntities, SameRestores
  <2>3. ASSUME ChangesAfter(cache.cursor) = {}, load.since \subseteq Committed,
               cache.taken = spent["restores"]
        PROVE  Told(load.since) \subseteq cache.data
    <3>1. \A w \in Told(Committed) : feedId[w] \in Nat /\ ~(feedId[w] > cache.cursor)
      BY <1>1, <2>3 DEF ChangesAfter, Typed, Told, Writes
    <3>2. cache.cursor \in Nat /\ cache.exists
      BY <1>1, <2>1 DEF FeedInv, Typed, CacheType
    <3>3. Told(Committed) \subseteq cache.data
      BY <1>1, <2>3, <3>1, <3>2 DEF Covers, CursorCovers
    <3>4. QED
      BY <1>3, <2>3, <3>3
  <2>4. SeenTold => SeenTold'
    BY <1>11, <1>12, <2>1, <2>2, <2>3 DEF SeenTold
  <2>5. QED
    BY <1>10, <1>12, <2>1, <2>4
<1>13. CASE TakeSnapshot /\ SameServer /\ SameRestores
  <2>1. /\ load.phase = "snapshot" /\ load'.phase = "replace" /\ load'.data = Committed
        /\ load'.since = load.since /\ load'.era = load.era
    BY <1>1, <1>13, SnapshotFields
  <2>2. SeenTold => SeenTold'
    BY <2>1 DEF SeenTold
  <2>3. QED
    BY <1>10, <1>13, <2>1, <2>2
<1>14. CASE ReplaceCache /\ SameServer /\ SameRestores
  <2>1. /\ load.phase = "replace" /\ load'.phase = "entities" /\ cache'.data = load.data
        /\ load'.since = load.since /\ load'.era = load.era
    BY <1>1, <1>14, ReplaceFields
  <2>2. Told(load.since) \subseteq load.since
    BY DEF Told
  <2>3. SeenTold => SeenTold'
    BY <1>11, <1>14, <2>1, <2>2 DEF SeenTold
  <2>4. QED
    BY <1>10, <1>14, <2>1, <2>3
<1>15. CASE ReadEntities /\ SameServer /\ SameEntities /\ SameRestores
  <2>1. /\ load.phase = "entities" /\ load'.phase = "revision" /\ load'.data = cache.data
        /\ load'.taken = cache.taken /\ load'.since = load.since /\ load'.era = load.era
    BY <1>1, <1>15, EntitiesFields
  <2>2. SeenTold => SeenTold'
    BY <1>11, <1>15, <2>1 DEF SeenTold, SameRestores
  <2>3. QED
    BY <1>10, <1>15, <2>1, <2>2
<1>16. CASE ReadRevision /\ SameServer /\ SameEntities /\ SameRestores
  <2>1. /\ load.phase = "revision" /\ load'.phase = "loaded" /\ load'.data = load.data
        /\ load'.taken = load.taken /\ load'.since = load.since /\ load'.era = load.era
    BY <1>1, <1>16, RevisionFields
  <2>2. SeenTold => SeenTold'
    BY <1>11, <1>16, <2>1 DEF SeenTold, SameRestores
  <2>3. QED
    BY <1>10, <1>16, <2>1, <2>2
<1>17. CASE Moving("failed") \/ Moving("closing")
  <2>1. /\ load'.phase \in {"failed", "closing"} /\ load'.era = load.era
        /\ spent'["restores"] = spent["restores"]
    BY <1>1, <1>17, MovingFields DEF Moving, SameRestores
  <2>2. SeenTold'
    BY <2>1 DEF SeenTold
  <2>3. QED
    BY <1>6, <2>1, <2>2
<1>18. CASE ClearWorkerRefs /\ SameRestores
  <2>1. load'.phase = "idle" /\ load'.era = 0 /\ spent'["restores"] = spent["restores"]
    BY <1>18, NoLoadFields DEF ClearWorkerRefs, SameRestores
  <2>2. SeenTold'
    BY <2>1 DEF SeenTold
  <2>3. QED
    BY <1>1, <1>2, <2>1, <2>2 DEF FreshInv
<1>19. QED
  BY <1>1, <1>4, <1>5, <1>7, <1>9, <1>12, <1>13, <1>14, <1>15, <1>16, <1>17, <1>18, StepCases

\* standard_refresh may keep the cached entities when the feed is empty after
\* their cursor: whatever it shows, from a snapshot of its own or an earlier
\* one of the same era, holds all that the feed tells of.
THEOREM RefreshShowsAll == Spec => RefreshIsFresh
<1> DEFINE Fresh == (load.phase = "loaded" /\ load'.phase = "closing"
                       /\ load.era = spent.restores /\ load.taken = spent.restores)
                      => Told(load.since) \subseteq shown'
<1>1. Init => FreshInv
  <2> SUFFICES ASSUME Init
               PROVE  FreshInv
    OBVIOUS
  <2>1. spent["restores"] \in Nat /\ Seen /\ load.era = spent["restores"]
        /\ load.phase \in {"changes", "snapshot"}
    BY InitLoad, TypedInit DEF Typed, Steps
  <2>2. SeenTold
    BY <2>1 DEF Seen, SeenTold
  <2>3. QED
    BY <2>1, <2>2, FeedInit DEF FreshInv
<1>2. FreshInv /\ [Next]_vars => FreshInv'
  <2>1. FreshInv /\ UNCHANGED vars => FreshInv'
    BY FreshStutter
  <2>2. QED
    BY <2>1, FreshStep
<1>3. ASSUME FreshInv, [Next]_vars
      PROVE  [Fresh]_vars
  <2>1. SUFFICES ASSUME Next, load.phase = "loaded", load'.phase = "closing",
                        load.era = spent.restores, load.taken = spent.restores
                 PROVE  Told(load.since) \subseteq shown'
    BY <1>3
  <2>2. Told(load.since) \subseteq load.data
    BY <1>3, <2>1 DEF FreshInv, SeenTold
  <2>3. shown' = load.data
    BY <1>3, <2>1, ShownIsLoaded DEF FreshInv, FeedInv
  <2>4. QED
    BY <2>2, <2>3
<1>4. FreshInv /\ [Next]_vars => [Fresh]_vars
  BY <1>3
<1> HIDE DEF Fresh
<1>5. Spec => [][Fresh]_vars
  BY <1>1, <1>2, <1>4, PTL DEF Spec
<1>6. QED
  BY <1>5 DEF Fresh, RefreshIsFresh
=============================================================================
