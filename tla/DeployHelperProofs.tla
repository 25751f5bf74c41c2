------------------------- MODULE DeployHelperProofs -------------------------
(***************************************************************************)
(* The properties of DeployHelper for any number of deployments, host      *)
(* changes, helpers and releases. Every variable keeps its kind whatever   *)
(* operations meet on a transaction. As long as none have met, a helper    *)
(* past its lock stage is the only one that is, because the lock names its *)
(* transaction; all that links, files and service owe to it follows from   *)
(* where it is and from the record that a kill leaves behind.              *)
(***************************************************************************)
EXTENDS DeployHelper, TLAPS

DeployOps == {"begin", "stage", "abort", "activate", "undo"}
HostOps == {"host", "host_rollback", "restore"}
HelperRecords ==
    [op : Operations, of : Transactions \cup {None}, done : Steps, state : Contents]

-----------------------------------------------------------------------------
(* Kinds.                                                                  *)

Filled(state) == state.prev \in Releases /\ state.target \in Releases

\* The transaction and the state in memory suit the operation.
Fits(a) ==
    /\ a.op \in DeployOps => a.of \in Deployments
    /\ a.op \in HostOps => a.of \in HostChanges
    /\ a.of \in Deployments => Filled(a.state)
    /\ a.op \in HostOps /\ a.done = "restoring" => a.state.backup # Unwritten

TypeInv ==
    /\ TypeOK
    /\ \A p \in Helpers : Fits(at[p]) /\ (refresh[p] => at[p].of # None)
    /\ \A d \in Deployments : record[d] # "absent" => Filled(kept[d])

DiskTyped ==
    /\ staging \subseteq Deployments /\ promoted \subseteq Releases
    /\ lock \in Transactions \cup {Unwritten, None}
    /\ current \in Releases /\ {previous, running} \subseteq Releases \cup {None}
    /\ files \in HostChanges \cup {Mixed, None} /\ made \subseteq HostChanges

LEMMA ConstantsApart ==
    /\ None \notin Transactions /\ Unwritten \notin Transactions /\ None # Unwritten
    /\ Mixed \notin HostChanges /\ Mixed # None /\ Mixed # Unwritten
    /\ \A d \in Deployments : d \in Transactions /\ d \notin HostChanges
    /\ \A h \in HostChanges : h \in Transactions
    /\ \A t \in Transactions : t \in Deployments \/ t \in HostChanges
  BY DeployAssumption DEF Transactions

LEMMA Kinds ==
    /\ States \subseteq Steps /\ Operations = DeployOps \cup HostOps \cup {"none"}
    /\ DeployOps \cap HostOps = {} /\ "none" \notin DeployOps \cup HostOps
    /\ "restoring" \notin States
  BY DEF States, Steps, Operations, DeployOps, HostOps, BeforeActivation, Eligible

LEMMA IdleBlank ==
    /\ Blank \in Contents /\ Idle \in HelperRecords /\ Fits(Idle)
    /\ Idle.of = None /\ Idle.op = "none" /\ Idle.done = "none" /\ Idle.state = Blank
    /\ Blank.backup = Unwritten
<1>1. Blank \in Contents
  BY DEF Blank, Contents
<1>2. Idle.of = None /\ Idle.op = "none" /\ Idle.done = "none" /\ Idle.state = Blank
  BY DEF Idle
<1>3. Idle \in HelperRecords
  BY <1>1 DEF Idle, HelperRecords, Operations, Steps
<1>4. Fits(Idle)
  BY <1>2, Kinds, ConstantsApart DEF Fits
<1>5. Blank.backup = Unwritten
  BY DEF Blank
<1> QED
  BY <1>1, <1>2, <1>3, <1>4, <1>5

LEMMA HelperTyped ==
    ASSUME TypeInv
    PROVE  at \in [Helpers -> HelperRecords] /\ DiskTyped
  BY DEF TypeInv, TypeOK, HelperRecords, DiskTyped

\* A helper goes on to b, and nothing leaves its kind.
LEMMA TypesKept ==
    ASSUME TypeInv, NEW p \in Helpers, NEW b \in HelperRecords, Fits(b),
           at' = [at EXCEPT ![p] = b],
           refresh' \in [Helpers -> BOOLEAN], refresh'[p] => b.of # None,
           \A q \in Helpers : q # p => refresh'[q] = refresh[q],
           record' \in [Transactions -> States], kept' \in [Transactions -> Contents],
           \A d \in Deployments : record'[d] # "absent" => Filled(kept'[d]),
           DiskTyped', overlaps' \in 0 .. MaxOverlaps
    PROVE  TypeInv'
<1>1. /\ at' \in [Helpers -> HelperRecords] /\ at'[p] = b
      /\ \A q \in Helpers : q # p => at'[q] = at[q]
  BY HelperTyped
<1>2. TypeOK'
  BY <1>1 DEF TypeOK, HelperRecords, DiskTyped
<1>3. ASSUME NEW q \in Helpers
      PROVE  Fits(at'[q]) /\ (refresh'[q] => at'[q].of # None)
  <2>1. CASE q = p
    BY <1>1, <2>1
  <2>2. CASE q # p
    BY <1>1, <2>2 DEF TypeInv
  <2> QED
    BY <2>1, <2>2
<1>4. \A q \in Helpers : Fits(at[q])' /\ (refresh[q] => at[q].of # None)'
  BY <1>3 DEF Fits, Filled
<1> QED
  BY <1>2, <1>4 DEF TypeInv, Filled

LEMMA GoesMeans ==
    ASSUME TypeInv, NEW p \in Helpers, NEW op \in Operations, NEW done \in Steps,
           Goes(p, op, done)
    PROVE  \E b \in HelperRecords :
              /\ at' = [at EXCEPT ![p] = b] /\ overlaps' = overlaps
              /\ b.op = op /\ b.of = at[p].of /\ b.done = done /\ b.state = at[p].state
<1> DEFINE old == at[p]
           b == [old EXCEPT !.op = op, !.done = done]
<1>1. old \in HelperRecords
  BY HelperTyped
<1>2. at' = [at EXCEPT ![p] = b] /\ overlaps' = overlaps
  BY DEF Goes, Moves
<1> HIDE DEF old
<1>3. b \in HelperRecords /\ b.op = op /\ b.of = old.of /\ b.done = done /\ b.state = old.state
  BY <1>1 DEF HelperRecords
<1> HIDE DEF b
<1> QED
  BY <1>2, <1>3 DEF old

LEMMA SaveMeans ==
    ASSUME TypeInv, NEW p \in Helpers, NEW next \in Operations, NEW status \in States,
           NEW state \in Contents, SaveState(p, next, status, state), at[p].of \in Transactions
    PROVE  \E b \in HelperRecords :
              /\ at' = [at EXCEPT ![p] = b] /\ overlaps' = overlaps
              /\ record' = [record EXCEPT ![at[p].of] = Written(p, status)]
              /\ kept' = [kept EXCEPT ![at[p].of] = state]
              /\ refresh' = [refresh EXCEPT ![p] = (lock = at[p].of)]
              /\ Written(p, status) \in States
              /\ \/ b = Idle /\ lock # at[p].of
                 \/ b.op = next /\ b.of = at[p].of /\ b.done = status /\ b.state = state
<1> DEFINE old == at[p]
           b == [old EXCEPT !.op = next, !.done = status, !.state = state]
<1>1. old \in HelperRecords /\ status \in Steps
  BY HelperTyped, Kinds
<1>2. /\ record' = [record EXCEPT ![at[p].of] = Written(p, status)]
      /\ kept' = [kept EXCEPT ![at[p].of] = state]
      /\ refresh' = [refresh EXCEPT ![p] = (lock = at[p].of)]
  BY DEF SaveState
<1>3. Written(p, status) \in States
  BY DEF Written, States, Eligible
<1>4. \/ at' = [at EXCEPT ![p] = Idle] /\ overlaps' = overlaps /\ lock # at[p].of
      \/ at' = [at EXCEPT ![p] = b] /\ overlaps' = overlaps
  BY ConstantsApart DEF SaveState, Stops, Moves
<1> HIDE DEF old
<1>5. b \in HelperRecords /\ b.op = next /\ b.of = old.of /\ b.done = status /\ b.state = state
  BY <1>1 DEF HelperRecords
<1> HIDE DEF b
<1> QED
  BY <1>2, <1>3, <1>4, <1>5, IdleBlank DEF old

\* What an executing helper is.
LEMMA ExecutingTyped ==
    ASSUME TypeInv, NEW p \in Helpers, NEW op, NEW done, Executes(p, op, done), op # "none"
    PROVE  /\ at[p] \in HelperRecords /\ op \in Operations /\ at[p].op = op /\ at[p].done = done
           /\ ~refresh[p] /\ at[p].of \in Transactions /\ at[p].state \in Contents
           /\ Fits(at[p])
           /\ op \in DeployOps => at[p].of \in Deployments /\ Filled(at[p].state)
           /\ op \in HostOps => at[p].of \in HostChanges
<1>1. at[p] \in HelperRecords /\ Fits(at[p])
  BY HelperTyped DEF TypeInv
<1>2. at[p].op = op /\ at[p].done = done /\ ~refresh[p] /\ op \in Operations
      /\ at[p].state \in Contents
  BY <1>1 DEF Executes, HelperRecords
<1>3. op \in DeployOps \cup HostOps
  BY <1>2, Kinds
<1> QED
  BY <1>1, <1>2, <1>3, ConstantsApart DEF Fits

\* A save; the operation goes on to one of its kind.
LEMMA SaveTypes ==
    ASSUME TypeInv, NEW p \in Helpers, NEW op, NEW done, NEW next, NEW status \in States,
           NEW state \in Contents, Executes(p, op, done), op # "none",
           SaveState(p, next, status, state),
           \/ next = "none"
           \/ op \in DeployOps /\ next \in DeployOps
           \/ op \in HostOps /\ next \in HostOps,
           op \in DeployOps => Filled(state), DiskTyped'
    PROVE  TypeInv' /\ overlaps' = overlaps
<1>1. /\ at[p].of \in Transactions /\ op \in Operations /\ next \in Operations
      /\ op \in DeployOps => at[p].of \in Deployments
      /\ op \in HostOps => at[p].of \in HostChanges
  BY ExecutingTyped, Kinds
<1> DEFINE t == at[p].of
<1>2. PICK b \in HelperRecords :
        /\ at' = [at EXCEPT ![p] = b] /\ overlaps' = overlaps
        /\ record' = [record EXCEPT ![t] = Written(p, status)]
        /\ kept' = [kept EXCEPT ![t] = state]
        /\ refresh' = [refresh EXCEPT ![p] = (lock = t)]
        /\ Written(p, status) \in States
        /\ \/ b = Idle /\ lock # t
           \/ b.op = next /\ b.of = t /\ b.done = status /\ b.state = state
  BY <1>1, SaveMeans
<1> HIDE DEF t
<1>3. /\ t \in Transactions
      /\ op \in DeployOps => t \in Deployments
      /\ op \in HostOps => t \in HostChanges
  BY <1>1 DEF t
<1>4. t \in Deployments => Filled(state)
  BY <1>1, <1>3, Kinds, ConstantsApart
<1>5. Fits(b)
  <2>1. CASE b = Idle
    BY <2>1, IdleBlank
  <2>2. CASE b.op = next /\ b.of = t /\ b.done = status /\ b.state = state
    BY <1>3, <1>4, <2>2, Kinds DEF Fits
  <2> QED
    BY <1>2, <2>1, <2>2
<1>6. /\ refresh' \in [Helpers -> BOOLEAN] /\ (refresh'[p] => b.of # None)
      /\ \A q \in Helpers : q # p => refresh'[q] = refresh[q]
  BY <1>2, <1>3, ConstantsApart DEF TypeInv, TypeOK
<1>7. record' \in [Transactions -> States] /\ kept' \in [Transactions -> Contents]
  BY <1>2 DEF TypeInv, TypeOK
<1>8. ASSUME NEW d \in Deployments, record'[d] # "absent"
      PROVE  Filled(kept'[d])
  <2>1. CASE d = t
    BY <1>2, <1>3, <1>4, <2>1 DEF TypeInv, TypeOK
  <2>2. CASE d # t
    BY <1>2, <1>8, <2>2, ConstantsApart DEF TypeInv, TypeOK
  <2> QED
    BY <2>1, <2>2
<1>9. overlaps' \in 0 .. MaxOverlaps
  BY <1>2 DEF TypeInv, TypeOK
<1> QED
  BY <1>2, <1>5, <1>6, <1>7, <1>8, <1>9, TypesKept

LEMMA SaveStepTypes ==
    ASSUME TypeInv, NEW p \in Helpers, NEW op, NEW done, NEW next, NEW status \in States,
           SaveStep(p, op, done, next, status), op # "none",
           \/ next = "none"
           \/ op \in DeployOps /\ next \in DeployOps
           \/ op \in HostOps /\ next \in HostOps
    PROVE  TypeInv' /\ overlaps' = overlaps
<1>1. /\ Executes(p, op, done) /\ SaveState(p, next, status, at[p].state)
      /\ UNCHANGED <<release, lock, links, host>>
  BY DEF SaveStep, Save
<1>2. at[p].state \in Contents /\ (op \in DeployOps => Filled(at[p].state))
  BY <1>1, ExecutingTyped
<1>3. DiskTyped'
  BY <1>1, HelperTyped DEF DiskTyped, release, links, host
<1> QED
  BY <1>1, <1>2, <1>3, SaveTypes

\* Any other step of an operation, and its end.
LEMMA GoesTypes ==
    ASSUME TypeInv, NEW p \in Helpers, NEW op, NEW done, NEW to \in Steps, op # "none",
           Executes(p, op, done), Goes(p, op, to), UNCHANGED <<saved, refresh>>,
           op \in HostOps /\ to = "restoring" => at[p].state.backup # Unwritten, DiskTyped'
    PROVE  TypeInv' /\ overlaps' = overlaps
<1>1. at[p] \in HelperRecords /\ Fits(at[p]) /\ op \in Operations /\ ~refresh[p] /\ at[p].op = op
  BY ExecutingTyped
<1>2. PICK b \in HelperRecords :
        /\ at' = [at EXCEPT ![p] = b] /\ overlaps' = overlaps
        /\ b.op = op /\ b.of = at[p].of /\ b.done = to /\ b.state = at[p].state
  BY <1>1, GoesMeans
<1>3. Fits(b)
  BY <1>1, <1>2 DEF Fits
<1>4. UNCHANGED <<record, kept, refresh>>
  BY DEF saved
<1>5. /\ record' \in [Transactions -> States] /\ kept' \in [Transactions -> Contents]
      /\ refresh' \in [Helpers -> BOOLEAN] /\ ~refresh'[p]
      /\ \A q \in Helpers : q # p => refresh'[q] = refresh[q]
      /\ overlaps' \in 0 .. MaxOverlaps
      /\ \A d \in Deployments : record'[d] # "absent" => Filled(kept'[d])
  BY <1>1, <1>2, <1>4 DEF TypeInv, TypeOK
<1> QED
  BY <1>2, <1>3, <1>5, TypesKept

LEMMA StopsTypes ==
    ASSUME TypeInv, NEW p \in Helpers, Stops(p), UNCHANGED saved,
           refresh' \in [Helpers -> BOOLEAN], ~refresh'[p],
           \A q \in Helpers : q # p => refresh'[q] = refresh[q], DiskTyped'
    PROVE  TypeInv' /\ overlaps' = overlaps
<1>1. at' = [at EXCEPT ![p] = Idle] /\ overlaps' = overlaps /\ UNCHANGED <<record, kept>>
  BY DEF Stops, Moves, saved
<1>2. /\ record' \in [Transactions -> States] /\ kept' \in [Transactions -> Contents]
      /\ overlaps' \in 0 .. MaxOverlaps
      /\ \A d \in Deployments : record'[d] # "absent" => Filled(kept'[d])
  BY <1>1 DEF TypeInv, TypeOK
<1> QED
  BY <1>1, <1>2, IdleBlank, TypesKept

LEMMA EndsTypes ==
    ASSUME TypeInv, NEW p \in Helpers, NEW op, NEW done, op # "none",
           \/ Rejects(p, op, done) \/ LockHeld(p, op, done) \/ ReleaseLock(p, op, done)
    PROVE  TypeInv' /\ overlaps' = overlaps
<1>1. /\ Executes(p, op, done) /\ Stops(p) /\ lock' \in {lock, None}
      /\ UNCHANGED <<saved, release, links, host, refresh>>
  BY DEF Rejects, LockHeld, ReleaseLock
<1>2. DiskTyped'
  BY <1>1, HelperTyped DEF DiskTyped, release, links, host
<1>3. ~refresh'[p] /\ refresh' \in [Helpers -> BOOLEAN]
      /\ \A q \in Helpers : q # p => refresh'[q] = refresh[q]
  BY <1>1 DEF Executes, TypeInv, TypeOK
<1> QED
  BY <1>1, <1>2, <1>3, StopsTypes

LEMMA CrashTypes ==
    ASSUME TypeInv, NEW p \in Helpers, Crash(p)
    PROVE  TypeInv' /\ overlaps' = overlaps
<1>1. DiskTyped'
  BY HelperTyped DEF Crash, DiskTyped, release, links, host
<1>2. ~refresh'[p] /\ refresh' \in [Helpers -> BOOLEAN]
      /\ \A q \in Helpers : q # p => refresh'[q] = refresh[q]
  BY DEF Crash, TypeInv, TypeOK
<1> QED
  BY <1>1, <1>2, StopsTypes DEF Crash

LEMMA RewriteTypes ==
    ASSUME TypeInv, NEW p \in Helpers, RewriteLock(p)
    PROVE  TypeInv' /\ overlaps' = overlaps
<1>1. at[p].of \in Transactions
  BY HelperTyped DEF RewriteLock, TypeInv, HelperRecords
<1>2. DiskTyped'
  BY <1>1, HelperTyped DEF RewriteLock, DiskTyped, release, links, host
<1>3. ~refresh'[p] /\ refresh' \in [Helpers -> BOOLEAN]
      /\ \A q \in Helpers : q # p => refresh'[q] = refresh[q]
  BY DEF RewriteLock, TypeInv, TypeOK
<1>4. CASE Stops(p)
  BY <1>2, <1>3, <1>4, StopsTypes DEF RewriteLock
<1>5. CASE UNCHANGED <<at, overlaps>>
  <2>1. UNCHANGED <<record, kept>>
    BY DEF RewriteLock, saved
  <2>2. at' = [at EXCEPT ![p] = at[p]] /\ at[p] \in HelperRecords /\ Fits(at[p])
        /\ overlaps' \in 0 .. MaxOverlaps
    BY <1>5, HelperTyped DEF TypeInv, TypeOK
  <2>3. /\ record' \in [Transactions -> States] /\ kept' \in [Transactions -> Contents]
        /\ \A d \in Deployments : record'[d] # "absent" => Filled(kept'[d])
    BY <2>1 DEF TypeInv, TypeOK
  <2> QED
    BY <1>2, <1>3, <1>5, <2>2, <2>3, TypesKept
<1> QED
  BY <1>4, <1>5 DEF RewriteLock

LEMMA LockTypes ==
    ASSUME TypeInv, NEW p \in Helpers, NEW op \in {"begin", "host"}, NEW done,
           CreateLock(p, op, done) \/ WriteLock(p, op)
    PROVE  TypeInv' /\ overlaps' = overlaps
<1>1. PICK from \in {done, "locking"}, to \in {"locking", "locked"} :
        /\ Executes(p, op, from) /\ Goes(p, op, to)
        /\ lock' \in {Unwritten, at[p].of} /\ UNCHANGED <<saved, release, links, host, refresh>>
  BY DEF CreateLock, WriteLock
<1>2. at[p].of \in Transactions
  BY <1>1, ExecutingTyped
<1>3. DiskTyped' /\ to \in Steps
  BY <1>1, <1>2, HelperTyped DEF DiskTyped, release, links, host, Steps
<1> QED
  BY <1>1, <1>3, GoesTypes

\* The operators' requests. While none have overlapped, no other helper is at
\* work on the transaction.
LEMMA StartTypes ==
    ASSUME TypeInv, NEW p \in Helpers, NEW op \in Operations, NEW t \in Transactions,
           NEW done \in Steps, NEW state \in Contents, Starts(p, op, t, done, state),
           done # "restoring", op \in DeployOps => t \in Deployments /\ Filled(state),
           op \in HostOps => t \in HostChanges, op # "none"
    PROVE  TypeInv' /\ (overlaps' = 0 => overlaps = 0)
<1> DEFINE b == [op |-> op, of |-> t, done |-> done, state |-> state]
<1>1. b \in HelperRecords /\ b.op = op /\ b.of = t /\ b.done = done /\ b.state = state
  BY DEF HelperRecords
<1>2. at' = [at EXCEPT ![p] = b] /\ UNCHANGED <<record, kept, release, lock, links, host, refresh>>
      /\ at[p] = Idle
  BY DEF Starts, saved
<1> HIDE DEF b
<1>3. Fits(b)
  BY <1>1, Kinds, ConstantsApart DEF Fits
<1>4. overlaps' \in 0 .. MaxOverlaps /\ (overlaps' = 0 => overlaps = 0)
  BY DeployAssumption DEF Starts, TypeInv, TypeOK
<1>5. DiskTyped'
  BY <1>2, HelperTyped DEF DiskTyped, release, links, host
<1>6. /\ record' \in [Transactions -> States] /\ kept' \in [Transactions -> Contents]
      /\ refresh' \in [Helpers -> BOOLEAN] /\ ~refresh'[p]
      /\ \A q \in Helpers : q # p => refresh'[q] = refresh[q]
      /\ \A d \in Deployments : record'[d] # "absent" => Filled(kept'[d])
  BY <1>2, IdleBlank DEF TypeInv, TypeOK
<1> QED
  BY <1>1, <1>2, <1>3, <1>4, <1>5, <1>6, TypesKept

LEMMA OperatorTypes ==
    ASSUME TypeInv, NEW p \in Helpers, Operator(p)
    PROVE  TypeInv' /\ (overlaps' = 0 => overlaps = 0)
<1>1. ASSUME NEW d \in Deployments, Begin(p, d)
      PROVE  TypeInv' /\ (overlaps' = 0 => overlaps = 0)
  <2>1. PICK r \in Releases :
          Starts(p, "begin", d, "started", [Blank EXCEPT !.prev = current, !.target = r])
    BY <1>1 DEF Begin
  <2>2. [Blank EXCEPT !.prev = current, !.target = r] \in Contents
        /\ Filled([Blank EXCEPT !.prev = current, !.target = r])
    BY DEF Blank, Contents, Filled, TypeInv, TypeOK
  <2>3. "begin" \in DeployOps /\ "started" \in Steps
    BY DEF DeployOps, Steps
  <2> QED
    BY <2>1, <2>2, <2>3, StartTypes, Kinds, ConstantsApart
<1>2. ASSUME NEW d \in Deployments, NEW op, NEW done,
             <<op, done>> \in {<<"stage", "LOCK_ACQUIRED">>, <<"abort", "abortable">>,
                               <<"activate", "STAGED_VALIDATED">>, <<"undo", "eligible">>},
             record[d] # "absent", Starts(p, op, d, done, kept[d])
      PROVE  TypeInv' /\ (overlaps' = 0 => overlaps = 0)
  <2>1. op \in DeployOps /\ done \in Steps /\ done # "restoring"
    BY <1>2 DEF DeployOps, Steps, States, BeforeActivation
  <2>2. kept[d] \in Contents /\ Filled(kept[d]) /\ d \in Transactions
    BY <1>2, ConstantsApart DEF TypeInv, TypeOK
  <2> QED
    BY <1>2, <2>1, <2>2, StartTypes, Kinds
<1>3. ASSUME NEW d \in Deployments, Stage(p, d) \/ Abort(p, d) \/ Activate(p, d) \/ Rollback(p, d)
      PROVE  TypeInv' /\ (overlaps' = 0 => overlaps = 0)
  BY <1>2, <1>3 DEF Stage, Abort, Activate, Rollback, Abortable, Eligible, BeforeActivation
<1>4. ASSUME NEW h \in HostChanges, Install(p, h) \/ HostRollback(p, h)
      PROVE  TypeInv' /\ (overlaps' = 0 => overlaps = 0)
  <2>1. PICK op \in {"host", "host_rollback"}, done \in {"started", "requested"},
             state \in {Blank, kept[h]} : Starts(p, op, h, done, state)
    BY <1>4 DEF Install, HostRollback
  <2>2. op \in HostOps /\ done \in Steps /\ done # "restoring" /\ h \in Transactions
    BY ConstantsApart DEF HostOps, Steps
  <2>3. state \in Contents
    BY <2>2, IdleBlank DEF TypeInv, TypeOK
  <2> QED
    BY <2>1, <2>2, <2>3, StartTypes, Kinds
<1> QED
  BY <1>1, <1>3, <1>4 DEF Operator

LEMMA BeginTypes ==
    ASSUME TypeInv, NEW p \in Helpers, BeginStep(p)
    PROVE  TypeInv' /\ overlaps' = overlaps
<1>1. /\ {"CREATED", "PREFLIGHT_PASSED", "LOCK_ACQUIRED"} \subseteq States
      /\ "begin" \in DeployOps
  BY DEF States, BeforeActivation, DeployOps
<1> QED
  BY <1>1, SaveStepTypes, LockTypes, EndsTypes DEF BeginStep

LEMMA StageTypes ==
    ASSUME TypeInv, NEW p \in Helpers, StageStep(p)
    PROVE  TypeInv' /\ overlaps' = overlaps
<1>1. BeforeActivation \subseteq States /\ "stage" \in DeployOps /\ "RELEASE_EXTRACTED" \in States
      /\ "STAGED_VALIDATED" \in States /\ "promoted" \in Steps /\ "promoted" # "restoring"
  BY DEF States, BeforeActivation, DeployOps, Steps
<1>2. ASSUME NEW s \in StageOrder, SaveStep(p, "stage", s[1], "stage", s[2])
      PROVE  TypeInv' /\ overlaps' = overlaps
  <2>1. s[2] \in States
    BY DEF StageOrder, States, BeforeActivation
  <2> QED
    BY <1>1, <1>2, <2>1, SaveStepTypes
<1>3. CASE Extract(p)
  <2>1. /\ Executes(p, "stage", "ARTIFACT_VERIFIED")
        /\ SaveState(p, "stage", "RELEASE_EXTRACTED", at[p].state)
        /\ staging' = staging \cup {at[p].of} /\ UNCHANGED <<promoted, lock, links, host>>
    BY <1>3 DEF Extract, Save
  <2>2. at[p].of \in Deployments /\ at[p].state \in Contents /\ Filled(at[p].state)
    BY <1>1, <2>1, ExecutingTyped
  <2>3. DiskTyped'
    BY <2>1, <2>2, HelperTyped DEF DiskTyped, links, host
  <2> QED
    BY <1>1, <2>1, <2>2, <2>3, SaveTypes
<1>4. CASE Promote(p)
  <2>1. /\ Executes(p, "stage", "RUNTIME_READY") /\ Goes(p, "stage", "promoted")
        /\ staging' = staging \ {at[p].of} /\ promoted' = promoted \cup {at[p].state.target}
        /\ UNCHANGED <<saved, lock, links, host, refresh>>
    BY <1>4 DEF Promote, Target
  <2>2. Filled(at[p].state)
    BY <1>1, <2>1, ExecutingTyped
  <2>3. DiskTyped'
    BY <2>1, <2>2, HelperTyped DEF DiskTyped, links, host, Filled
  <2> QED
    BY <1>1, <2>1, <2>3, GoesTypes
<1> QED
  BY <1>1, <1>2, <1>3, <1>4, SaveStepTypes, EndsTypes DEF StageStep

LEMMA AbortTypes ==
    ASSUME TypeInv, NEW p \in Helpers, AbortStep(p)
    PROVE  TypeInv' /\ overlaps' = overlaps
<1>1. "FAILED" \in States /\ "abort" \in DeployOps /\ "removed" \in Steps
  BY DEF States, DeployOps, Steps
<1>2. CASE RemoveStaging(p)
  <2>1. /\ Executes(p, "abort", "abortable") /\ Goes(p, "abort", "removed")
        /\ staging' \subseteq staging /\ UNCHANGED <<saved, promoted, lock, links, host, refresh>>
    BY <1>2 DEF RemoveStaging
  <2>2. DiskTyped'
    BY <2>1, HelperTyped DEF DiskTyped, links, host
  <2> QED
    BY <1>1, <2>1, <2>2, GoesTypes
<1> QED
  BY <1>1, <1>2, SaveStepTypes, EndsTypes DEF AbortStep

\* A step on the links or the service.
LEMMA RelinkTypes ==
    ASSUME TypeInv, NEW p \in Helpers, NEW op \in {"activate", "undo"}, NEW done,
           NEW to \in {"none", "previous", "linked", "restarted", "restored", "undone", "unhealthy"},
           Executes(p, op, done), Stops(p) \/ Goes(p, op, to),
           UNCHANGED <<saved, release, lock, host, refresh>>,
           current' \in {current, Target(p), Prev(p)}, previous' \in {previous, Prev(p)},
           running' \in {running, current, None}
    PROVE  TypeInv' /\ overlaps' = overlaps
<1>1. Filled(at[p].state) /\ ~refresh[p] /\ to \in Steps /\ op \in DeployOps
  BY ExecutingTyped DEF DeployOps, Steps
<1>2. DiskTyped'
  BY <1>1, HelperTyped DEF DiskTyped, Filled, Target, Prev, release, host
<1>3. CASE Goes(p, op, to)
  BY <1>1, <1>2, <1>3, Kinds, GoesTypes
<1>4. CASE Stops(p)
  <2>1. ~refresh'[p] /\ refresh' \in [Helpers -> BOOLEAN]
        /\ \A q \in Helpers : q # p => refresh'[q] = refresh[q]
    BY <1>1 DEF TypeInv, TypeOK
  <2> QED
    BY <1>2, <1>4, <2>1, StopsTypes
<1> QED
  BY <1>3, <1>4

LEMMA ActivateTypes ==
    ASSUME TypeInv, NEW p \in Helpers, ActivateStep(p)
    PROVE  TypeInv' /\ overlaps' = overlaps
<1>1. /\ {"ACTIVATION_STARTED", "ACTIVATED", "SERVICE_RESTARTED", "HEALTH_VALIDATED",
          "ROLLBACK_STARTED", "COMPLETED"} \subseteq States
      /\ {"activate", "undo"} \subseteq DeployOps
  BY DEF States, Eligible, DeployOps
<1>2. CASE LinkPrevious(p)
  BY <1>2, RelinkTypes DEF LinkPrevious, Relink
<1>3. CASE LinkCurrent(p)
  BY <1>3, RelinkTypes DEF LinkCurrent, Relink
<1>4. CASE VerifyLink(p)
  <2>1. CASE SaveStep(p, "activate", "linked", "activate", "ACTIVATED")
    BY <1>1, <2>1, SaveStepTypes
  <2>2. CASE ~SaveStep(p, "activate", "linked", "activate", "ACTIVATED")
    BY <1>4, <2>2, RelinkTypes DEF VerifyLink
  <2> QED
    BY <2>1, <2>2
<1>5. CASE Restart(p, "activate", "ACTIVATED", "restarted")
  BY <1>5, RelinkTypes DEF Restart, Relink
<1>6. CASE RestartFails(p, "activate", "ACTIVATED", "none")
  BY <1>6, RelinkTypes DEF RestartFails
<1> QED
  BY <1>1, <1>2, <1>3, <1>4, <1>5, <1>6, SaveStepTypes, EndsTypes DEF ActivateStep

LEMMA UndoTypes ==
    ASSUME TypeInv, NEW p \in Helpers, UndoStep(p)
    PROVE  TypeInv' /\ overlaps' = overlaps
<1>1. /\ {"ROLLBACK_STARTED", "ROLLED_BACK", "MANUAL_INTERVENTION_REQUIRED"} \subseteq States
      /\ "undo" \in DeployOps
  BY DEF States, Eligible, DeployOps
<1>2. CASE RestoreCurrent(p)
  BY <1>2, RelinkTypes DEF RestoreCurrent, Relink
<1>3. CASE Restart(p, "undo", "restored", "undone")
  BY <1>3, RelinkTypes DEF Restart, Relink
<1>4. CASE RestartFails(p, "undo", "restored", "unhealthy")
  BY <1>4, RelinkTypes DEF RestartFails
<1> QED
  BY <1>1, <1>2, <1>3, <1>4, SaveStepTypes, EndsTypes DEF UndoStep

LEMMA ReplaceTypes ==
    ASSUME TypeInv, NEW p \in Helpers, NEW op \in HostOps, NEW from, NEW to, NEW content,
           ReplaceFiles(p, op, from, to, content), to \in {"installing", "installed", "restoring", "restored"},
           to = "restoring" => at[p].state.backup # Unwritten,
           content \in {Mixed, at[p].of} \/ (from = "restoring" /\ content = at[p].state.backup)
    PROVE  TypeInv' /\ overlaps' = overlaps
<1>1. /\ Executes(p, op, from) /\ Goes(p, op, to) /\ files' = content
      /\ UNCHANGED <<saved, release, lock, links, made, refresh>>
  BY DEF ReplaceFiles
<1>2. /\ at[p].of \in HostChanges /\ at[p].state \in Contents /\ op # "none"
      /\ from = "restoring" => at[p].state.backup # Unwritten
  BY <1>1, Kinds, ExecutingTyped DEF Fits
<1>3. content \in HostChanges \cup {Mixed, None}
  BY <1>2 DEF Contents
<1>4. DiskTyped' /\ to \in Steps
  BY <1>1, <1>3, HelperTyped DEF DiskTyped, release, links, Steps
<1> QED
  BY <1>1, <1>2, <1>4, GoesTypes

LEMMA HostTypes ==
    ASSUME TypeInv, NEW p \in Helpers, HostStep(p)
    PROVE  TypeInv' /\ overlaps' = overlaps
<1>1. /\ {"CREATED", "LOCK_ACQUIRED", "BACKUPS_CREATED", "FILES_INSTALLED", "COMMITTED",
          "ROLLBACK_STARTED", "FAILED"} \subseteq States
      /\ {"host", "restore"} \subseteq HostOps /\ "backing" \in Steps
  BY DEF States, BeforeActivation, HostOps, Steps
<1>2. CASE MakeBackupDirectory(p)
  <2>1. /\ Executes(p, "host", "LOCK_ACQUIRED") /\ Goes(p, "host", "backing")
        /\ made' = made \cup {at[p].of}
        /\ UNCHANGED <<saved, release, lock, links, files, refresh>>
    BY <1>2 DEF MakeBackupDirectory
  <2>2. at[p].of \in HostChanges
    BY <1>1, <2>1, ExecutingTyped
  <2>3. DiskTyped'
    BY <2>1, <2>2, HelperTyped DEF DiskTyped, release, links
  <2> QED
    BY <1>1, <2>1, <2>3, GoesTypes
<1>3. CASE BackUpFiles(p)
  <2>1. /\ Executes(p, "host", "backing")
        /\ SaveState(p, "host", "BACKUPS_CREATED", [at[p].state EXCEPT !.backup = files])
        /\ UNCHANGED <<release, lock, links, host>>
    BY <1>3 DEF BackUpFiles
  <2>2. at[p].state \in Contents
    BY <2>1, ExecutingTyped
  <2>3. [at[p].state EXCEPT !.backup = files] \in Contents
    BY <2>2 DEF Contents, TypeInv, TypeOK
  <2>4. DiskTyped'
    BY <2>1, HelperTyped DEF DiskTyped, release, links, host
  <2> QED
    BY <1>1, <2>1, <2>3, <2>4, Kinds, SaveTypes
<1>4. CASE HostUnlock(p, "host", "COMMITTED", "restore", "ROLLBACK_STARTED")
  BY <1>1, <1>4, SaveStepTypes, EndsTypes DEF HostUnlock
<1>5. CASE \/ ReplaceFiles(p, "host", "BACKUPS_CREATED", "installing", Mixed)
           \/ ReplaceFiles(p, "host", "installing", "installed", at[p].of)
  BY <1>1, <1>5, ReplaceTypes
<1> QED
  BY <1>1, <1>2, <1>3, <1>4, <1>5, SaveStepTypes, EndsTypes, LockTypes DEF HostStep

LEMMA RestoreTypes ==
    ASSUME TypeInv, NEW p \in Helpers, RestoreStep(p)
    PROVE  TypeInv' /\ overlaps' = overlaps
<1>1. /\ {"ROLLBACK_STARTED", "ROLLED_BACK", "MANUAL_INTERVENTION_REQUIRED"} \subseteq States
      /\ {"host_rollback", "restore"} \subseteq HostOps
  BY DEF States, Eligible, HostOps
<1>2. ASSUME NEW op \in {"restore", "host_rollback"},
             \/ /\ at[p].state.backup # Unwritten
                /\ ReplaceFiles(p, op, "ROLLBACK_STARTED", "restoring", Mixed)
             \/ ReplaceFiles(p, op, "restoring", "restored", at[p].state.backup)
             \/ SaveStep(p, op, "restored", op, "ROLLED_BACK")
      PROVE  TypeInv' /\ overlaps' = overlaps
  BY <1>1, <1>2, ReplaceTypes, SaveStepTypes
<1>3. CASE HostUnlock(p, "restore", "ROLLED_BACK", "none", "MANUAL_INTERVENTION_REQUIRED")
  BY <1>1, <1>3, SaveStepTypes, EndsTypes DEF HostUnlock
<1> QED
  BY <1>1, <1>2, <1>3, SaveStepTypes, EndsTypes DEF RestoreStep

LEMMA NextTypes ==
    ASSUME TypeInv, [Next]_vars
    PROVE  TypeInv' /\ (overlaps' = 0 => overlaps = 0)
<1>1. CASE UNCHANGED vars
  <2>1. UNCHANGED <<record, kept, staging, promoted, lock, current, previous, running, files,
                    made, at, refresh, overlaps>>
    BY <1>1 DEF vars, saved, release, links, host
  <2> QED
    BY <2>1 DEF TypeInv, TypeOK, Fits, Filled
<1>2. ASSUME NEW p \in Helpers,
             \/ Operator(p) \/ RewriteLock(p) \/ BeginStep(p) \/ StageStep(p) \/ AbortStep(p)
             \/ ActivateStep(p) \/ UndoStep(p) \/ HostStep(p) \/ RestoreStep(p) \/ Crash(p)
      PROVE  TypeInv' /\ (overlaps' = 0 => overlaps = 0)
  BY <1>2, OperatorTypes, RewriteTypes, BeginTypes, StageTypes, AbortTypes, ActivateTypes,
     UndoTypes, HostTypes, RestoreTypes, CrashTypes
<1> QED
  BY <1>1, <1>2 DEF Next

-----------------------------------------------------------------------------
(* While no operations have overlapped.                                    *)

\* Not yet in possession of the lock. An install that uses an id again may
\* find that the lock still names it.
PreLock(a) ==
    \/ a.op = "begin" /\ a.done \in {"started", "CREATED", "PREFLIGHT_PASSED", "locking"}
    \/ a.op = "host" /\ a.done \in {"started", "CREATED", "locking"}

\* Where a helper is determines the record, and who holds the lock.
Placed(a) ==
    /\ PreLock(a) /\ a.op = "begin" => lock # a.of
    /\ ~PreLock(a) => lock = a.of
    /\ a.done = "locking" => lock = Unwritten
    /\ a.done \in States => record[a.of] = a.done
    /\ a.op = "begin" /\ a.done = "started" => record[a.of] = "absent"
    /\ a.done \in {"locking", "locked"} => record[a.of] \in {"CREATED", "PREFLIGHT_PASSED"}
    /\ a.done \in {"abortable", "removed"} => record[a.of] \in Abortable
    /\ a.done = "promoted" => record[a.of] = "RUNTIME_READY"
    /\ a.done = "backing" => record[a.of] = "LOCK_ACQUIRED"
    /\ a.op = "activate" /\ a.done \in {"previous", "linked"} =>
         record[a.of] = "ACTIVATION_STARTED"
    /\ a.op = "undo" /\ a.done = "restored" => record[a.of] = "ROLLBACK_STARTED"

\* What it has done to the links, the service and the files.
Done(a) ==
    /\ a.state.backup # Mixed
    /\ a.op \in HostOps /\ a.done \in {"locked", "installed", "restored"} => files # Mixed
    /\ a.op = "activate" /\ a.done \in {"STAGED_VALIDATED", "ACTIVATION_STARTED", "previous"} =>
         current = a.state.prev
    /\ a.op = "activate" /\ a.done \in
         {"previous", "linked", "ACTIVATED", "restarted", "SERVICE_RESTARTED", "HEALTH_VALIDATED"} =>
         previous = a.state.prev
    /\ a.op = "activate" /\ a.done \in
         {"linked", "ACTIVATED", "restarted", "SERVICE_RESTARTED", "HEALTH_VALIDATED"} =>
         current = a.state.target
    /\ a.op = "activate" /\ a.done \in {"restarted", "SERVICE_RESTARTED", "HEALTH_VALIDATED"} =>
         running = current
    /\ a.op = "undo" /\ a.done = "undone" => running = current

Active(p) == at[p].of # None

HelpersOK ==
    /\ \A p \in Helpers : Active(p) => Placed(at[p]) /\ Done(at[p])
    /\ \A p \in Helpers : ~Active(p) => at[p] = Idle
    /\ \A p \in Helpers : refresh[p] => Active(p) /\ lock = at[p].of
    /\ \A p, q \in Helpers : Active(p) /\ at[p].of = at[q].of => p = q
    /\ \A p, q \in Helpers : at[p].done = "locking" /\ at[q].done = "locking" => p = q

Relinking == Eligible \cup {"ROLLBACK_STARTED"}
Replacing == {"BACKUPS_CREATED", "ROLLBACK_STARTED", "CREATED"}
HeldWhileOpen == \A t \in Transactions : record[t] \in Open => lock = t

\* What the records tell about the rest of the disk.
RecordsOK ==
    /\ HeldWhileOpen
    /\ \A t \in Transactions : lock = t => record[t] # "absent"
    /\ running # current => lock \in Deployments /\ record[lock] \in Relinking
    /\ files = Mixed => lock \in HostChanges /\ record[lock] \in Replacing
    /\ \A t \in Transactions : kept[t].backup # Mixed

Alone == HelpersOK /\ RecordsOK
Sound == TypeInv /\ Alone
IInv == TypeInv /\ (overlaps = 0 => Alone)

\* What a helper that executes a step can rely on.
LEMMA Running ==
    ASSUME Sound, NEW p \in Helpers, at[p] # Idle
    PROVE  /\ Active(p) /\ at[p].of \in Transactions /\ at[p] \in HelperRecords
           /\ Placed(at[p]) /\ Done(at[p]) /\ Fits(at[p])
           /\ \A q \in Helpers \ {p} : at[q].of # at[p].of
<1>1. Active(p) /\ at[p] \in HelperRecords /\ Fits(at[p])
  BY HelperTyped DEF Sound, Alone, HelpersOK, TypeInv
<1>2. at[p].of \in Transactions
  BY <1>1 DEF Active, HelperRecords
<1> QED
  BY <1>1, <1>2 DEF Sound, Alone, HelpersOK

\* A helper moves on transaction t; the others do not notice.
LEMMA OthersKeep ==
    ASSUME Sound, NEW p \in Helpers, NEW q \in Helpers, q # p, NEW t \in Transactions,
           Active(q), at[q].of # t, at'[q] = at[q],
           \A u \in Transactions : u # t => record'[u] = record[u],
           \/ lock' = lock
           \/ lock \in {t, None} /\ lock' \in {t, None, Unwritten}
           \/ lock = Unwritten /\ at[p].done = "locking" /\ lock' = t,
           UNCHANGED <<current, previous, running, files>> \/ lock = t
    PROVE  Placed(at[q])' /\ Done(at[q])' /\ (lock = at[q].of => lock' = lock)
<1>1. at[q].of \in Transactions /\ Placed(at[q]) /\ Done(at[q]) /\ at[q] \in HelperRecords
      /\ Fits(at[q])
  BY Running, IdleBlank DEF Active
<1>2. record'[at[q].of] = record[at[q].of]
  BY <1>1
<1>3. lock = at[q].of => lock' = lock
  BY <1>1, ConstantsApart
<1>4. lock # at[q].of => lock' # at[q].of
  BY <1>1, ConstantsApart
<1>5. at[q].done = "locking" => lock' = lock
  BY <1>1, ConstantsApart DEF Placed, Sound, Alone, HelpersOK
<1>6. lock = at[q].of => UNCHANGED <<current, previous, running, files>>
  OBVIOUS
<1>7. Placed(at[q])'
  BY <1>1, <1>2, <1>3, <1>4, <1>5 DEF Placed, PreLock
<1>8. Done(at[q])'
  <2>1. CASE PreLock(at[q])
    BY <1>1, <2>1 DEF PreLock, Done, HostOps
  <2>2. CASE ~PreLock(at[q])
    <3>1. UNCHANGED <<current, previous, running, files>>
      BY <1>1, <1>6, <2>2 DEF Placed
    <3> QED
      BY <1>1, <3>1 DEF Done
  <2> QED
    BY <2>1, <2>2
<1> QED
  BY <1>3, <1>7, <1>8

\* Helper p goes on to b, and what it does concerns transaction t only.
Advances(p, b, t) ==
    /\ b \in HelperRecords /\ t \in Transactions
    /\ at' = [at EXCEPT ![p] = b] /\ (b = Idle \/ b.of = t)
    /\ \A q \in Helpers : q # p => refresh'[q] = refresh[q] /\ at[q].of # t
    /\ refresh'[p] => b.of = t /\ lock' = t
    /\ b.of = t => Placed(at[p])' /\ Done(at[p])'
    /\ b.done = "locking" => lock = None
    /\ \A u \in Transactions : u # t => record'[u] = record[u]
    /\ \/ lock' = lock
       \/ lock \in {t, None} /\ lock' \in {t, None, Unwritten}
       \/ lock = Unwritten /\ at[p].done = "locking" /\ lock' = t
    /\ UNCHANGED <<current, previous, running, files>> \/ lock = t

LEMMA HelperMoves ==
    ASSUME Sound, NEW p \in Helpers, NEW b, NEW t, Advances(p, b, t)
    PROVE  HelpersOK'
<1> USE DEF Advances
<1>1. /\ at' \in [Helpers -> HelperRecords] /\ at'[p] = b
      /\ \A q \in Helpers : q # p => at'[q] = at[q] /\ refresh'[q] = refresh[q]
  BY HelperTyped DEF Sound
<1>2. ASSUME NEW q \in Helpers, q # p, Active(q)
      PROVE  Placed(at[q])' /\ Done(at[q])' /\ (lock = at[q].of => lock' = lock)
  BY <1>1, <1>2, OthersKeep
<1>3. \A q \in Helpers : Active(q)' => Placed(at[q])' /\ Done(at[q])'
  BY <1>1, <1>2, IdleBlank DEF Active
<1>4. \A q \in Helpers : ~Active(q)' => at'[q] = Idle
  BY <1>1, ConstantsApart DEF Active, Sound, Alone, HelpersOK
<1>5. \A q \in Helpers : refresh'[q] => Active(q)' /\ lock' = at'[q].of
  BY <1>1, <1>2, ConstantsApart DEF Active, Sound, Alone, HelpersOK
<1>6. \A q, r \in Helpers : Active(q)' /\ at'[q].of = at'[r].of => q = r
  <2> SUFFICES ASSUME NEW q \in Helpers, NEW r \in Helpers, Active(q)', at'[q].of = at'[r].of
               PROVE  q = r
    OBVIOUS
  <2>1. CASE q # p /\ r # p
    BY <1>1, <2>1 DEF Active, Sound, Alone, HelpersOK
  <2>2. CASE q = p /\ r # p
    BY <1>1, <2>2, IdleBlank DEF Active
  <2>3. CASE q # p /\ r = p
    BY <1>1, <2>3, IdleBlank DEF Active
  <2> QED
    BY <2>1, <2>2, <2>3
<1>7. \A q, r \in Helpers : at'[q].done = "locking" /\ at'[r].done = "locking" => q = r
  <2>1. \A q \in Helpers : at[q].done = "locking" => lock = Unwritten
    BY IdleBlank, Running DEF Placed
  <2> QED
    BY <1>1, <2>1, ConstantsApart DEF Sound, Alone, HelpersOK
<1> QED
  BY <1>1, <1>3, <1>4, <1>5, <1>6, <1>7 DEF HelpersOK

\* What a save under the lock must find.
SaveFits(p, op, next, status) ==
    /\ op # "none" /\ ~PreLock(at[p])
    /\ next \in Operations \ {"begin"} /\ status \in States \ {"absent"}
    /\ op \in DeployOps => next \in DeployOps \cup {"none"}
    /\ op \in HostOps => next \in HostOps \cup {"none"}
    /\ next = "host" => status # "CREATED"
    /\ op \in DeployOps /\ record[at[p].of] \in Relinking =>
         status \in Relinking \/ running = current
    /\ op \in HostOps /\ record[at[p].of] \in Replacing =>
         status \in Replacing \/ files # Mixed
    /\ next = "activate" =>
         /\ status \in {"STAGED_VALIDATED", "ACTIVATION_STARTED"} => current = Prev(p)
         /\ status \in {"ACTIVATED", "SERVICE_RESTARTED", "HEALTH_VALIDATED"} =>
              previous = Prev(p) /\ current = Target(p)
         /\ status \in {"SERVICE_RESTARTED", "HEALTH_VALIDATED"} => running = current

LEMMA HeldSave ==
    ASSUME Sound, NEW p \in Helpers, NEW op, NEW done, NEW next, NEW status,
           NEW state \in Contents,
           Executes(p, op, done), SaveState(p, next, status, state),
           UNCHANGED <<lock, links, files>>, SaveFits(p, op, next, status),
           state.prev = Prev(p), state.target = Target(p), state.backup # Mixed
    PROVE  Alone'
<1> USE DEF SaveFits
<1> DEFINE t == at[p].of
<1>1. at[p] # Idle /\ at[p].op = op /\ at[p].done = done /\ ~refresh[p]
  BY IdleBlank DEF Executes
<1>2. /\ t \in Transactions /\ at[p] \in HelperRecords /\ Placed(at[p]) /\ Done(at[p])
      /\ op \in DeployOps => t \in Deployments
      /\ op \in HostOps => t \in HostChanges
      /\ op \in DeployOps \cup HostOps
      /\ \A q \in Helpers : q # p => at[q].of # t
  BY <1>1, Running, Kinds DEF Fits, HelperRecords
<1>3. lock = t /\ lock # Unwritten
  BY <1>2, ConstantsApart DEF Placed
<1>4. Written(p, status) = status
  BY <1>3 DEF Written
<1>5. PICK b \in HelperRecords :
        /\ at' = [at EXCEPT ![p] = b] /\ record' = [record EXCEPT ![t] = status]
        /\ kept' = [kept EXCEPT ![t] = state]
        /\ refresh' = [refresh EXCEPT ![p] = (lock = t)]
        /\ b.op = next /\ b.of = t /\ b.done = status /\ b.state = state
  BY <1>2, <1>3, <1>4, SaveMeans DEF Sound
<1>6. state.prev = at[p].state.prev /\ state.target = at[p].state.target
  BY DEF Prev, Target
<1> HIDE DEF t
<1>7. record' \in [Transactions -> States] /\ record'[t] = status
      /\ \A u \in Transactions : u # t => record'[u] = record[u]
  BY <1>2, <1>5 DEF Sound, TypeInv, TypeOK
<1>8. at'[p] = b /\ b.of = t
  BY <1>5, HelperTyped DEF Sound
<1>9. UNCHANGED <<lock, current, previous, running, files>>
  BY DEF links
<1>10. b.done \notin {"locking", "locked", "started", "abortable", "removed", "promoted", "backing",
                     "previous", "linked", "restored", "installed", "restarted", "undone"}
  BY <1>5 DEF States, BeforeActivation, Eligible
<1>11. Placed(at[p])'
  <2>1. ~PreLock(b)
    BY <1>5 DEF PreLock, States, BeforeActivation, Eligible
  <2> QED
    BY <1>3, <1>5, <1>7, <1>8, <1>9, <1>10, <2>1 DEF Placed
<1>12. Done(at[p])'
  <2>1. /\ b.op = "activate" /\ b.done \in {"STAGED_VALIDATED", "ACTIVATION_STARTED"} =>
             current = b.state.prev
        /\ b.op = "activate" /\ b.done \in
             {"ACTIVATED", "SERVICE_RESTARTED", "HEALTH_VALIDATED"} =>
             previous = b.state.prev /\ current = b.state.target
        /\ b.op = "activate" /\ b.done \in {"SERVICE_RESTARTED", "HEALTH_VALIDATED"} =>
             running = current
    BY <1>5 DEF Prev, Target
  <2> QED
    BY <1>5, <1>8, <1>9, <1>10, <2>1 DEF Done
<1>13. HelpersOK'
  <2>1. \A q \in Helpers : q # p => refresh'[q] = refresh[q]
    BY <1>5 DEF Sound, TypeInv, TypeOK
  <2>2. lock' = t
    BY <1>3, <1>9
  <2>3. Advances(p, b, t)
    BY <1>2, <1>3, <1>5, <1>7, <1>8, <1>9, <1>10, <1>11, <1>12, <2>1, <2>2 DEF Advances
  <2> QED
    BY <2>3, HelperMoves
<1>14. RecordsOK'
  <2>1. HeldWhileOpen'
    BY <1>3, <1>7, <1>9 DEF Sound, Alone, RecordsOK, HeldWhileOpen
  <2>2. \A u \in Transactions : lock' = u => record'[u] # "absent"
    BY <1>3, <1>7, <1>9 DEF Sound, Alone, RecordsOK
  <2>3. running' # current' => lock' \in Deployments /\ record'[lock'] \in Relinking
    <3>1. running # current => t \in Deployments /\ record[t] \in Relinking
      BY <1>3 DEF Sound, Alone, RecordsOK
    <3>2. t \in Deployments => op \in DeployOps
      BY <1>2, ConstantsApart DEF t
    <3> QED
      BY <1>3, <1>7, <1>9, <3>1, <3>2 DEF t
  <2>4. files' = Mixed => lock' \in HostChanges /\ record'[lock'] \in Replacing
    <3>1. files = Mixed => t \in HostChanges /\ record[t] \in Replacing
      BY <1>3 DEF Sound, Alone, RecordsOK
    <3>2. t \in HostChanges => op \in HostOps
      BY <1>2, ConstantsApart DEF t
    <3> QED
      BY <1>3, <1>7, <1>9, <3>1, <3>2 DEF t
  <2>5. \A u \in Transactions : kept'[u].backup # Mixed
    BY <1>2, <1>5 DEF Sound, Alone, RecordsOK, TypeInv, TypeOK
  <2> QED
    BY <2>1, <2>2, <2>3, <2>4, <2>5 DEF RecordsOK
<1> QED
  BY <1>13, <1>14 DEF Alone

LEMMA HeldSaveStep ==
    ASSUME Sound, NEW p \in Helpers, NEW op, NEW done, NEW next, NEW status,
           SaveStep(p, op, done, next, status), SaveFits(p, op, next, status)
    PROVE  Alone'
<1>1. /\ Executes(p, op, done) /\ SaveState(p, next, status, at[p].state)
      /\ UNCHANGED <<lock, links, files>> /\ op # "none"
  BY DEF SaveStep, Save, host, SaveFits
<1>2. at[p].state \in Contents
  BY <1>1, ExecutingTyped DEF Sound
<1>3. at[p].state.backup # Mixed
  BY <1>1, Running, IdleBlank DEF Executes, Done
<1> QED
  BY <1>1, <1>2, <1>3, HeldSave DEF Prev, Target

\* A save before the lock is taken.
LEMMA EarlySaveStep ==
    ASSUME Sound, NEW p \in Helpers, NEW op, NEW done, NEW status,
           SaveStep(p, op, done, op, status),
           <<op, done, status>> \in
             {<<"begin", "started", "CREATED">>, <<"begin", "CREATED", "PREFLIGHT_PASSED">>,
              <<"host", "started", "CREATED">>}
    PROVE  Alone'
<1> DEFINE t == at[p].of
<1>1. at[p] # Idle /\ at[p].op = op /\ at[p].done = done /\ ~refresh[p] /\ op # "none"
  BY IdleBlank DEF SaveStep, Executes
<1>2. /\ t \in Transactions /\ Placed(at[p]) /\ Done(at[p]) /\ at[p].state \in Contents
      /\ op = "begin" => t \in Deployments
      /\ op = "host" => t \in HostChanges
      /\ \A q \in Helpers : q # p => at[q].of # t
  BY <1>1, Running DEF Fits, DeployOps, HostOps, HelperRecords
<1>3. PreLock(at[p]) /\ (op = "begin" => lock # t)
  BY <1>1, <1>2 DEF Placed, PreLock
<1>4. Written(p, status) = status
  BY <1>1 DEF Written
<1>5. op \in Operations /\ status \in Steps /\ status \in {"CREATED", "PREFLIGHT_PASSED"}
      /\ status \in States
  BY DEF Operations, Steps, States
<1>6. PICK b \in HelperRecords :
        /\ at' = [at EXCEPT ![p] = b] /\ record' = [record EXCEPT ![t] = status]
        /\ kept' = [kept EXCEPT ![t] = at[p].state]
        /\ refresh' = [refresh EXCEPT ![p] = (lock = t)]
        /\ \/ b = Idle /\ lock # t
           \/ b.op = op /\ b.of = t /\ b.done = status /\ b.state = at[p].state
  BY <1>2, <1>4, <1>5, SaveMeans DEF SaveStep, Save, Sound
<1>7. UNCHANGED <<lock, current, previous, running, files>>
  BY DEF SaveStep, links, host
<1>8. at[p].state.backup # Mixed
  BY <1>2 DEF Done
<1> HIDE DEF t
<1>9. /\ record' \in [Transactions -> States] /\ record'[t] = status
      /\ \A u \in Transactions : u # t => record'[u] = record[u]
  BY <1>2, <1>5, <1>6 DEF Sound, TypeInv, TypeOK
<1>10. at'[p] = b /\ (b = Idle \/ b.of = t)
  BY <1>6, HelperTyped DEF Sound
<1>11. ASSUME b.of = t
       PROVE  Placed(at[p])' /\ Done(at[p])'
  <2>1. b.op = op /\ b.of = t /\ b.done = status /\ b.state = at[p].state
    BY <1>2, <1>6, <1>11, IdleBlank, ConstantsApart
  <2>2. PreLock(b)
    BY <2>1 DEF PreLock
  <2>3. Placed(at[p])'
    BY <1>3, <1>5, <1>7, <1>9, <1>10, <1>11, <2>1, <2>2 DEF Placed
  <2>4. Done(at[p])'
    BY <1>5, <1>8, <1>10, <2>1 DEF Done
  <2> QED
    BY <2>3, <2>4
<1>12. /\ \A q \in Helpers : q # p => refresh'[q] = refresh[q]
       /\ refresh'[p] => b.of = t /\ lock' = t
  BY <1>6, <1>7 DEF Sound, TypeInv, TypeOK
<1>13. b.done # "locking"
  BY <1>5, <1>6, IdleBlank
<1>14. Advances(p, b, t)
  BY <1>2, <1>6, <1>7, <1>9, <1>10, <1>11, <1>12, <1>13 DEF Advances
<1>15. HelpersOK'
  BY <1>14, HelperMoves
<1>16. RecordsOK'
  <2>1. HeldWhileOpen'
    BY <1>5, <1>7, <1>9
       DEF Sound, Alone, RecordsOK, HeldWhileOpen, Open, BeforeActivation, Eligible
  <2>2. \A u \in Transactions : lock' = u => record'[u] # "absent"
    BY <1>5, <1>7, <1>9 DEF Sound, Alone, RecordsOK
  <2>3. running' # current' => lock' \in Deployments /\ record'[lock'] \in Relinking
    BY <1>2, <1>3, <1>7, <1>9, ConstantsApart DEF Sound, Alone, RecordsOK
  <2>4. files' = Mixed => lock' \in HostChanges /\ record'[lock'] \in Replacing
    BY <1>2, <1>3, <1>7, <1>9, ConstantsApart DEF Sound, Alone, RecordsOK, Replacing
  <2>5. \A u \in Transactions : kept'[u].backup # Mixed
    BY <1>2, <1>6, <1>8 DEF Sound, Alone, RecordsOK, TypeInv, TypeOK
  <2> QED
    BY <2>1, <2>2, <2>3, <2>4, <2>5 DEF RecordsOK
<1> QED
  BY <1>15, <1>16 DEF Alone

Closed == {"COMPLETED", "FAILED", "ROLLED_BACK", "COMMITTED"}

\* An operation that ends without a save.
Ending(p) ==
    /\ at[p] # Idle /\ Stops(p) /\ ~refresh'[p]
    /\ \A q \in Helpers : q # p => refresh'[q] = refresh[q]
    /\ UNCHANGED <<record, kept, files, current, previous>>
    /\ running' # running =>
         lock = at[p].of /\ lock' = lock /\ lock \in Deployments /\ record[lock] \in Relinking
    /\ lock' # lock => lock = at[p].of /\ lock' = None /\ record[lock] \in Closed

LEMMA EndingKeeps ==
    ASSUME Sound, NEW p \in Helpers, Ending(p)
    PROVE  Alone'
<1> DEFINE t == at[p].of
<1>1. t \in Transactions /\ \A q \in Helpers : q # p => at[q].of # t
  BY Running DEF Ending
<1>2. at' = [at EXCEPT ![p] = Idle]
  BY DEF Ending, Stops, Moves
<1> HIDE DEF t
<1>3. Advances(p, Idle, t)
  BY <1>1, <1>2, IdleBlank, ConstantsApart DEF Advances, Ending, t
<1>4. HelpersOK'
  BY <1>3, HelperMoves
<1>5. Closed \cap (Open \cup Relinking \cup Replacing) = {}
  BY DEF Closed, Open, Relinking, Replacing, BeforeActivation, Eligible
<1>6. RecordsOK'
  <2>1. HeldWhileOpen'
    BY <1>1, <1>5 DEF Ending, Sound, Alone, RecordsOK, HeldWhileOpen, t
  <2>2. \A u \in Transactions : lock' = u => record'[u] # "absent"
    BY ConstantsApart DEF Ending, Sound, Alone, RecordsOK
  <2>3. running' # current' => lock' \in Deployments /\ record'[lock'] \in Relinking
    BY <1>5 DEF Ending, Sound, Alone, RecordsOK
  <2>4. files' = Mixed => lock' \in HostChanges /\ record'[lock'] \in Replacing
    BY <1>5 DEF Ending, Sound, Alone, RecordsOK
  <2> QED
    BY <2>1, <2>2, <2>3, <2>4 DEF RecordsOK, Sound, Alone, Ending
<1> QED
  BY <1>4, <1>6 DEF Alone

LEMMA RejectsKeep ==
    ASSUME Sound, NEW p \in Helpers, NEW op, NEW done, op # "none",
           Rejects(p, op, done) \/ LockHeld(p, op, done)
    PROVE  Alone'
<1>1. Ending(p)
  BY IdleBlank DEF LockHeld, Rejects, Executes, Ending, links, saved, host
<1> QED
  BY <1>1, EndingKeeps

LEMMA ReleaseKeeps ==
    ASSUME Sound, NEW p \in Helpers, NEW op, NEW done, op # "none",
           ReleaseLock(p, op, done), ~PreLock(at[p]), done \in Closed
    PROVE  Alone'
<1>1. at[p] # Idle /\ at[p].done = done /\ ~refresh[p] /\ done \in States
  BY IdleBlank DEF ReleaseLock, Executes, Closed, States
<1>2. lock = at[p].of /\ record[lock] = done
  BY <1>1, Running DEF Placed
<1>3. Ending(p)
  BY <1>1, <1>2 DEF ReleaseLock, Ending, links, saved, host
<1> QED
  BY <1>3, EndingKeeps

LEMMA CrashKeeps ==
    ASSUME Sound, NEW p \in Helpers, Crash(p)
    PROVE  Alone'
<1>1. Ending(p)
  BY DEF Crash, Ending, links, saved, host, Sound, TypeInv, TypeOK
<1> QED
  BY <1>1, EndingKeeps

\* The lock still names the transaction when the rest of the save rewrites it.
LEMMA RewriteKeeps ==
    ASSUME Sound, NEW p \in Helpers, RewriteLock(p)
    PROVE  Alone'
<1>1. at[p] # Idle /\ lock = at[p].of
  BY IdleBlank DEF RewriteLock, Sound, Alone, HelpersOK, Active
<1>2. UNCHANGED <<record, kept, lock, current, previous, running, files>>
  BY <1>1 DEF RewriteLock, saved, links, host
<1>3. ~refresh'[p] /\ \A q \in Helpers : q # p => refresh'[q] = refresh[q]
  BY DEF RewriteLock, Sound, TypeInv, TypeOK
<1>4. CASE Stops(p)
  <2>1. Ending(p)
    BY <1>1, <1>2, <1>3, <1>4 DEF Ending
  <2> QED
    BY <2>1, EndingKeeps
<1>5. CASE UNCHANGED at
  <2>1. HelpersOK'
    BY <1>2, <1>3, <1>5 DEF Sound, Alone, HelpersOK, Active, Placed, Done, PreLock
  <2>2. RecordsOK'
    BY <1>2 DEF Sound, Alone, RecordsOK, HeldWhileOpen
  <2> QED
    BY <2>1, <2>2 DEF Alone
<1> QED
  BY <1>4, <1>5 DEF RewriteLock

\* An operation starts on a transaction no helper works on.
StartFits(op, t, done, state) ==
    /\ state.backup # Mixed
    /\ \/ <<op, done>> = <<"begin", "started">> /\ record[t] = "absent"
       \/ <<op, done>> = <<"host", "started">>
       \/ /\ lock = t
          /\ <<op, done>> \in {<<"stage", "LOCK_ACQUIRED">>, <<"abort", "abortable">>,
                               <<"activate", "STAGED_VALIDATED">>, <<"undo", "eligible">>,
                               <<"host_rollback", "requested">>}
          /\ done \in States => record[t] = done
          /\ op = "abort" => record[t] \in Abortable
          /\ op = "activate" => current = state.prev

LEMMA StartKeeps ==
    ASSUME Sound, overlaps' = 0,
           NEW p \in Helpers, NEW op \in Operations, NEW t \in Transactions, NEW done \in Steps,
           NEW state \in Contents, Starts(p, op, t, done, state), StartFits(op, t, done, state)
    PROVE  Alone'
<1> DEFINE b == [op |-> op, of |-> t, done |-> done, state |-> state]
<1>1. at[p] = Idle /\ at' = [at EXCEPT ![p] = b]
      /\ UNCHANGED <<record, kept, lock, current, previous, running, files, refresh>>
  BY DEF Starts, saved, links, host
<1>2. \A q \in Helpers : at[q].of # t
  BY DeployAssumption DEF Starts, Sound, TypeInv, TypeOK
<1>3. b \in HelperRecords /\ b.op = op /\ b.of = t /\ b.done = done /\ b.state = state
  BY DEF HelperRecords
<1> HIDE DEF b
<1>4. at'[p] = b
  BY <1>1, HelperTyped DEF Sound
<1>5. record[t] = "absent" => lock # t
  BY DEF Sound, Alone, RecordsOK
<1>6. Placed(at[p])'
  BY <1>1, <1>3, <1>4, <1>5 DEF StartFits, Placed, PreLock, States, BeforeActivation, Eligible
<1>7. Done(at[p])'
  BY <1>1, <1>3, <1>4 DEF StartFits, Done, HostOps
<1>8. ~refresh[p]
  BY <1>1, IdleBlank DEF Sound, Alone, HelpersOK, Active
<1>9. b.done # "locking"
  BY <1>3 DEF StartFits
<1>10. Advances(p, b, t)
  BY <1>1, <1>2, <1>3, <1>6, <1>7, <1>8, <1>9 DEF Advances
<1>11. HelpersOK'
  BY <1>10, HelperMoves
<1>12. RecordsOK'
  BY <1>1 DEF Sound, Alone, RecordsOK, HeldWhileOpen
<1> QED
  BY <1>11, <1>12 DEF Alone

\* A step under the lock that leaves records and lock alone.
Moving(p, op, done, to) ==
    /\ Executes(p, op, done) /\ op # "none" /\ ~PreLock(at[p]) /\ op # "begin"
    /\ Goes(p, op, to) /\ to \in Steps \ (States \cup {"started", "locking", "locked", "abortable"})
    /\ UNCHANGED <<record, kept, lock, refresh>>
    /\ running' # current' => op \in DeployOps /\ record[at[p].of] \in Relinking
    /\ files' = Mixed => op \in HostOps /\ record[at[p].of] \in Replacing
    /\ to = "promoted" => record[at[p].of] = "RUNTIME_READY"
    /\ to = "removed" => record[at[p].of] \in Abortable
    /\ to = "backing" => record[at[p].of] = "LOCK_ACQUIRED"
    /\ op \in HostOps /\ to \in {"installed", "restored"} => files' # Mixed
    /\ op = "activate" =>
         /\ to \in {"previous", "linked"} => record[at[p].of] = "ACTIVATION_STARTED"
         /\ to = "previous" => current' = Prev(p)
         /\ to \in {"previous", "linked", "restarted"} => previous' = Prev(p)
         /\ to \in {"linked", "restarted"} => current' = Target(p)
         /\ to = "restarted" => running' = current'
    /\ op = "undo" =>
         /\ to = "restored" => record[at[p].of] = "ROLLBACK_STARTED"
         /\ to = "undone" => running' = current'

LEMMA MovingKeeps ==
    ASSUME Sound, NEW p \in Helpers, NEW op, NEW done, NEW to, Moving(p, op, done, to)
    PROVE  Alone'
<1> DEFINE t == at[p].of
<1>1. at[p] # Idle /\ at[p].op = op /\ ~refresh[p]
  BY IdleBlank DEF Moving, Executes
<1>2. /\ t \in Transactions /\ Placed(at[p]) /\ Done(at[p]) /\ op \in Operations
      /\ op \in DeployOps => t \in Deployments
      /\ op \in HostOps => t \in HostChanges
      /\ \A q \in Helpers : q # p => at[q].of # t
  BY <1>1, Running DEF HelperRecords, Fits
<1>3. lock = t
  BY <1>2 DEF Moving, Placed
<1>4. PICK b \in HelperRecords :
        /\ at' = [at EXCEPT ![p] = b]
        /\ b.op = op /\ b.of = at[p].of /\ b.done = to /\ b.state = at[p].state
  BY <1>1, <1>2, GoesMeans DEF Moving, Sound
<1>5. b.state.backup # Mixed
  BY <1>2, <1>4 DEF Done
<1> HIDE DEF t
<1>6. at'[p] = b /\ b.of = t
  BY <1>4, HelperTyped DEF Sound, t
<1>7. ~PreLock(b)
  BY <1>4 DEF PreLock, Moving, States, BeforeActivation
<1>8. Placed(at[p])'
  BY <1>3, <1>4, <1>6, <1>7 DEF Placed, Moving
<1>9. b.done \notin {"STAGED_VALIDATED", "ACTIVATION_STARTED", "ACTIVATED", "SERVICE_RESTARTED",
                     "HEALTH_VALIDATED", "locking", "locked"}
  BY <1>4 DEF Moving, States, BeforeActivation, Eligible
<1>10. Done(at[p])'
  BY <1>4, <1>5, <1>6, <1>9 DEF Done, Moving, Prev, Target
<1>11. Advances(p, b, t)
  BY <1>1, <1>2, <1>3, <1>4, <1>6, <1>8, <1>9, <1>10 DEF Advances, Moving
<1>12. HelpersOK'
  BY <1>11, HelperMoves
<1>13. RecordsOK'
  <2>1. running' # current' => lock' \in Deployments /\ record'[lock'] \in Relinking
    BY <1>2, <1>3 DEF Moving, t
  <2>2. files' = Mixed => lock' \in HostChanges /\ record'[lock'] \in Replacing
    BY <1>2, <1>3 DEF Moving, t
  <2> QED
    BY <2>1, <2>2 DEF Sound, Alone, RecordsOK, HeldWhileOpen, Moving
<1> QED
  BY <1>12, <1>13 DEF Alone

LEMMA LockingKeeps ==
    ASSUME Sound, NEW p \in Helpers, NEW op \in {"begin", "host"},
           \/ op = "begin" /\ CreateLock(p, op, "PREFLIGHT_PASSED")
           \/ op = "host" /\ CreateLock(p, op, "CREATED")
           \/ WriteLock(p, op)
    PROVE  Alone'
<1> DEFINE t == at[p].of
           old == at[p].done
           to == IF old = "locking" THEN "locked" ELSE "locking"
<1>1. /\ at[p] # Idle /\ at[p].op = op /\ ~refresh[p]
      /\ old \in {"PREFLIGHT_PASSED", "CREATED", "locking"} /\ PreLock(at[p])
  BY IdleBlank DEF CreateLock, WriteLock, Executes, PreLock
<1>2. /\ t \in Transactions /\ Placed(at[p]) /\ Done(at[p])
      /\ \A q \in Helpers : q # p => at[q].of # t
  BY <1>1, Running
<1>3. /\ Goes(p, op, to) /\ UNCHANGED <<saved, links, host, refresh>>
      /\ old = "locking" => lock = Unwritten /\ lock' = t
      /\ old # "locking" => lock = None /\ lock' = Unwritten
  BY <1>1, <1>2 DEF CreateLock, WriteLock, Executes, Placed
<1>4. UNCHANGED <<record, kept, current, previous, running, files, refresh>>
  BY <1>3 DEF saved, links, host
<1>5. record[t] \in {"CREATED", "PREFLIGHT_PASSED"}
  BY <1>1, <1>2 DEF Placed, States
<1>6. op \in Operations /\ to \in Steps
  BY DEF Operations, Steps
<1>7. at[p].state.backup # Mixed
  BY <1>2 DEF Done
<1> HIDE DEF to
<1>8. PICK b \in HelperRecords :
        /\ at' = [at EXCEPT ![p] = b]
        /\ b.op = op /\ b.of = at[p].of /\ b.done = to /\ b.state = at[p].state
  BY <1>1, <1>3, <1>6, GoesMeans DEF Sound
<1> HIDE DEF t, old
<1>9. at'[p] = b /\ b.of = t
  BY <1>8, HelperTyped DEF Sound, t
<1>10. (to = "locked" <=> old = "locking") /\ to \in {"locking", "locked"}
  BY DEF to
<1>11. running = current /\ files # Mixed /\ lock \notin Transactions
  BY <1>3, ConstantsApart DEF Sound, Alone, RecordsOK
<1>12. PreLock(b) <=> to = "locking"
  BY <1>8, <1>10 DEF PreLock
<1>13. Placed(at[p])'
  <2>1. b.done \notin States \cup {"started", "abortable", "removed", "promoted", "backing",
                                   "previous", "linked", "restored"}
    BY <1>8, <1>10 DEF States, BeforeActivation, Eligible
  <2>2. /\ PreLock(b) => lock' # b.of
        /\ ~PreLock(b) => lock' = b.of
        /\ b.done = "locking" => lock' = Unwritten
    BY <1>2, <1>3, <1>8, <1>9, <1>10, <1>12, ConstantsApart
  <2>3. record'[b.of] \in {"CREATED", "PREFLIGHT_PASSED"}
    BY <1>4, <1>5, <1>9
  <2> QED
    BY <1>4, <1>9, <2>1, <2>2, <2>3 DEF Placed
<1>14. Done(at[p])'
  BY <1>4, <1>7, <1>8, <1>9, <1>10, <1>11 DEF Done
<1>15. at[p].done = old
  BY DEF old
<1>16. Advances(p, b, t)
  BY <1>1, <1>2, <1>3, <1>4, <1>8, <1>9, <1>10, <1>13, <1>14, <1>15 DEF Advances
<1>17. HelpersOK'
  BY <1>16, HelperMoves
<1>18. RecordsOK'
  <2>1. HeldWhileOpen'
    BY <1>4, <1>11 DEF Sound, Alone, RecordsOK, HeldWhileOpen
  <2>2. \A u \in Transactions : lock' = u => record'[u] # "absent"
    BY <1>3, <1>4, <1>5, ConstantsApart
  <2> QED
    BY <1>4, <1>11, <2>1, <2>2 DEF Sound, Alone, RecordsOK
<1> QED
  BY <1>17, <1>18 DEF Alone

-----------------------------------------------------------------------------
(* Operation by operation.                                                 *)

\* What the fields of an executing helper are.
LEMMA Executing ==
    ASSUME Sound, NEW p \in Helpers, NEW op, NEW done, Executes(p, op, done), op # "none"
    PROVE  /\ at[p] # Idle /\ at[p].op = op /\ at[p].done = done /\ ~refresh[p]
           /\ at[p].of \in Transactions /\ Placed(at[p]) /\ Done(at[p])
           /\ op \in DeployOps => at[p].of \in Deployments
           /\ op \in HostOps => at[p].of \in HostChanges
           /\ ~PreLock(at[p]) => lock = at[p].of
  BY IdleBlank, Running DEF Executes, Placed, Fits

LEMMA BeginKeeps ==
    ASSUME Sound, NEW p \in Helpers, BeginStep(p)
    PROVE  Alone'
<1>1. CASE SaveStep(p, "begin", "started", "begin", "CREATED")
           \/ SaveStep(p, "begin", "CREATED", "begin", "PREFLIGHT_PASSED")
  BY <1>1, EarlySaveStep
<1>2. CASE CreateLock(p, "begin", "PREFLIGHT_PASSED") \/ WriteLock(p, "begin")
  BY <1>2, LockingKeeps
<1>3. CASE LockHeld(p, "begin", "PREFLIGHT_PASSED")
  BY <1>3, RejectsKeep
<1>4. CASE SaveStep(p, "begin", "locked", "none", "LOCK_ACQUIRED")
  <2>1. at[p].op = "begin" /\ at[p].done = "locked" /\ Placed(at[p])
    BY <1>4, Executing DEF SaveStep
  <2>2. SaveFits(p, "begin", "none", "LOCK_ACQUIRED")
    BY <2>1 DEF SaveFits, PreLock, Operations, States, BeforeActivation, DeployOps, HostOps,
                Placed, Relinking, Eligible
  <2> QED
    BY <1>4, <2>2, HeldSaveStep
<1> QED
  BY <1>1, <1>2, <1>3, <1>4 DEF BeginStep

LEMMA StageKeeps ==
    ASSUME Sound, NEW p \in Helpers, StageStep(p)
    PROVE  Alone'
<1>1. ASSUME NEW done \in BeforeActivation \cup {"promoted"}, NEW next \in {"stage", "none"},
             NEW status \in BeforeActivation, Executes(p, "stage", done)
      PROVE  SaveFits(p, "stage", next, status)
  <2>1. at[p].op = "stage" /\ at[p].done = done /\ Placed(at[p])
    BY <1>1, Executing
  <2>2. record[at[p].of] \in BeforeActivation
    BY <2>1 DEF Placed, States, BeforeActivation
  <2> QED
    BY <2>1, <2>2 DEF SaveFits, PreLock, Operations, States, BeforeActivation, DeployOps, HostOps,
                      Relinking, Eligible
<1>2. ASSUME NEW done \in BeforeActivation \cup {"promoted"}, NEW next \in {"stage", "none"},
             NEW status \in BeforeActivation, SaveStep(p, "stage", done, next, status)
      PROVE  Alone'
  BY <1>1, <1>2, HeldSaveStep DEF SaveStep
<1>3. CASE Extract(p)
  <2>1. /\ Executes(p, "stage", "ARTIFACT_VERIFIED")
        /\ SaveState(p, "stage", "RELEASE_EXTRACTED", at[p].state)
        /\ UNCHANGED <<lock, links, files>>
    BY <1>3 DEF Extract, Save, host
  <2>2. at[p].state \in Contents
    BY <2>1, ExecutingTyped DEF Sound
  <2>3. at[p].state.backup # Mixed
    BY <2>1, Executing DEF Done
  <2>4. SaveFits(p, "stage", "stage", "RELEASE_EXTRACTED")
    BY <1>1, <2>1 DEF BeforeActivation
  <2> QED
    BY <2>1, <2>2, <2>3, <2>4, HeldSave DEF Prev, Target
<1>4. CASE Promote(p)
  <2>1. /\ Executes(p, "stage", "RUNTIME_READY") /\ Goes(p, "stage", "promoted")
        /\ UNCHANGED <<record, kept, lock, current, running, files, refresh>>
    BY <1>4 DEF Promote, saved, links, host
  <2>2. /\ at[p].op = "stage" /\ at[p].done = "RUNTIME_READY" /\ Placed(at[p])
        /\ at[p].of \in Deployments /\ lock = at[p].of /\ ~PreLock(at[p])
    BY <2>1, Executing DEF PreLock, DeployOps
  <2>3. record[at[p].of] = "RUNTIME_READY"
    BY <2>2 DEF Placed, States, BeforeActivation
  <2>4. running = current /\ files # Mixed
    BY <2>2, <2>3, ConstantsApart DEF Sound, Alone, RecordsOK, Relinking, Eligible
  <2>5. "promoted" \in Steps \ (States \cup {"started", "locking", "locked", "abortable"})
    BY DEF Steps, States, BeforeActivation, Eligible
  <2>6. Moving(p, "stage", "RUNTIME_READY", "promoted")
    BY <2>1, <2>2, <2>3, <2>4, <2>5 DEF Moving, HostOps
  <2> QED
    BY <2>6, MovingKeeps
<1>5. CASE \E s \in {"BACKUP_CREATED", "ARTIFACT_VERIFIED", "RELEASE_EXTRACTED", "RUNTIME_READY"} :
             Rejects(p, "stage", s)
  BY <1>5, RejectsKeep
<1> QED
  BY <1>2, <1>3, <1>4, <1>5 DEF StageStep, StageOrder, BeforeActivation

LEMMA AbortKeeps ==
    ASSUME Sound, NEW p \in Helpers, AbortStep(p)
    PROVE  Alone'
<1>1. ASSUME NEW done \in {"abortable", "removed"}, Executes(p, "abort", done)
      PROVE  /\ at[p].op = "abort" /\ record[at[p].of] \in Abortable /\ ~PreLock(at[p])
             /\ lock = at[p].of /\ at[p].of \in Deployments
  BY <1>1, Executing DEF Placed, PreLock, DeployOps
<1>2. Abortable \cap Relinking = {}
  BY DEF Abortable, Relinking, BeforeActivation, Eligible
<1>3. CASE RemoveStaging(p)
  <2>1. /\ Executes(p, "abort", "abortable") /\ Goes(p, "abort", "removed")
        /\ UNCHANGED <<record, kept, lock, current, running, files, refresh>>
    BY <1>3 DEF RemoveStaging, saved, links, host
  <2>2. running = current /\ files # Mixed
    BY <1>1, <1>2, <2>1, ConstantsApart DEF Sound, Alone, RecordsOK
  <2>3. "removed" \in Steps \ (States \cup {"started", "locking", "locked", "abortable"})
    BY DEF Steps, States, BeforeActivation, Eligible
  <2>4. Moving(p, "abort", "abortable", "removed")
    BY <1>1, <2>1, <2>2, <2>3 DEF Moving, HostOps
  <2> QED
    BY <2>4, MovingKeeps
<1>4. CASE SaveStep(p, "abort", "removed", "abort", "FAILED")
  <2>1. SaveFits(p, "abort", "abort", "FAILED")
    BY <1>1, <1>2, <1>4 DEF SaveStep, SaveFits, Operations, States, DeployOps, HostOps
  <2> QED
    BY <1>4, <2>1, HeldSaveStep
<1>5. CASE ReleaseLock(p, "abort", "FAILED")
  <2>1. ~PreLock(at[p])
    BY <1>5, Executing DEF ReleaseLock, PreLock
  <2> QED
    BY <1>5, <2>1, ReleaseKeeps DEF Closed
<1> QED
  BY <1>3, <1>4, <1>5 DEF AbortStep

LEMMA ActivateKeeps ==
    ASSUME Sound, NEW p \in Helpers, ActivateStep(p)
    PROVE  Alone'
<1> DEFINE Chain == {<<"STAGED_VALIDATED", "activate", "ACTIVATION_STARTED">>,
                     <<"linked", "activate", "ACTIVATED">>,
                     <<"restarted", "activate", "SERVICE_RESTARTED">>,
                     <<"SERVICE_RESTARTED", "activate", "HEALTH_VALIDATED">>,
                     <<"SERVICE_RESTARTED", "undo", "ROLLBACK_STARTED">>,
                     <<"HEALTH_VALIDATED", "activate", "COMPLETED">>}
<1>1. ASSUME NEW done, NEW next, NEW status, <<done, next, status>> \in Chain,
             SaveStep(p, "activate", done, next, status)
      PROVE  Alone'
  <2>1. at[p].op = "activate" /\ at[p].done = done /\ Placed(at[p]) /\ Done(at[p])
    BY <1>1, Executing DEF SaveStep
  <2>2. ~PreLock(at[p])
    BY <2>1 DEF PreLock
  <2>3. /\ next \in Operations \ {"begin"} /\ status \in States \ {"absent"}
        /\ next \in DeployOps /\ next # "host"
    BY <1>1 DEF Operations, States, BeforeActivation, Eligible, DeployOps
  <2>4. status \in Relinking \/ running = current
    BY <1>1, <2>1 DEF Relinking, Eligible, Done
  <2>5. next = "activate" =>
          /\ status \in {"STAGED_VALIDATED", "ACTIVATION_STARTED"} => current = Prev(p)
          /\ status \in {"ACTIVATED", "SERVICE_RESTARTED", "HEALTH_VALIDATED"} =>
               previous = Prev(p) /\ current = Target(p)
          /\ status \in {"SERVICE_RESTARTED", "HEALTH_VALIDATED"} => running = current
    BY <1>1, <2>1 DEF Done, Prev, Target
  <2>6. SaveFits(p, "activate", next, status)
    BY <2>2, <2>3, <2>4, <2>5 DEF SaveFits, HostOps
  <2> QED
    BY <1>1, <2>6, HeldSaveStep
<1>2. ASSUME NEW done \in {"ACTIVATION_STARTED", "previous", "linked", "ACTIVATED"},
             Executes(p, "activate", done)
      PROVE  /\ Done(at[p]) /\ at[p] # Idle /\ ~refresh[p]
             /\ at[p].op = "activate" /\ at[p].done = done
             /\ at[p].of \in Deployments /\ lock = at[p].of /\ ~PreLock(at[p])
             /\ record[at[p].of] \in Relinking
             /\ done # "ACTIVATED" => record[at[p].of] = "ACTIVATION_STARTED"
             /\ files # Mixed
  <2>1. /\ at[p].op = "activate" /\ at[p].done = done /\ Placed(at[p]) /\ Done(at[p])
        /\ at[p].of \in Deployments /\ at[p] # Idle /\ ~refresh[p]
    BY <1>2, Executing DEF DeployOps
  <2>2. ~PreLock(at[p])
    BY <2>1 DEF PreLock
  <2>3. /\ lock = at[p].of
        /\ done \in States => record[at[p].of] = done
        /\ done \in {"previous", "linked"} => record[at[p].of] = "ACTIVATION_STARTED"
    BY <2>1, <2>2 DEF Placed
  <2>4. files # Mixed
    BY <2>1, <2>3, ConstantsApart DEF Sound, Alone, RecordsOK
  <2> QED
    BY <2>1, <2>2, <2>3, <2>4 DEF Relinking, Eligible, States
<1>3. ASSUME NEW done \in {"ACTIVATION_STARTED", "previous", "ACTIVATED"},
             NEW to \in {"previous", "linked", "restarted"}, Relink(p, "activate", done, to),
             \/ <<done, to>> = <<"ACTIVATION_STARTED", "previous">> /\ previous' = Prev(p)
                /\ UNCHANGED <<current, running>>
             \/ <<done, to>> = <<"previous", "linked">> /\ current' = Target(p)
                /\ UNCHANGED <<previous, running>>
             \/ <<done, to>> = <<"ACTIVATED", "restarted">> /\ running' = current
                /\ UNCHANGED <<current, previous>>
      PROVE  Alone'
  <2>1. /\ Executes(p, "activate", done) /\ Goes(p, "activate", to)
        /\ UNCHANGED <<record, kept, lock, files, refresh>>
    BY <1>3 DEF Relink, saved, host
  <2>2. to \in Steps \ (States \cup {"started", "locking", "locked", "abortable"})
    BY DEF Steps, States, BeforeActivation, Eligible
  <2>3. /\ done \in {"ACTIVATION_STARTED", "previous"} => current = Prev(p)
        /\ done \in {"previous", "ACTIVATED"} => previous = Prev(p)
        /\ done = "ACTIVATED" => current = Target(p)
    BY <1>2, <2>1 DEF Done, Prev, Target
  <2>4. Moving(p, "activate", done, to)
    BY <1>2, <1>3, <2>1, <2>2, <2>3 DEF Moving, DeployOps, HostOps
  <2> QED
    BY <2>4, MovingKeeps
<1>4. CASE LinkPrevious(p)
  BY <1>3, <1>4 DEF LinkPrevious
<1>5. CASE LinkCurrent(p)
  BY <1>3, <1>5 DEF LinkCurrent
<1>6. CASE VerifyLink(p)
  <2>1. current = Target(p)
    BY <1>2, <1>6 DEF VerifyLink, Done, Target
  <2> QED
    BY <1>1, <1>6, <2>1 DEF VerifyLink
<1>7. CASE Restart(p, "activate", "ACTIVATED", "restarted")
  BY <1>3, <1>7 DEF Restart
<1>8. CASE RestartFails(p, "activate", "ACTIVATED", "none")
  <2>1. /\ Executes(p, "activate", "ACTIVATED") /\ Stops(p)
        /\ UNCHANGED <<record, kept, lock, current, previous, files, refresh>>
    BY <1>8 DEF RestartFails, saved, host
  <2>2. Ending(p)
    BY <1>2, <2>1 DEF Ending
  <2> QED
    BY <2>2, EndingKeeps
<1>9. CASE ReleaseLock(p, "activate", "COMPLETED")
  <2>1. ~PreLock(at[p])
    BY <1>9, Executing DEF ReleaseLock, PreLock
  <2> QED
    BY <1>9, <2>1, ReleaseKeeps DEF Closed
<1> QED
  BY <1>1, <1>4, <1>5, <1>6, <1>7, <1>8, <1>9 DEF ActivateStep

LEMMA UndoKeeps ==
    ASSUME Sound, NEW p \in Helpers, UndoStep(p)
    PROVE  Alone'
<1> DEFINE Chain == {<<"eligible", "undo", "ROLLBACK_STARTED">>,
                     <<"undone", "undo", "ROLLED_BACK">>,
                     <<"undone", "none", "MANUAL_INTERVENTION_REQUIRED">>,
                     <<"unhealthy", "none", "MANUAL_INTERVENTION_REQUIRED">>}
<1>1. ASSUME NEW done, NEW next, NEW status, <<done, next, status>> \in Chain,
             SaveStep(p, "undo", done, next, status)
      PROVE  Alone'
  <2>1. at[p].op = "undo" /\ at[p].done = done /\ Placed(at[p]) /\ Done(at[p])
    BY <1>1, Executing DEF SaveStep
  <2>2. ~PreLock(at[p])
    BY <2>1 DEF PreLock
  <2>3. /\ next \in Operations \ {"begin"} /\ status \in States \ {"absent"}
        /\ next \in DeployOps \cup {"none"} /\ next \notin {"host", "activate"}
    BY <1>1 DEF Operations, States, BeforeActivation, Eligible, DeployOps
  <2>4. status \in Relinking \/ running = current
    BY <1>1, <2>1 DEF Relinking, Eligible, Done
  <2>5. SaveFits(p, "undo", next, status)
    BY <2>2, <2>3, <2>4 DEF SaveFits, HostOps
  <2> QED
    BY <1>1, <2>5, HeldSaveStep
<1>2. ASSUME NEW done \in {"ROLLBACK_STARTED", "restored"}, Executes(p, "undo", done)
      PROVE  /\ at[p].op = "undo" /\ at[p].of \in Deployments
             /\ lock = at[p].of /\ ~PreLock(at[p])
             /\ record[at[p].of] = "ROLLBACK_STARTED"
             /\ files # Mixed
  <2>1. /\ at[p].op = "undo" /\ at[p].done = done /\ Placed(at[p])
        /\ at[p].of \in Deployments
    BY <1>2, Executing DEF DeployOps
  <2>2. ~PreLock(at[p])
    BY <2>1 DEF PreLock
  <2>3. lock = at[p].of /\ record[at[p].of] = "ROLLBACK_STARTED"
    BY <2>1, <2>2 DEF Placed, States
  <2>4. files # Mixed
    BY <2>1, <2>3, ConstantsApart DEF Sound, Alone, RecordsOK
  <2> QED
    BY <2>1, <2>2, <2>3, <2>4
<1>3. ASSUME NEW done \in {"ROLLBACK_STARTED", "restored"}, Executes(p, "undo", done),
             NEW to \in {"restored", "undone", "unhealthy"}, Goes(p, "undo", to),
             UNCHANGED <<saved, release, lock, host, refresh>>,
             to = "undone" => running' = current'
      PROVE  Alone'
  <2>1. UNCHANGED <<record, kept, lock, files, refresh>>
    BY <1>3 DEF saved, host
  <2>2. to \in Steps \ (States \cup {"started", "locking", "locked", "abortable"})
    BY DEF Steps, States, BeforeActivation, Eligible
  <2>3. record[at[p].of] \in Relinking
    BY <1>2, <1>3 DEF Relinking
  <2>4. Moving(p, "undo", done, to)
    BY <1>2, <1>3, <2>1, <2>2, <2>3 DEF Moving, DeployOps, HostOps
  <2> QED
    BY <2>4, MovingKeeps
<1>4. CASE RestoreCurrent(p)
  BY <1>3, <1>4 DEF RestoreCurrent, Relink
<1>5. CASE Restart(p, "undo", "restored", "undone")
  BY <1>3, <1>5 DEF Restart, Relink
<1>6. CASE RestartFails(p, "undo", "restored", "unhealthy")
  BY <1>3, <1>6 DEF RestartFails
<1>7. CASE ReleaseLock(p, "undo", "ROLLED_BACK")
  <2>1. ~PreLock(at[p])
    BY <1>7, Executing DEF ReleaseLock, PreLock
  <2> QED
    BY <1>7, <2>1, ReleaseKeeps DEF Closed
<1> QED
  BY <1>1, <1>4, <1>5, <1>6, <1>7 DEF UndoStep

\* A helper of a host change past the lock stage.
LEMMA Hosting ==
    ASSUME Sound, NEW p \in Helpers, NEW op \in HostOps, NEW done, Executes(p, op, done),
           op = "host" => done \notin {"started", "CREATED", "locking"}
    PROVE  /\ at[p].op = op /\ at[p].done = done /\ Placed(at[p]) /\ Done(at[p])
           /\ at[p].of \in HostChanges /\ lock = at[p].of /\ ~PreLock(at[p])
           /\ done \in States => record[at[p].of] = done
           /\ running = current
<1>1. at[p].op = op /\ at[p].done = done /\ Placed(at[p]) /\ Done(at[p])
      /\ at[p].of \in HostChanges
  BY Executing, Kinds
<1>2. ~PreLock(at[p])
  BY <1>1 DEF PreLock, HostOps
<1>3. lock = at[p].of /\ (done \in States => record[at[p].of] = done)
  BY <1>1, <1>2 DEF Placed
<1>4. running = current
  BY <1>1, <1>3, ConstantsApart DEF Sound, Alone, RecordsOK
<1> QED
  BY <1>1, <1>2, <1>3, <1>4

LEMMA ReplaceKeeps ==
    ASSUME Sound, NEW p \in Helpers, NEW op \in HostOps, NEW from, NEW to, NEW content,
           ReplaceFiles(p, op, from, to, content),
           \/ <<op, from, to>> = <<"host", "BACKUPS_CREATED", "installing">> /\ content = Mixed
           \/ <<op, from, to>> = <<"host", "installing", "installed">> /\ content = at[p].of
           \/ /\ op \in {"restore", "host_rollback"}
              /\ <<from, to>> = <<"ROLLBACK_STARTED", "restoring">> /\ content = Mixed
           \/ /\ op \in {"restore", "host_rollback"}
              /\ <<from, to>> = <<"restoring", "restored">> /\ content = at[p].state.backup
    PROVE  Alone'
<1>1. /\ Executes(p, op, from) /\ Goes(p, op, to) /\ files' = content
      /\ UNCHANGED <<record, kept, lock, current, running, refresh>>
  BY DEF ReplaceFiles, saved, links
<1>2. op = "host" => from \notin {"started", "CREATED", "locking"}
  OBVIOUS
<1>3. /\ at[p].of \in HostChanges /\ ~PreLock(at[p]) /\ Done(at[p])
      /\ from \in States => record[at[p].of] = from
      /\ running = current
  BY <1>1, <1>2, Hosting
<1>4. content = Mixed => record[at[p].of] \in Replacing
  BY <1>3, ConstantsApart DEF Replacing, States, Done
<1>5. to \in {"installed", "restored"} => content # Mixed
  BY <1>3, ConstantsApart DEF Done
<1>6. to \in Steps \ (States \cup {"started", "locking", "locked", "abortable"})
      /\ to \notin {"promoted", "removed", "backing"}
  BY DEF Steps, States, BeforeActivation, Eligible
<1>7. op \notin {"none", "begin", "activate", "undo"}
  BY DEF HostOps
<1>8. Moving(p, op, from, to)
  BY <1>1, <1>3, <1>4, <1>5, <1>6, <1>7 DEF Moving
<1> QED
  BY <1>8, MovingKeeps

\* Saves of a host change under the lock.
HostSaves ==
    {<<"host", "locked", "host", "LOCK_ACQUIRED">>, <<"host", "backing", "host", "BACKUPS_CREATED">>,
     <<"host", "installed", "host", "FILES_INSTALLED">>,
     <<"host", "FILES_INSTALLED", "host", "COMMITTED">>,
     <<"host", "LOCK_ACQUIRED", "host", "FAILED">>, <<"host", "backing", "host", "FAILED">>,
     <<"host", "BACKUPS_CREATED", "restore", "ROLLBACK_STARTED">>,
     <<"host", "installing", "restore", "ROLLBACK_STARTED">>,
     <<"host", "installed", "restore", "ROLLBACK_STARTED">>,
     <<"host", "FILES_INSTALLED", "restore", "ROLLBACK_STARTED">>,
     <<"host_rollback", "requested", "host_rollback", "ROLLBACK_STARTED">>,
     <<"restore", "restored", "restore", "ROLLED_BACK">>,
     <<"host_rollback", "restored", "host_rollback", "ROLLED_BACK">>,
     <<"restore", "restored", "none", "MANUAL_INTERVENTION_REQUIRED">>}

LEMMA HostSaveFits ==
    ASSUME Sound, NEW p \in Helpers, NEW op \in HostOps, NEW done, NEW next, NEW status,
           Executes(p, op, done), <<op, done, next, status>> \in HostSaves
    PROVE  SaveFits(p, op, next, status)
<1>1. done \notin {"started", "CREATED", "locking"}
  BY DEF HostSaves
<1>2. /\ ~PreLock(at[p]) /\ Placed(at[p]) /\ Done(at[p]) /\ at[p].op = op /\ at[p].done = done
      /\ done \in States => record[at[p].of] = done
  BY <1>1, Hosting
<1>3. record[at[p].of] \in Replacing => status \in Replacing \/ files # Mixed
  BY <1>2 DEF HostSaves, Placed, Done, Replacing, States, BeforeActivation
<1>4. next \in Operations \ {"begin", "activate"} /\ status \in States \ {"absent", "CREATED"}
      /\ next \in HostOps \cup {"none"} /\ op # "none" /\ op \notin DeployOps
  BY DEF HostSaves, HostOps, DeployOps, Operations, States, BeforeActivation, Eligible
<1> QED
  BY <1>2, <1>3, <1>4 DEF SaveFits

LEMMA HostSaveKeeps ==
    ASSUME Sound, NEW p \in Helpers, NEW op \in HostOps, NEW done, NEW next, NEW status,
           SaveStep(p, op, done, next, status), <<op, done, next, status>> \in HostSaves
    PROVE  Alone'
  BY HostSaveFits, HeldSaveStep DEF SaveStep

LEMMA HostKeeps ==
    ASSUME Sound, NEW p \in Helpers, HostStep(p)
    PROVE  Alone'
<1> "host" \in HostOps
  BY DEF HostOps
<1>1. CASE SaveStep(p, "host", "started", "host", "CREATED")
  BY <1>1, EarlySaveStep
<1>2. CASE CreateLock(p, "host", "CREATED") \/ WriteLock(p, "host")
  BY <1>2, LockingKeeps
<1>3. CASE LockHeld(p, "host", "CREATED")
  BY <1>3, RejectsKeep
<1>4. ASSUME NEW done, NEW next, NEW status, SaveStep(p, "host", done, next, status),
             <<"host", done, next, status>> \in HostSaves
      PROVE  Alone'
  BY <1>4, HostSaveKeeps
<1>5. CASE MakeBackupDirectory(p)
  <2>1. /\ Executes(p, "host", "LOCK_ACQUIRED") /\ Goes(p, "host", "backing")
        /\ UNCHANGED <<record, kept, lock, current, running, files, refresh>>
    BY <1>5 DEF MakeBackupDirectory, saved, links
  <2>2. /\ lock = at[p].of /\ record[at[p].of] = "LOCK_ACQUIRED" /\ ~PreLock(at[p])
        /\ running = current
    BY <2>1, Hosting DEF States, BeforeActivation
  <2>3. files # Mixed
    BY <2>2 DEF Sound, Alone, RecordsOK, Replacing
  <2>4. "backing" \in Steps \ (States \cup {"started", "locking", "locked", "abortable"})
    BY DEF Steps, States, BeforeActivation, Eligible
  <2>5. Moving(p, "host", "LOCK_ACQUIRED", "backing")
    BY <2>1, <2>2, <2>3, <2>4 DEF Moving
  <2> QED
    BY <2>5, MovingKeeps
<1>6. CASE BackUpFiles(p)
  <2> DEFINE state == [at[p].state EXCEPT !.backup = files]
  <2>1. /\ Executes(p, "host", "backing") /\ SaveState(p, "host", "BACKUPS_CREATED", state)
        /\ UNCHANGED <<lock, links, files>>
    BY <1>6 DEF BackUpFiles, host
  <2>2. lock = at[p].of /\ record[at[p].of] = "LOCK_ACQUIRED"
    BY <2>1, Hosting DEF Placed
  <2>3. files # Mixed /\ files \in HostChanges \cup {Mixed, None}
    BY <2>2 DEF Sound, Alone, RecordsOK, Replacing, TypeInv, TypeOK
  <2>4. at[p].state \in Contents
    BY <2>1, ExecutingTyped DEF Sound
  <2>5. state \in Contents /\ state.backup = files
        /\ state.prev = Prev(p) /\ state.target = Target(p)
    BY <2>3, <2>4 DEF Contents, Prev, Target
  <2>6. SaveFits(p, "host", "host", "BACKUPS_CREATED")
    BY <2>1, HostSaveFits DEF HostSaves
  <2> QED
    BY <2>1, <2>3, <2>5, <2>6, HeldSave
<1>7. CASE \/ ReplaceFiles(p, "host", "BACKUPS_CREATED", "installing", Mixed)
           \/ ReplaceFiles(p, "host", "installing", "installed", at[p].of)
  BY <1>7, ReplaceKeeps
<1>8. CASE \/ HostUnlock(p, "host", "COMMITTED", "restore", "ROLLBACK_STARTED")
           \/ ReleaseLock(p, "host", "FAILED")
  <2>1. PICK done \in {"COMMITTED", "FAILED"} : Executes(p, "host", done) /\
          (done = "COMMITTED" => HostUnlock(p, "host", done, "restore", "ROLLBACK_STARTED"))
          /\ (done = "FAILED" => ReleaseLock(p, "host", done))
    BY <1>8 DEF HostUnlock, ReleaseLock
  <2>2. lock = at[p].of /\ ~PreLock(at[p])
    BY <2>1, Hosting
  <2>3. ReleaseLock(p, "host", done)
    BY <2>1, <2>2 DEF HostUnlock
  <2> QED
    BY <2>2, <2>3, ReleaseKeeps DEF Closed
<1> QED
  BY <1>1, <1>2, <1>3, <1>4, <1>5, <1>6, <1>7, <1>8 DEF HostStep, HostSaves

LEMMA RestoreKeeps ==
    ASSUME Sound, NEW p \in Helpers, RestoreStep(p)
    PROVE  Alone'
<1> {"host_rollback", "restore"} \subseteq HostOps
  BY DEF HostOps
<1>1. ASSUME NEW op \in HostOps, NEW done, NEW next, NEW status, SaveStep(p, op, done, next, status),
             <<op, done, next, status>> \in HostSaves
      PROVE  Alone'
  BY <1>1, HostSaveKeeps
<1>2. CASE \E s \in {"ROLLBACK_STARTED", "restored"} : Rejects(p, "host_rollback", s)
  BY <1>2, RejectsKeep
<1>3. ASSUME NEW op \in {"restore", "host_rollback"},
             \/ ReplaceFiles(p, op, "ROLLBACK_STARTED", "restoring", Mixed)
             \/ ReplaceFiles(p, op, "restoring", "restored", at[p].state.backup)
      PROVE  Alone'
  BY <1>3, ReplaceKeeps
<1>4. CASE \/ HostUnlock(p, "restore", "ROLLED_BACK", "none", "MANUAL_INTERVENTION_REQUIRED")
           \/ ReleaseLock(p, "host_rollback", "ROLLED_BACK")
  <2>1. PICK op \in {"restore", "host_rollback"} : Executes(p, op, "ROLLED_BACK")
          /\ (op = "restore" =>
                HostUnlock(p, op, "ROLLED_BACK", "none", "MANUAL_INTERVENTION_REQUIRED"))
          /\ (op = "host_rollback" => ReleaseLock(p, op, "ROLLED_BACK"))
    BY <1>4 DEF HostUnlock, ReleaseLock
  <2>2. lock = at[p].of /\ ~PreLock(at[p])
    BY <2>1, Hosting
  <2>3. ReleaseLock(p, op, "ROLLED_BACK")
    BY <2>1, <2>2 DEF HostUnlock
  <2> QED
    BY <2>2, <2>3, ReleaseKeeps DEF Closed
<1> QED
  BY <1>1, <1>2, <1>3, <1>4 DEF RestoreStep, HostSaves

\* The operators' requests.
LEMMA OperatorKeeps ==
    ASSUME Sound, overlaps' = 0, NEW p \in Helpers, Operator(p)
    PROVE  Alone'
<1>1. ASSUME NEW d \in Deployments, Begin(p, d)
      PROVE  Alone'
  <2> DEFINE state(r) == [Blank EXCEPT !.prev = current, !.target = r]
  <2>1. PICK r \in Releases : record[d] = "absent" /\ Starts(p, "begin", d, "started", state(r))
    BY <1>1 DEF Begin
  <2>2. state(r) \in Contents /\ state(r).backup # Mixed
    BY ConstantsApart DEF Sound, TypeInv, TypeOK, Blank, Contents
  <2>3. StartFits("begin", d, "started", state(r))
    BY <2>1, <2>2 DEF StartFits
  <2>4. "begin" \in Operations /\ "started" \in Steps /\ d \in Transactions
    BY ConstantsApart DEF Operations, Steps
  <2> QED
    BY <2>1, <2>2, <2>3, <2>4, StartKeeps
<1>2. ASSUME NEW t \in Transactions, NEW op, NEW done, Starts(p, op, t, done, kept[t]), lock = t,
             \/ <<op, done>> = <<"stage", "LOCK_ACQUIRED">> /\ record[t] = done
             \/ <<op, done>> = <<"abort", "abortable">> /\ record[t] \in Abortable
             \/ /\ <<op, done>> = <<"activate", "STAGED_VALIDATED">> /\ record[t] = done
                /\ current = kept[t].prev
             \/ <<op, done>> \in {<<"undo", "eligible">>, <<"host_rollback", "requested">>}
      PROVE  Alone'
  <2>1. op \in Operations /\ done \in Steps
    BY <1>2 DEF Operations, Steps, States, BeforeActivation
  <2>2. kept[t] \in Contents /\ kept[t].backup # Mixed
    BY DEF Sound, TypeInv, TypeOK, Alone, RecordsOK
  <2>3. done \in States => record[t] = done
    BY <1>2 DEF States, BeforeActivation, Eligible
  <2>4. StartFits(op, t, done, kept[t])
    BY <1>2, <2>2, <2>3 DEF StartFits
  <2> QED
    BY <1>2, <2>1, <2>2, <2>4, StartKeeps
<1>3. ASSUME NEW d \in Deployments, Stage(p, d) \/ Abort(p, d) \/ Activate(p, d) \/ Rollback(p, d)
      PROVE  Alone'
  BY <1>2, <1>3, ConstantsApart DEF Stage, Abort, Activate, Rollback
<1>4. ASSUME NEW h \in HostChanges, Install(p, h)
      PROVE  Alone'
  <2>1. "host" \in Operations /\ "started" \in Steps /\ h \in Transactions
    BY ConstantsApart DEF Operations, Steps
  <2>2. StartFits("host", h, "started", Blank)
    BY IdleBlank, ConstantsApart DEF StartFits
  <2> QED
    BY <1>4, <2>1, <2>2, IdleBlank, StartKeeps DEF Install
<1>5. ASSUME NEW h \in HostChanges, HostRollback(p, h)
      PROVE  Alone'
  BY <1>2, <1>5, ConstantsApart DEF HostRollback
<1> QED
  BY <1>1, <1>3, <1>4, <1>5 DEF Operator

LEMMA InitHolds ==
    ASSUME Init
    PROVE  IInv
<1> USE DEF Init
<1>1. TypeOK
  <2>1. "absent" \in States
    BY DEF States
  <2>2. record \in [Transactions -> States] /\ kept \in [Transactions -> Contents]
        /\ at \in [Helpers -> HelperRecords]
    BY <2>1, IdleBlank
  <2>3. DiskTyped /\ refresh \in [Helpers -> BOOLEAN] /\ overlaps \in 0 .. MaxOverlaps
    BY DeployAssumption DEF DiskTyped
  <2> QED
    BY <2>2, <2>3 DEF TypeOK, HelperRecords, DiskTyped
<1>2. TypeInv
  BY <1>1, IdleBlank, ConstantsApart DEF TypeInv
<1>3. HelpersOK
  BY IdleBlank DEF HelpersOK, Active
<1>4. RecordsOK
  <2>1. HeldWhileOpen
    BY DEF HeldWhileOpen, Open, BeforeActivation, Eligible
  <2> QED
    BY <2>1, IdleBlank, ConstantsApart DEF RecordsOK
<1> QED
  BY <1>2, <1>3, <1>4 DEF IInv, Alone

LEMMA NextKeeps ==
    ASSUME IInv, [Next]_vars
    PROVE  IInv'
<1>1. TypeInv' /\ (overlaps' = 0 => overlaps = 0)
  BY NextTypes DEF IInv
<1> SUFFICES ASSUME overlaps' = 0
             PROVE  Alone'
  BY <1>1 DEF IInv
<1>2. Sound
  BY <1>1 DEF IInv, Sound
<1>3. CASE UNCHANGED vars
  <2>1. UNCHANGED <<record, kept, lock, current, previous, running, files, at, refresh>>
    BY <1>3 DEF vars, saved, links, host
  <2>2. HelpersOK'
    BY <1>2, <2>1 DEF Sound, Alone, HelpersOK, Active, Placed, Done, PreLock
  <2>3. RecordsOK'
    BY <1>2, <2>1 DEF Sound, Alone, RecordsOK, HeldWhileOpen
  <2> QED
    BY <2>2, <2>3 DEF Alone
<1>4. ASSUME NEW p \in Helpers,
             \/ Operator(p) \/ RewriteLock(p) \/ BeginStep(p) \/ StageStep(p) \/ AbortStep(p)
             \/ ActivateStep(p) \/ UndoStep(p) \/ HostStep(p) \/ RestoreStep(p) \/ Crash(p)
      PROVE  Alone'
  BY <1>2, <1>4, OperatorKeeps, RewriteKeeps, BeginKeeps, StageKeeps, AbortKeeps, ActivateKeeps,
     UndoKeeps, HostKeeps, RestoreKeeps, CrashKeeps
<1> QED
  BY <1>3, <1>4 DEF Next

-----------------------------------------------------------------------------
(* What a step does to the records and the links.                          *)

\* Helper p saves the state of its transaction.
Recorded(p) ==
    /\ UNCHANGED links
    /\ \E done \in Steps, status \in States, state \in Contents :
          /\ at[p].done = done /\ at[p].op # "none"
          /\ record' = [record EXCEPT ![at[p].of] = Written(p, status)]
          /\ kept' = [kept EXCEPT ![at[p].of] = state]
          /\ status = "COMPLETED" =>
               at[p].op = "activate" /\ done = "HEALTH_VALIDATED" /\ state = at[p].state

Relinks(p) ==
    /\ UNCHANGED record
    /\ \/ at[p].op = "activate"
          /\ at[p].done \in {"ACTIVATION_STARTED", "previous", "linked", "ACTIVATED"}
       \/ at[p].op = "undo" /\ at[p].done \in {"ROLLBACK_STARTED", "restored"}
    /\ previous' # previous => LinkPrevious(p)

LEMMA SaveRecords ==
    ASSUME TypeInv, NEW p \in Helpers, NEW op, NEW done, NEW next, NEW status \in States,
           op # "none", Executes(p, op, done), Save(p, next, status), UNCHANGED links,
           status = "COMPLETED" => op = "activate" /\ done = "HEALTH_VALIDATED"
    PROVE  Recorded(p)
<1>1. at[p].state \in Contents /\ done \in Steps
  BY ExecutingTyped DEF HelperRecords
<1> QED
  BY <1>1 DEF Save, SaveState, Executes, Recorded

LEMMA SaveStepRecords ==
    ASSUME TypeInv, NEW p \in Helpers, NEW op, NEW done, NEW next, NEW status \in States,
           op # "none", SaveStep(p, op, done, next, status),
           status = "COMPLETED" => op = "activate" /\ done = "HEALTH_VALIDATED"
    PROVE  Recorded(p)
  BY SaveRecords DEF SaveStep

LEMMA StepKinds ==
    ASSUME TypeInv, [Next]_vars
    PROVE  \/ UNCHANGED <<record, links>>
           \/ \E p \in Helpers : Recorded(p) \/ Relinks(p)
<1> DEFINE Same == UNCHANGED <<record, links>>
<1>1. CASE UNCHANGED vars
  BY <1>1 DEF vars, saved
<1>2. ASSUME NEW p \in Helpers, Operator(p) \/ RewriteLock(p) \/ Crash(p)
      PROVE  Same
  BY <1>2 DEF Operator, Begin, Stage, Abort, Activate, Rollback, Install, HostRollback, Starts,
              RewriteLock, Crash, saved
<1>3. ASSUME NEW p \in Helpers, NEW op, NEW done, NEW to, NEW content,
             \/ CreateLock(p, op, done) \/ LockHeld(p, op, done) \/ Rejects(p, op, done)
             \/ WriteLock(p, op) \/ ReleaseLock(p, op, done) \/ Promote(p) \/ RemoveStaging(p)
             \/ MakeBackupDirectory(p) \/ ReplaceFiles(p, op, done, to, content)
      PROVE  Same
  BY <1>3 DEF CreateLock, LockHeld, Rejects, WriteLock, ReleaseLock, Promote, RemoveStaging,
              MakeBackupDirectory, ReplaceFiles, saved
<1>4. ASSUME NEW p \in Helpers, BeginStep(p)
      PROVE  Same \/ Recorded(p)
  BY <1>3, <1>4, SaveStepRecords DEF BeginStep, States, BeforeActivation
<1>5. ASSUME NEW p \in Helpers, StageStep(p) \/ AbortStep(p)
      PROVE  Same \/ Recorded(p)
  <2>1. CASE Extract(p)
    <3>1. "RELEASE_EXTRACTED" \in States /\ "RELEASE_EXTRACTED" # "COMPLETED"
      BY DEF States, BeforeActivation
    <3> QED
      BY <2>1, <3>1, SaveRecords DEF Extract
  <2> QED
    BY <1>3, <1>5, <2>1, SaveStepRecords
       DEF StageStep, AbortStep, StageOrder, States, BeforeActivation
<1>6. ASSUME NEW p \in Helpers, ActivateStep(p)
      PROVE  Same \/ Recorded(p) \/ Relinks(p)
  <2>1. CASE LinkPrevious(p)
    BY <2>1 DEF LinkPrevious, Relink, Executes, Relinks, saved
  <2>2. CASE LinkCurrent(p)
    BY <2>2 DEF LinkCurrent, Relink, Executes, Relinks, saved
  <2>3. CASE VerifyLink(p)
    <3>1. CASE current = Target(p)
      BY <2>3, <3>1, SaveStepRecords DEF VerifyLink, States, Eligible
    <3>2. CASE current # Target(p)
      BY <2>3, <3>2 DEF VerifyLink, Executes, Relinks, saved
    <3> QED
      BY <3>1, <3>2
  <2>4. CASE Restart(p, "activate", "ACTIVATED", "restarted")
    BY <2>4 DEF Restart, Relink, Executes, Relinks, saved
  <2>5. CASE RestartFails(p, "activate", "ACTIVATED", "none")
    BY <2>5 DEF RestartFails, Executes, Relinks, saved
  <2>6. ASSUME NEW done \in {"STAGED_VALIDATED", "restarted", "SERVICE_RESTARTED", "HEALTH_VALIDATED"},
               NEW next, NEW status \in {"ACTIVATION_STARTED", "SERVICE_RESTARTED",
                 "HEALTH_VALIDATED", "ROLLBACK_STARTED", "COMPLETED"},
               SaveStep(p, "activate", done, next, status),
               status = "COMPLETED" => done = "HEALTH_VALIDATED"
        PROVE  Recorded(p)
    BY <2>6, SaveStepRecords DEF States, Eligible
  <2> QED
    BY <1>3, <1>6, <2>1, <2>2, <2>3, <2>4, <2>5, <2>6 DEF ActivateStep
<1>7. ASSUME NEW p \in Helpers, UndoStep(p)
      PROVE  Same \/ Recorded(p) \/ Relinks(p)
  <2>1. CASE RestoreCurrent(p)
    BY <2>1 DEF RestoreCurrent, Relink, Executes, Relinks, saved
  <2>2. CASE Restart(p, "undo", "restored", "undone")
    BY <2>2 DEF Restart, Relink, Executes, Relinks, saved
  <2>3. CASE RestartFails(p, "undo", "restored", "unhealthy")
    BY <2>3 DEF RestartFails, Executes, Relinks, saved
  <2>4. ASSUME NEW done, NEW next,
               NEW status \in {"ROLLBACK_STARTED", "ROLLED_BACK", "MANUAL_INTERVENTION_REQUIRED"},
               SaveStep(p, "undo", done, next, status)
        PROVE  Recorded(p)
    BY <2>4, SaveStepRecords DEF States, Eligible
  <2> QED
    BY <1>3, <1>7, <2>1, <2>2, <2>3, <2>4 DEF UndoStep
<1>8. ASSUME NEW p \in Helpers, HostStep(p) \/ RestoreStep(p)
      PROVE  Same \/ Recorded(p)
  <2>1. ASSUME NEW op \in HostOps, NEW done, NEW next, NEW status \in States \ {"COMPLETED"},
               SaveStep(p, op, done, next, status)
        PROVE  Recorded(p)
    BY <2>1, Kinds, SaveStepRecords
  <2>2. CASE BackUpFiles(p)
    <3> DEFINE state == [at[p].state EXCEPT !.backup = files]
    <3>1. /\ Executes(p, "host", "backing") /\ SaveState(p, "host", "BACKUPS_CREATED", state)
          /\ UNCHANGED links
      BY <2>2 DEF BackUpFiles
    <3>2. at[p].state \in Contents
      BY <3>1, ExecutingTyped
    <3>3. state \in Contents
      BY <3>2 DEF Contents, TypeInv, TypeOK
    <3>4. "backing" \in Steps /\ "BACKUPS_CREATED" \in States /\ "BACKUPS_CREATED" # "COMPLETED"
      BY DEF Steps, States
    <3> HIDE DEF state
    <3> QED
      BY <3>1, <3>3, <3>4 DEF SaveState, Executes, Recorded
  <2>3. /\ {"CREATED", "LOCK_ACQUIRED", "FILES_INSTALLED", "COMMITTED", "FAILED", "ROLLBACK_STARTED",
            "ROLLED_BACK", "MANUAL_INTERVENTION_REQUIRED"} \subseteq States \ {"COMPLETED"}
        /\ {"host", "restore", "host_rollback"} = HostOps
    BY DEF States, BeforeActivation, Eligible, HostOps
  <2>4. ASSUME NEW op \in HostOps, NEW done, NEW next,
               NEW status \in {"ROLLBACK_STARTED", "MANUAL_INTERVENTION_REQUIRED"},
               HostUnlock(p, op, done, next, status)
        PROVE  Same \/ Recorded(p)
    BY <1>3, <2>1, <2>3, <2>4 DEF HostUnlock
  <2>5. CASE HostStep(p)
    BY <1>3, <2>1, <2>2, <2>3, <2>4, <2>5 DEF HostStep
  <2>6. CASE RestoreStep(p)
    BY <1>3, <2>1, <2>3, <2>4, <2>6 DEF RestoreStep
  <2> QED
    BY <1>8, <2>5, <2>6
<1> QED
  BY <1>1, <1>2, <1>4, <1>5, <1>6, <1>7, <1>8 DEF Next

-----------------------------------------------------------------------------
(* The theorems.                                                           *)

\* Every variable keeps its kind, whatever operations meet; and while none
\* have met on a transaction, every helper is where its record says, past its
\* lock stage only with the lock, and the records account for the links, the
\* service and the files (Helper, HostConfiguration, _lock, _release_lock).
THEOREM HelperInvariance == Spec => []IInv
<1>1. Init => IInv
  BY InitHolds
<1>2. IInv /\ [Next]_vars => IInv'
  BY NextKeeps
<1> QED
  BY <1>1, <1>2, PTL DEF Spec

\* Every variable holds values of its kind, overlapping operations or not.
THEOREM DeployTypeCorrect == Spec => []TypeOK
<1>1. IInv => TypeOK
  BY DEF IInv, TypeInv
<1> QED
  BY <1>1, HelperInvariance, PTL

\* Whatever is killed, an unfinished transaction holds the lock, so that no
\* other one begins over it, unless operations have overlapped on a
\* transaction (begin, install, _lock, _release_lock).
THEOREM LockHeldWhileOpen == Spec => []OpenHoldsLock
<1>1. IInv => OpenHoldsLock
  BY DEF IInv, Alone, RecordsOK, HeldWhileOpen, OpenHoldsLock
<1> QED
  BY <1>1, HelperInvariance, PTL

\* A lock is freed only when the service runs the release that the current
\* link names and the host files are those of one change, after any order of
\* failures, kills, aborts and rollbacks, unless operations have overlapped
\* on a transaction (activate, rollback, abort, install).
THEOREM FreeLockAlwaysSound == Spec => []FreeLockSound
<1>1. IInv => FreeLockSound
  BY ConstantsApart DEF IInv, Alone, RecordsOK, FreeLockSound
<1> QED
  BY <1>1, HelperInvariance, PTL

\* COMPLETED is recorded only by an activation whose links and service are
\* what it set, unless operations have overlapped on a transaction (activate,
\* _validate_health).
THEOREM CompletedRunsTarget == Spec => CompletedRuns
<1> DEFINE Step ==
        overlaps = 0 => \A d \in Deployments :
          record'[d] = "COMPLETED" /\ record[d] # "COMPLETED" =>
              /\ running = kept'[d].target /\ current = kept'[d].target
              /\ previous = kept'[d].prev
<1>1. ASSUME IInv, [Next]_vars
      PROVE  [Step]_vars
  <2> SUFFICES ASSUME overlaps = 0
               PROVE  Step
    OBVIOUS
  <2>1. Sound /\ TypeInv
    BY <1>1 DEF IInv, Sound
  <2>2. CASE UNCHANGED record
    BY <2>2
  <2>3. ASSUME NEW p \in Helpers, Recorded(p)
        PROVE  Step
    <3>1. PICK done \in Steps, status \in States, state \in Contents :
            /\ at[p].done = done /\ at[p].op # "none"
            /\ record' = [record EXCEPT ![at[p].of] = Written(p, status)]
            /\ kept' = [kept EXCEPT ![at[p].of] = state]
            /\ status = "COMPLETED" =>
                 at[p].op = "activate" /\ done = "HEALTH_VALIDATED" /\ state = at[p].state
      BY <2>3 DEF Recorded
    <3>2. Written(p, status) = "COMPLETED" => status = "COMPLETED"
      BY DEF Written
    <3>3. at[p] # Idle
      BY <3>1, IdleBlank
    <3>4. Done(at[p]) /\ at[p].of \in Transactions
      BY <2>1, <3>3, Running
    <3> SUFFICES ASSUME NEW d \in Deployments, record'[d] = "COMPLETED", record[d] # "COMPLETED"
                 PROVE  /\ running = kept'[d].target /\ current = kept'[d].target
                        /\ previous = kept'[d].prev
      OBVIOUS
    <3>5. d = at[p].of /\ status = "COMPLETED"
      BY <2>1, <3>1, <3>2, <3>4, ConstantsApart DEF TypeInv, TypeOK
    <3>6. kept'[d] = at[p].state
      BY <2>1, <3>1, <3>4, <3>5 DEF TypeInv, TypeOK
    <3> QED
      BY <3>1, <3>4, <3>5, <3>6 DEF Done
  <2> QED
    BY <1>1, <2>1, <2>2, <2>3, StepKinds DEF Relinks
<1>2. IInv /\ [Next]_vars => [Step]_vars
  BY <1>1
<1> HIDE DEF Step
<1>3. Spec => [][Step]_vars
  BY <1>2, HelperInvariance, PTL DEF Spec
<1> QED
  BY <1>3 DEF Step, CompletedRuns

\* The previous link is only ever given the release that is current then,
\* although begin reads the current link before it has the lock, unless
\* operations have overlapped on a transaction (activate).
THEOREM PreviousLinkSound == Spec => PreviousWasCurrent
<1> DEFINE Step == overlaps = 0 /\ previous' # previous => previous' = current
<1>1. ASSUME IInv, [Next]_vars
      PROVE  [Step]_vars
  <2> SUFFICES ASSUME overlaps = 0
               PROVE  Step
    OBVIOUS
  <2>1. Sound /\ TypeInv
    BY <1>1 DEF IInv, Sound
  <2>2. CASE UNCHANGED previous
    BY <2>2
  <2>3. ASSUME NEW p \in Helpers, LinkPrevious(p)
        PROVE  Step
    <3>1. Executes(p, "activate", "ACTIVATION_STARTED") /\ previous' = at[p].state.prev
      BY <2>3 DEF LinkPrevious, Relink, Prev
    <3>2. current = at[p].state.prev
      BY <2>1, <3>1, Executing DEF Done
    <3> QED
      BY <3>1, <3>2
  <2> QED
    BY <1>1, <2>1, <2>2, <2>3, StepKinds DEF Recorded, Relinks, links
<1>2. IInv /\ [Next]_vars => [Step]_vars
  BY <1>1
<1> HIDE DEF Step
<1>3. Spec => [][Step]_vars
  BY <1>2, HelperInvariance, PTL DEF Spec
<1> QED
  BY <1>3 DEF Step, PreviousWasCurrent

\* No link moves and no service restarts while host files are being replaced,
\* unless operations have overlapped on a transaction (Helper.dispatch,
\* HostConfiguration).
THEOREM HostFilesApart == Spec => HostChangesAlone
<1> DEFINE Step == overlaps = 0 /\ files = Mixed => UNCHANGED links
<1>1. ASSUME IInv, [Next]_vars
      PROVE  [Step]_vars
  <2> SUFFICES ASSUME overlaps = 0
               PROVE  Step
    OBVIOUS
  <2>1. Sound /\ TypeInv
    BY <1>1 DEF IInv, Sound
  <2>2. ASSUME NEW p \in Helpers, Relinks(p)
        PROVE  files # Mixed
    <3>1. at[p].op \in {"activate", "undo"} /\ at[p] # Idle
      BY <2>2, IdleBlank DEF Relinks
    <3>2. Placed(at[p]) /\ Fits(at[p])
      BY <2>1, <3>1, Running
    <3>3. lock = at[p].of /\ at[p].of \in Deployments
      BY <3>1, <3>2 DEF Placed, PreLock, Fits, DeployOps
    <3> QED
      BY <2>1, <3>3, ConstantsApart DEF Sound, Alone, RecordsOK
  <2> QED
    BY <1>1, <2>1, <2>2, StepKinds DEF Recorded
<1>2. IInv /\ [Next]_vars => [Step]_vars
  BY <1>1
<1> HIDE DEF Step
<1>3. Spec => [][Step]_vars
  BY <1>2, HelperInvariance, PTL DEF Spec
<1> QED
  BY <1>3 DEF Step, HostChangesAlone
=============================================================================
