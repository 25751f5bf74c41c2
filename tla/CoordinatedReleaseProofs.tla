---------------------- MODULE CoordinatedReleaseProofs ----------------------
(***************************************************************************)
(* The properties of CoordinatedRelease for any number of helpers,         *)
(* releases and transactions.                                              *)
(*                                                                         *)
(* Nothing keeps two helpers apart, so what a call has done is known only  *)
(* as long as none have overlapped (SerialOK).  Then one helper runs at a  *)
(* time, the step it has reached says what receipt, links and service are  *)
(* (Reached), and a mismatch is at every moment, not only at rest, owed to *)
(* a transaction that is not finished (Accounted): an activation writes    *)
(* "started" before it moves anything, and a rollback moves the API link   *)
(* first, which tells it from one that has not begun.                      *)
(***************************************************************************)
EXTENDS CoordinatedRelease, TLAPS

\* The steps of an activation, of its way back, and of a later rollback.

Forward == {"started", "extracted", "staged", "api", "web", "restarted", "accepted"}
Undoing == {"undo", "undo api", "undo web", "undone", "restored"}
Backing == {"back", "back api", "back web", "backed", "verified"}
Runs == [pc: {"idle"} \cup Forward \cup Undoing \cup Backing \cup {"created"}, txn: 0 .. MaxTxns]

\* A receipt that exists names releases, and a helper that runs has one.
Recorded ==
    /\ \A t \in Txns : receipt[t].state # "absent" =>
            /\ receipt[t].release \in Releases
            /\ receipt[t].oldApi \in Releases /\ receipt[t].oldWeb \in Releases
    /\ \A h \in Helpers : run[h].pc # "idle" =>
            run[h].txn \in Txns /\ receipt[run[h].txn].state # "absent"

\* At most one helper runs.
Alone == \A g, h \in Helpers : run[g].pc # "idle" /\ run[h].pc # "idle" => g = h

\* What a call knows of its transaction, the links and the service.
Reached(a) ==
    /\ a.pc \in Forward \cup Undoing => receipt[a.txn].state = "started"
    /\ a.pc \in Backing \cup {"created"} => receipt[a.txn].state = "active"
    /\ a.pc \in Backing => rollback[a.txn] = "none"
    /\ a.pc = "accepted" => served = api /\ web = api
    /\ a.pc \in {"undone", "backed"} => served \in {api, None}
    /\ a.pc \in {"back api", "back web", "backed"} => api = receipt[a.txn].oldApi
    /\ a.pc \in {"restored", "verified", "created"} =>
            served = api /\ api = receipt[a.txn].oldApi /\ web = receipt[a.txn].oldWeb

\* What SettledIsConsistent says, but at every moment.
Accounted ==
    \/ \E t \in Txns : CutShort(t) \/ receipt[t].oldApi # receipt[t].oldWeb
    \/ api = web /\ served = api

SerialOK ==
    /\ Alone
    /\ \A h \in Helpers : Reached(run[h])
    /\ Accounted

IInv == TypeOK /\ Recorded /\ (~overlapped => SerialOK)

\* One pair is in place and no helper runs.
LEMMA IInvInitially == Init => IInv
<1> SUFFICES ASSUME Init PROVE IInv
  OBVIOUS
<1> USE FirstAssumption, NullAssumption, BoundsAssumption
<1>1. NoReceipt \in Receipts /\ Idle \in Runs
  BY DEF NoReceipt, Receipts, Idle, Runs
<1>2. TypeOK
  <2>1. receipt \in [Txns -> Receipts] /\ run \in [Helpers -> Runs]
    BY <1>1 DEF Init
  <2> QED
    BY <2>1 DEF Init, TypeOK, Runs, Forward, Undoing, Backing
<1>3. Recorded
  BY DEF Init, Recorded, NoReceipt, Idle
<1>4. SerialOK
  BY DEF Init, SerialOK, Alone, Reached, Accounted, Idle, Forward, Undoing, Backing
<1> QED
  BY <1>2, <1>3, <1>4 DEF IInv

\* A step of one helper, told by the record it leaves of its call.
LEMMA StepKeepsIInv ==
    ASSUME IInv, NEW h \in Helpers, NEW a \in Runs,
           run' = [run EXCEPT ![h] = a],
           TypeOK',
           \A t \in Txns : receipt'[t].state # "absent" =>
                /\ receipt'[t].release \in Releases
                /\ receipt'[t].oldApi \in Releases /\ receipt'[t].oldWeb \in Releases,
           \A t \in Txns : receipt[t].state # "absent" => receipt'[t].state # "absent",
           a.pc # "idle" => a.txn \in Txns /\ receipt'[a.txn].state # "absent",
           ~overlapped' =>
                /\ ~overlapped
                /\ \A g \in Helpers \ {h} : run[g].pc = "idle"
                /\ Reached(a)'
                /\ Accounted'
    PROVE  IInv'
<1>1. /\ run'[h] = a
      /\ \A g \in Helpers \ {h} : run'[g] = run[g]
  BY DEF IInv, TypeOK
<1>2. Recorded'
  BY <1>1 DEF IInv, Recorded
<1>3. ASSUME ~overlapped'
      PROVE  SerialOK'
  <2>1. Alone'
    BY <1>1, <1>3 DEF Alone
  <2>2. ASSUME NEW g \in Helpers
        PROVE  Reached(run[g])'
    <3>1. CASE g = h
      BY <3>1, <1>1, <1>3 DEF Reached
    <3>2. CASE g # h
      BY <3>2, <1>1, <1>3 DEF Reached, Forward, Undoing, Backing
    <3> QED
      BY <3>1, <3>2
  <2> QED
    BY <2>1, <2>2, <1>3 DEF SerialOK
<1> QED
  BY <1>2, <1>3 DEF IInv

\* What each kind of step says of the helper that takes it.
LEMMA BeginsEffect ==
    ASSUME IInv, NEW h \in Helpers, NEW pc \in Forward \cup Backing, NEW t \in Txns,
           Begins(h, pc, t)
    PROVE  /\ [pc |-> pc, txn |-> t] \in Runs
           /\ run' = [run EXCEPT ![h] = [pc |-> pc, txn |-> t]]
           /\ run' \in [Helpers -> Runs]
           /\ overlapped' \in BOOLEAN
           /\ ~overlapped' => ~overlapped /\ \A g \in Helpers : run[g].pc = "idle"
<1>1. [pc |-> pc, txn |-> t] \in Runs
  BY BoundsAssumption DEF Runs, Txns
<1>2. run \in [Helpers -> Runs] /\ overlapped \in BOOLEAN
  BY DEF IInv, TypeOK, Runs, Forward, Undoing, Backing
<1> QED
  BY <1>1, <1>2 DEF Begins

LEMMA GoesEffect ==
    ASSUME IInv, NEW h \in Helpers, NEW from, NEW to \in Forward \cup Undoing \cup Backing \cup {"created"},
           from # "idle", Goes(h, from, to)
    PROVE  /\ run[h].pc = from
           /\ run[h].txn \in Txns
           /\ receipt[run[h].txn].state # "absent"
           /\ [pc |-> to, txn |-> run[h].txn] \in Runs
           /\ run' = [run EXCEPT ![h] = [pc |-> to, txn |-> run[h].txn]]
           /\ run' \in [Helpers -> Runs]
           /\ overlapped' = overlapped
           /\ ~overlapped =>
                /\ \A g \in Helpers \ {h} : run[g].pc = "idle"
                /\ Reached(run[h])
                /\ Accounted
<1>1. run \in [Helpers -> Runs]
  BY DEF IInv, TypeOK, Runs, Forward, Undoing, Backing
<1>2. /\ run[h].pc = from /\ overlapped' = overlapped
      /\ run' = [run EXCEPT ![h].pc = to]
  BY DEF Goes
<1>3. run[h].txn \in Txns /\ receipt[run[h].txn].state # "absent"
  BY <1>2 DEF IInv, Recorded
<1>4. PICK a \in Runs : a = run[h]
  BY <1>1
<1>5. a = [pc |-> a.pc, txn |-> a.txn]
  BY DEF Runs
<1>6. [a EXCEPT !.pc = to] = [pc |-> to, txn |-> a.txn]
  BY <1>5
<1>7. [pc |-> to, txn |-> run[h].txn] \in Runs
  BY <1>1 DEF Runs
<1>8. run' = [run EXCEPT ![h] = [pc |-> to, txn |-> run[h].txn]]
  BY <1>1, <1>2, <1>4, <1>6
<1>9. ~overlapped => \A g \in Helpers \ {h} : run[g].pc = "idle"
  BY <1>2 DEF IInv, SerialOK, Alone
<1> QED
  BY <1>1, <1>2, <1>3, <1>7, <1>8, <1>9 DEF IInv, SerialOK

LEMMA EndsEffect ==
    ASSUME IInv, NEW h \in Helpers, NEW from, "idle" \notin from, Ends(h, from)
    PROVE  /\ run[h].pc \in from
           /\ run[h].txn \in Txns
           /\ receipt[run[h].txn].state # "absent"
           /\ Idle \in Runs
           /\ run' = [run EXCEPT ![h] = Idle]
           /\ run' \in [Helpers -> Runs]
           /\ overlapped' = overlapped
           /\ ~overlapped =>
                /\ \A g \in Helpers \ {h} : run[g].pc = "idle"
                /\ Reached(run[h])
                /\ Accounted
<1>1. run \in [Helpers -> Runs]
  BY DEF IInv, TypeOK, Runs, Forward, Undoing, Backing
<1>2. Idle \in Runs
  BY BoundsAssumption DEF Idle, Runs
<1>3. run[h].pc \in from /\ run[h].pc # "idle" /\ overlapped' = overlapped /\ run' = [run EXCEPT ![h] = Idle]
  BY DEF Ends
<1>4. run[h].txn \in Txns /\ receipt[run[h].txn].state # "absent"
  BY <1>3 DEF IInv, Recorded
<1>5. ~overlapped => \A g \in Helpers \ {h} : run[g].pc = "idle"
  BY <1>3 DEF IInv, SerialOK, Alone
<1> QED
  BY <1>1, <1>2, <1>3, <1>4, <1>5 DEF IInv, SerialOK

\* The state of one receipt is written, the rest of it is kept.
LEMMA ReceiptWritten ==
    ASSUME TypeOK, NEW t \in Txns, NEW s \in {"active", "rolled_back", "torn"},
           receipt' = [receipt EXCEPT ![t].state = s]
    PROVE  /\ receipt' \in [Txns -> Receipts]
           /\ receipt'[t].state = s
           /\ \A u \in Txns : /\ receipt'[u].release = receipt[u].release
                              /\ receipt'[u].oldApi = receipt[u].oldApi
                              /\ receipt'[u].oldWeb = receipt[u].oldWeb
                              /\ u # t => receipt'[u].state = receipt[u].state
<1>1. receipt \in [Txns -> Receipts]
  BY DEF TypeOK
<1>2. PICK r \in Receipts : r = receipt[t]
  BY <1>1
<1>3. PICK q : q = [r EXCEPT !.state = s]
  OBVIOUS
<1>4. /\ q \in Receipts /\ q.state = s
      /\ q.release = r.release /\ q.oldApi = r.oldApi /\ q.oldWeb = r.oldWeb
  BY <1>3 DEF Receipts
<1>5. receipt' = [receipt EXCEPT ![t] = q]
  BY <1>1, <1>2, <1>3
<1> HIDE DEF Receipts
<1> QED
  BY <1>1, <1>2, <1>4, <1>5

\* A link, the service or a directory changes: receipts and records are kept.
LEMMA GoingKeepsIInv ==
    ASSUME IInv, NEW h \in Helpers, NEW from,
           NEW to \in Forward \cup Undoing \cup Backing,
           NEW txn, txn = run[h].txn,
           from # "idle", Goes(h, from, to),
           UNCHANGED <<receipt, rollback>>,
           api' \in Releases, web' \in Releases, served' \in Releases \cup {None},
           apiDirs' \subseteq Releases, webDirs' \subseteq Releases,
           ~overlapped /\ Reached(run[h]) /\ Accounted =>
                Reached([pc |-> to, txn |-> txn])' /\ Accounted'
    PROVE  IInv'
<1> DEFINE a == [pc |-> to, txn |-> txn]
<1>1. /\ txn \in Txns
      /\ receipt[txn].state # "absent"
      /\ a \in Runs
      /\ run' = [run EXCEPT ![h] = a]
      /\ run' \in [Helpers -> Runs]
      /\ overlapped' = overlapped
      /\ ~overlapped =>
            /\ \A g \in Helpers \ {h} : run[g].pc = "idle"
            /\ Reached(run[h])
            /\ Accounted
  BY GoesEffect
<1>2. TypeOK'
  BY <1>1 DEF IInv, TypeOK, Runs, Forward, Undoing, Backing
<1>3. \A t \in Txns : receipt'[t].state # "absent" =>
            /\ receipt'[t].release \in Releases
            /\ receipt'[t].oldApi \in Releases /\ receipt'[t].oldWeb \in Releases
  BY DEF IInv, Recorded
<1>4. a.txn = txn
  OBVIOUS
<1>5. ~overlapped' => Reached(a)' /\ Accounted'
  BY <1>1
<1> HIDE DEF a
<1> QED
  BY <1>1, <1>2, <1>3, <1>4, <1>5, StepKeepsIInv

\* A call ends: links, service and directories are kept.
LEMMA EndingKeepsIInv ==
    ASSUME IInv, NEW h \in Helpers, NEW from, "idle" \notin from, Ends(h, from),
           UNCHANGED <<links, served, dirs>>,
           receipt' \in [Txns -> Receipts],
           rollback' \in [Txns -> {"none", "empty", "rolled_back"}],
           \A t \in Txns : /\ receipt'[t].release = receipt[t].release
                           /\ receipt'[t].oldApi = receipt[t].oldApi
                           /\ receipt'[t].oldWeb = receipt[t].oldWeb
                           /\ \/ receipt'[t].state = receipt[t].state
                              \/ t = run[h].txn /\ receipt'[t].state # "absent",
           ~overlapped /\ Reached(run[h]) /\ Accounted => Accounted'
    PROVE  IInv'
<1>1. /\ run[h].txn \in Txns
      /\ receipt[run[h].txn].state # "absent"
      /\ Idle \in Runs
      /\ run' = [run EXCEPT ![h] = Idle]
      /\ run' \in [Helpers -> Runs]
      /\ overlapped' = overlapped
      /\ ~overlapped =>
            /\ \A g \in Helpers \ {h} : run[g].pc = "idle"
            /\ Reached(run[h])
            /\ Accounted
  BY EndsEffect
<1>2. TypeOK'
  BY <1>1 DEF IInv, TypeOK, Runs, Forward, Undoing, Backing, links, dirs
<1>3. \A t \in Txns : receipt'[t].state # "absent" =>
            /\ receipt'[t].release \in Releases
            /\ receipt'[t].oldApi \in Releases /\ receipt'[t].oldWeb \in Releases
  BY <1>1 DEF IInv, Recorded
<1>4. \A t \in Txns : receipt[t].state # "absent" => receipt'[t].state # "absent"
  OBVIOUS
<1>5. Idle.pc = "idle" /\ Reached(Idle)'
  BY DEF Idle, Reached, Forward, Undoing, Backing
<1> QED
  BY <1>1, <1>2, <1>3, <1>4, <1>5, StepKeepsIInv

\* activate.  While it runs its receipt is "started", which accounts for all.
LEMMA ActivateKeepsIInv ==
    ASSUME IInv, NEW h \in Helpers, Activate(h)
    PROVE  IInv'
<1>0. TypeOK /\ Recorded /\ (~overlapped => SerialOK)
  BY DEF IInv
<1>b. PICK txn : txn = run[h].txn
  OBVIOUS
<1>a. ASSUME run[h].pc # "idle"
      PROVE  /\ txn \in Txns
             /\ Of(h) = receipt[txn]
             /\ Of(h).release \in Releases
             /\ Of(h).oldApi \in Releases /\ Of(h).oldWeb \in Releases
  BY <1>a, <1>b, <1>0 DEF Recorded, Of
<1>1. ASSUME NEW t \in Txns, NEW r \in Releases, Start(h, t, r)
      PROVE  IInv'
  <2> DEFINE a == [pc |-> "started", txn |-> t]
             new == [state |-> "started", release |-> r, oldApi |-> api, oldWeb |-> web]
  <2>0. /\ Begins(h, "started", t)
        /\ receipt[t].state = "absent"
        /\ receipt' = [receipt EXCEPT ![t] = new]
        /\ UNCHANGED <<links, served, dirs, rollback>>
    BY <1>1 DEF Start
  <2>1. /\ a \in Runs
        /\ run' = [run EXCEPT ![h] = a]
        /\ run' \in [Helpers -> Runs]
        /\ overlapped' \in BOOLEAN
        /\ ~overlapped' => ~overlapped /\ \A g \in Helpers : run[g].pc = "idle"
    BY <2>0, BeginsEffect DEF Forward
  <2>2. new \in Receipts /\ receipt \in [Txns -> Receipts]
    BY <1>0 DEF TypeOK, Receipts
  <2>3. /\ receipt' \in [Txns -> Receipts]
        /\ receipt'[t] = new
        /\ receipt'[t].release = r /\ receipt'[t].oldApi = api /\ receipt'[t].oldWeb = web
        /\ \A u \in Txns : u # t => receipt'[u] = receipt[u]
    BY <2>0, <2>2
  <2>4. TypeOK'
    BY <2>0, <2>1, <2>3, <1>0 DEF TypeOK, Runs, Forward, Undoing, Backing, links, dirs
  <2>5. ASSUME NEW u \in Txns, receipt'[u].state # "absent"
        PROVE  /\ receipt'[u].release \in Releases
               /\ receipt'[u].oldApi \in Releases /\ receipt'[u].oldWeb \in Releases
    <3>1. CASE u = t
      BY <3>1, <2>3, <1>0 DEF TypeOK
    <3>2. CASE u # t
      BY <3>2, <2>3, <2>5, <1>0 DEF Recorded
    <3> QED
      BY <3>1, <3>2
  <2>6. receipt'[t].state = "started" /\ a.pc = "started" /\ a.txn = t
    BY <2>3
  <2>7. Accounted'
    BY <2>6 DEF Accounted, CutShort
  <2>8. Reached(a)'
    BY <2>6 DEF Reached, Forward, Undoing, Backing
  <2>9. \A u \in Txns : receipt[u].state # "absent" => receipt'[u].state # "absent"
    BY <2>3, <2>6
  <2> HIDE DEF a
  <2> QED
    BY <2>1, <2>4, <2>5, <2>6, <2>7, <2>8, <2>9, StepKeepsIInv
<1>2. ASSUME NEW from \in Forward \cup Undoing, NEW to \in (Forward \cup Undoing) \ {"accepted", "undone", "restored"},
             Goes(h, from, to), UNCHANGED <<receipt, rollback>>,
             api' \in Releases, web' \in Releases, served' \in Releases \cup {None},
             apiDirs' \subseteq Releases, webDirs' \subseteq Releases
      PROVE  IInv'
  <2>1. run[h].pc = from /\ from # "idle" /\ to \notin Backing \cup {"created"}
    BY <1>2 DEF Goes, Forward, Undoing, Backing
  <2>2. ASSUME Reached(run[h])
        PROVE  Reached([pc |-> to, txn |-> txn])' /\ Accounted'
    <3>1. receipt'[txn].state = "started" /\ txn \in Txns
      BY <1>2, <2>1, <2>2, <1>a, <1>b DEF Reached
    <3>2. Accounted'
      BY <3>1 DEF Accounted, CutShort
    <3>3. Reached([pc |-> to, txn |-> txn])'
      BY <3>1, <2>1, <1>2 DEF Reached, Backing
    <3> QED
      BY <3>2, <3>3
  <2> QED
    BY <1>2, <2>1, <2>2, <1>b, GoingKeepsIInv
<1>3. CASE ExtractServer(h)
  <2>1. Goes(h, "started", "extracted") /\ run[h].pc = "started"
    BY <1>3 DEF ExtractServer, Goes
  <2> QED
    BY <1>3, <2>1, <1>2, <1>a, <1>b, <1>0 DEF ExtractServer, TypeOK, links, dirs, Forward, Undoing
<1>4. CASE StageFrontend(h)
  <2>1. Goes(h, "extracted", "staged") /\ run[h].pc = "extracted"
    BY <1>4 DEF StageFrontend, Goes
  <2> QED
    BY <1>4, <2>1, <1>2, <1>a, <1>b, <1>0 DEF StageFrontend, TypeOK, links, dirs, Forward, Undoing
<1>5. CASE SwitchApi(h)
  <2>1. Goes(h, "staged", "api") /\ run[h].pc = "staged"
    BY <1>5 DEF SwitchApi, Goes
  <2> QED
    BY <1>5, <2>1, <1>2, <1>a, <1>b, <1>0 DEF SwitchApi, TypeOK, dirs, Forward, Undoing
<1>6. CASE SwitchWeb(h)
  <2>1. Goes(h, "api", "web") /\ run[h].pc = "api"
    BY <1>6 DEF SwitchWeb, Goes
  <2> QED
    BY <1>6, <2>1, <1>2, <1>a, <1>b, <1>0 DEF SwitchWeb, TypeOK, dirs, Forward, Undoing
<1>7. CASE Restart(h)
  <2>1. Goes(h, "web", "restarted") /\ run[h].pc = "web"
    BY <1>7 DEF Restart, Goes
  <2> QED
    BY <1>7, <2>1, <1>2, <1>0 DEF Restart, Restarted, TypeOK, links, dirs, Forward, Undoing
<1>8. CASE Accept(h)
  <2>1. /\ Goes(h, "restarted", "accepted") /\ run[h].pc = "restarted"
        /\ served = api /\ web = api
        /\ UNCHANGED <<links, served, dirs, receipt, rollback>>
    BY <1>8 DEF Accept, Goes
  <2>2. ASSUME Reached(run[h])
        PROVE  Reached([pc |-> "accepted", txn |-> txn])' /\ Accounted'
    <3>1. receipt'[txn].state = "started" /\ txn \in Txns
      BY <2>1, <2>2, <1>a, <1>b DEF Reached, Forward
    <3> QED
      BY <2>1, <3>1 DEF Reached, Accounted, CutShort, links, Forward, Undoing, Backing
  <2> QED
    BY <2>1, <2>2, <1>0, <1>b, GoingKeepsIInv DEF TypeOK, links, dirs, Forward
<1>9. CASE RecordActive(h)
  <2>1. /\ Ends(h, {"accepted"}) /\ run[h].pc = "accepted"
        /\ receipt' = [receipt EXCEPT ![txn].state = "active"]
        /\ UNCHANGED <<links, served, dirs, rollback>>
    BY <1>9, <1>b DEF RecordActive, Ends
  <2>2. /\ receipt' \in [Txns -> Receipts]
        /\ receipt'[txn].state = "active"
        /\ \A u \in Txns : /\ receipt'[u].release = receipt[u].release
                           /\ receipt'[u].oldApi = receipt[u].oldApi
                           /\ receipt'[u].oldWeb = receipt[u].oldWeb
                           /\ u # txn => receipt'[u].state = receipt[u].state
    BY <2>1, <1>0, <1>a, <1>b, ReceiptWritten
  <2>3. Reached(run[h]) => Accounted'
    BY <2>1 DEF Reached, Accounted, links
  <2> QED
    BY <2>1, <2>2, <2>3, <1>0, <1>b, EndingKeepsIInv DEF TypeOK
<1>10. CASE ActivationFails(h)
  <2>1. PICK pc \in Forward : Goes(h, pc, "undo")
    BY <1>10 DEF ActivationFails, Forward
  <2>2. UNCHANGED <<links, served, dirs, receipt, rollback>>
    BY <1>10 DEF ActivationFails
  <2> QED
    BY <2>1, <2>2, <1>2, <1>0 DEF TypeOK, links, dirs, Forward, Undoing
<1>11. CASE UndoApi(h)
  <2>1. Goes(h, "undo", "undo api") /\ run[h].pc = "undo"
    BY <1>11 DEF UndoApi, Goes
  <2> QED
    BY <1>11, <2>1, <1>2, <1>a, <1>b, <1>0 DEF UndoApi, TypeOK, dirs, Forward, Undoing
<1>12. CASE UndoWeb(h)
  <2>1. Goes(h, "undo api", "undo web") /\ run[h].pc = "undo api"
    BY <1>12 DEF UndoWeb, Goes
  <2> QED
    BY <1>12, <2>1, <1>2, <1>a, <1>b, <1>0 DEF UndoWeb, TypeOK, dirs, Forward, Undoing
<1>13. CASE UndoRestart(h)
  <2>1. /\ Goes(h, "undo web", "undone") /\ run[h].pc = "undo web"
        /\ served' \in {api', None}
        /\ UNCHANGED <<links, dirs, receipt, rollback>>
    BY <1>13 DEF UndoRestart, Restarted, Goes, links
  <2>2. ASSUME Reached(run[h])
        PROVE  Reached([pc |-> "undone", txn |-> txn])' /\ Accounted'
    <3>1. receipt'[txn].state = "started" /\ txn \in Txns
      BY <2>1, <2>2, <1>a, <1>b DEF Reached, Undoing
    <3> QED
      BY <2>1, <3>1 DEF Reached, Accounted, CutShort, links, Forward, Undoing, Backing
  <2> QED
    BY <2>1, <2>2, <1>0, <1>b, GoingKeepsIInv DEF TypeOK, links, dirs, Undoing
<1>14. CASE UndoVerify(h)
  <2>1. /\ Goes(h, "undone", "restored") /\ run[h].pc = "undone"
        /\ served # None
        /\ api = receipt[txn].oldApi /\ web = receipt[txn].oldWeb
        /\ UNCHANGED <<links, served, dirs, receipt, rollback>>
    BY <1>14, <1>b DEF UndoVerify, Goes, Of
  <2>2. ASSUME Reached(run[h])
        PROVE  Reached([pc |-> "restored", txn |-> txn])' /\ Accounted'
    <3>1. receipt'[txn].state = "started" /\ txn \in Txns /\ served = api
      BY <2>1, <2>2, <1>a, <1>b DEF Reached, Undoing
    <3> QED
      BY <2>1, <3>1 DEF Reached, Accounted, CutShort, links, Forward, Undoing, Backing
  <2> QED
    BY <2>1, <2>2, <1>0, <1>b, GoingKeepsIInv DEF TypeOK, links, dirs, Undoing
<1>15. CASE RecordRolledBack(h)
  <2>1. /\ Ends(h, {"restored"}) /\ run[h].pc = "restored"
        /\ receipt' = [receipt EXCEPT ![txn].state = "rolled_back"]
        /\ UNCHANGED <<links, served, dirs, rollback>>
    BY <1>15, <1>b DEF RecordRolledBack, Ends
  <2>2. /\ receipt' \in [Txns -> Receipts]
        /\ receipt'[txn].state = "rolled_back"
        /\ \A u \in Txns : /\ receipt'[u].release = receipt[u].release
                           /\ receipt'[u].oldApi = receipt[u].oldApi
                           /\ receipt'[u].oldWeb = receipt[u].oldWeb
                           /\ u # txn => receipt'[u].state = receipt[u].state
    BY <2>1, <1>0, <1>a, <1>b, ReceiptWritten
  <2>3. Reached(run[h]) => Accounted'
    <3>1. SUFFICES ASSUME Reached(run[h]) PROVE Accounted'
      OBVIOUS
    <3>2. served = api /\ api = receipt[txn].oldApi /\ web = receipt[txn].oldWeb
      BY <3>1, <2>1, <1>b DEF Reached
    <3>3. CASE receipt[txn].oldApi = receipt[txn].oldWeb
      BY <3>2, <3>3, <2>1 DEF Accounted, links
    <3>4. CASE receipt[txn].oldApi # receipt[txn].oldWeb
      BY <3>4, <2>1, <2>2, <1>a, <1>b DEF Accounted
    <3> QED
      BY <3>3, <3>4
  <2> QED
    BY <2>1, <2>2, <2>3, <1>0, <1>b, EndingKeepsIInv DEF TypeOK
<1> QED
  BY <1>1, <1>3, <1>4, <1>5, <1>6, <1>7, <1>8, <1>9, <1>10, <1>11, <1>12, <1>13, <1>14, <1>15
     DEF Activate

\* post_activation_rollback.  Once the API link is back, the receipt and that
\* link account for the rest until both links and the service are checked.
LEMMA RollbackKeepsIInv ==
    ASSUME IInv, NEW h \in Helpers, PostActivationRollback(h)
    PROVE  IInv'
<1>0. TypeOK /\ Recorded /\ (~overlapped => SerialOK)
  BY DEF IInv
<1>b. PICK txn : txn = run[h].txn
  OBVIOUS
<1>a. ASSUME run[h].pc # "idle"
      PROVE  /\ txn \in Txns
             /\ Of(h) = receipt[txn]
             /\ Of(h).oldApi \in Releases /\ Of(h).oldWeb \in Releases
  BY <1>a, <1>b, <1>0 DEF Recorded, Of
<1>1. ASSUME NEW t \in Txns, StartRollback(h, t)
      PROVE  IInv'
  <2> DEFINE a == [pc |-> "back", txn |-> t]
  <2>0. /\ Begins(h, "back", t)
        /\ receipt[t].state = "active" /\ rollback[t] = "none"
        /\ UNCHANGED <<links, served, dirs, receipt, rollback>>
    BY <1>1 DEF StartRollback
  <2>1. /\ a \in Runs
        /\ run' = [run EXCEPT ![h] = a]
        /\ run' \in [Helpers -> Runs]
        /\ overlapped' \in BOOLEAN
        /\ ~overlapped' => ~overlapped /\ \A g \in Helpers : run[g].pc = "idle"
    BY <2>0, BeginsEffect DEF Backing
  <2>2. TypeOK'
    BY <2>0, <2>1, <1>0 DEF TypeOK, Runs, Forward, Undoing, Backing, links, dirs
  <2>3. \A u \in Txns : receipt'[u].state # "absent" =>
            /\ receipt'[u].release \in Releases
            /\ receipt'[u].oldApi \in Releases /\ receipt'[u].oldWeb \in Releases
    BY <2>0, <1>0 DEF Recorded
  <2>4. a.pc = "back" /\ a.txn = t
    OBVIOUS
  <2>5. Reached(a)'
    BY <2>0, <2>4 DEF Reached, Forward, Undoing, Backing
  <2>6. Accounted => Accounted'
    BY <2>0 DEF Accounted, CutShort, links
  <2> HIDE DEF a
  <2> QED
    BY <2>0, <2>1, <2>2, <2>3, <2>4, <2>5, <2>6, <1>0, StepKeepsIInv DEF SerialOK
<1>2. CASE BackApi(h)
  <2>1. /\ Goes(h, "back", "back api") /\ run[h].pc = "back"
        /\ api' = receipt[txn].oldApi /\ api' \in Releases
        /\ UNCHANGED <<web, served, dirs, receipt, rollback>>
    BY <1>2, <1>a, <1>b DEF BackApi, Goes
  <2>2. ASSUME Reached(run[h])
        PROVE  Reached([pc |-> "back api", txn |-> txn])' /\ Accounted'
    <3>1. receipt'[txn].state = "active" /\ rollback'[txn] = "none" /\ txn \in Txns
      BY <2>1, <2>2, <1>a, <1>b DEF Reached, Backing
    <3> QED
      BY <2>1, <3>1 DEF Reached, Accounted, CutShort, Forward, Undoing, Backing
  <2> QED
    BY <2>1, <2>2, <1>0, <1>b, GoingKeepsIInv DEF TypeOK, dirs, Backing
<1>3. CASE BackWeb(h)
  <2>1. /\ Goes(h, "back api", "back web") /\ run[h].pc = "back api"
        /\ web' \in Releases
        /\ UNCHANGED <<api, served, dirs, receipt, rollback>>
    BY <1>3, <1>a, <1>b DEF BackWeb, Goes
  <2>2. ASSUME Reached(run[h])
        PROVE  Reached([pc |-> "back web", txn |-> txn])' /\ Accounted'
    <3>1. /\ receipt'[txn].state = "active" /\ rollback'[txn] = "none" /\ txn \in Txns
          /\ api' = receipt'[txn].oldApi
      BY <2>1, <2>2, <1>a, <1>b DEF Reached, Backing
    <3> QED
      BY <2>1, <3>1 DEF Reached, Accounted, CutShort, Forward, Undoing, Backing
  <2> QED
    BY <2>1, <2>2, <1>0, <1>b, GoingKeepsIInv DEF TypeOK, dirs, Backing
<1>4. CASE BackRestart(h)
  <2>1. /\ Goes(h, "back web", "backed") /\ run[h].pc = "back web"
        /\ served' \in {api', None}
        /\ UNCHANGED <<links, dirs, receipt, rollback>>
    BY <1>4 DEF BackRestart, Restarted, Goes, links
  <2>2. ASSUME Reached(run[h])
        PROVE  Reached([pc |-> "backed", txn |-> txn])' /\ Accounted'
    <3>1. /\ receipt'[txn].state = "active" /\ rollback'[txn] = "none" /\ txn \in Txns
          /\ api' = receipt'[txn].oldApi
      BY <2>1, <2>2, <1>a, <1>b DEF Reached, Backing, links
    <3> QED
      BY <2>1, <3>1 DEF Reached, Accounted, CutShort, Forward, Undoing, Backing
  <2> QED
    BY <2>1, <2>2, <1>0, <1>b, GoingKeepsIInv DEF TypeOK, links, dirs, Backing
<1>5. CASE BackVerify(h)
  <2>1. /\ Goes(h, "backed", "verified") /\ run[h].pc = "backed"
        /\ served # None
        /\ api = receipt[txn].oldApi /\ web = receipt[txn].oldWeb
        /\ UNCHANGED <<links, served, dirs, receipt, rollback>>
    BY <1>5, <1>b DEF BackVerify, Goes, Of
  <2>2. ASSUME Reached(run[h])
        PROVE  Reached([pc |-> "verified", txn |-> txn])' /\ Accounted'
    <3>1. /\ receipt'[txn].state = "active" /\ rollback'[txn] = "none" /\ txn \in Txns
          /\ served = api
      BY <2>1, <2>2, <1>a, <1>b DEF Reached, Backing
    <3> QED
      BY <2>1, <3>1 DEF Reached, Accounted, CutShort, links, Forward, Undoing, Backing
  <2> QED
    BY <2>1, <2>2, <1>0, <1>b, GoingKeepsIInv DEF TypeOK, links, dirs, Backing
<1>6. CASE CreateEvidence(h)
  <2>0. /\ run[h].pc = "verified"
        /\ UNCHANGED <<links, served, dirs, receipt>>
    BY <1>6 DEF CreateEvidence
  <2>1. CASE rollback[txn] = "none"
    <3> DEFINE a == [pc |-> "created", txn |-> txn]
    <3>1. /\ Goes(h, "verified", "created")
          /\ rollback' = [rollback EXCEPT ![txn] = "empty"]
      BY <1>6, <2>1, <1>b DEF CreateEvidence
    <3>2. /\ txn \in Txns
          /\ receipt[txn].state # "absent"
          /\ a \in Runs
          /\ run' = [run EXCEPT ![h] = a]
          /\ run' \in [Helpers -> Runs]
          /\ overlapped' = overlapped
          /\ ~overlapped =>
                /\ \A g \in Helpers \ {h} : run[g].pc = "idle"
                /\ Reached(run[h])
                /\ Accounted
      BY <3>1, <1>b, GoesEffect
    <3>3. TypeOK'
      BY <2>0, <3>1, <3>2, <1>0 DEF TypeOK, Runs, Forward, Undoing, Backing, links, dirs
    <3>4. \A u \in Txns : receipt'[u].state # "absent" =>
              /\ receipt'[u].release \in Releases
              /\ receipt'[u].oldApi \in Releases /\ receipt'[u].oldWeb \in Releases
      BY <2>0, <1>0 DEF Recorded
    <3>5. a.pc = "created" /\ a.txn = txn
      OBVIOUS
    <3>6. ASSUME Reached(run[h])
          PROVE  Reached(a)' /\ Accounted'
      <4>1. /\ receipt[txn].state = "active"
            /\ served = api /\ api = receipt[txn].oldApi /\ web = receipt[txn].oldWeb
        BY <3>6, <2>0, <1>b DEF Reached, Backing
      <4>2. Reached(a)'
        BY <4>1, <3>5, <2>0 DEF Reached, links, Forward, Undoing, Backing
      <4>3. Accounted'
        BY <4>1, <2>0, <3>2 DEF Accounted, links
      <4> QED
        BY <4>2, <4>3
    <3> HIDE DEF a
    <3> QED
      BY <2>0, <3>2, <3>3, <3>4, <3>5, <3>6, StepKeepsIInv
  <2>2. CASE rollback[txn] # "none"
    <3>1. Ends(h, {"verified"}) /\ UNCHANGED rollback
      BY <1>6, <2>2, <1>b DEF CreateEvidence
    <3>2. Accounted => Accounted'
      BY <2>0, <3>1 DEF Accounted, CutShort, links
    <3> QED
      BY <2>0, <3>1, <3>2, <1>0, <1>b, EndingKeepsIInv DEF TypeOK
  <2> QED
    BY <2>1, <2>2
<1>7. CASE WriteEvidence(h)
  <2>1. /\ Ends(h, {"created"}) /\ run[h].pc = "created"
        /\ rollback' = [rollback EXCEPT ![txn] = "rolled_back"]
        /\ UNCHANGED <<links, served, dirs, receipt>>
    BY <1>7, <1>b DEF WriteEvidence, Ends
  <2>2. Reached(run[h]) => Accounted'
    BY <2>1, <1>a, <1>b DEF Reached, Accounted, links
  <2> QED
    BY <2>1, <2>2, <1>0, <1>a, <1>b, EndingKeepsIInv DEF TypeOK
<1> QED
  BY <1>1, <1>2, <1>3, <1>4, <1>5, <1>6, <1>7 DEF PostActivationRollback

\* A helper ends early: its receipt is left as it is, or torn.
LEMMA StopKeepsIInv ==
    ASSUME IInv, NEW h \in Helpers, Stop(h)
    PROVE  IInv'
<1> DEFINE from == {run[h].pc} \ {"idle"}
<1>0. TypeOK /\ Recorded
  BY DEF IInv
<1>1. /\ Ends(h, from) /\ "idle" \notin from
      /\ run[h].pc # "idle"
      /\ UNCHANGED <<links, served, dirs, rollback>>
  BY DEF Stop, Ends
<1>2. run[h].txn \in Txns
  BY <1>0, <1>1 DEF Recorded
<1>3. CASE UNCHANGED receipt
  <2>1. Accounted => Accounted'
    BY <1>1, <1>3 DEF Accounted, CutShort, links
  <2> HIDE DEF from
  <2> QED
    BY <1>0, <1>1, <1>3, <2>1, EndingKeepsIInv DEF TypeOK
<1>4. CASE receipt' = [receipt EXCEPT ![run[h].txn].state = "torn"]
  <2>1. /\ receipt' \in [Txns -> Receipts]
        /\ receipt'[run[h].txn].state = "torn"
        /\ \A u \in Txns : /\ receipt'[u].release = receipt[u].release
                           /\ receipt'[u].oldApi = receipt[u].oldApi
                           /\ receipt'[u].oldWeb = receipt[u].oldWeb
                           /\ u # run[h].txn => receipt'[u].state = receipt[u].state
    BY <1>0, <1>2, <1>4, ReceiptWritten
  <2>2. Accounted'
    BY <2>1, <1>2 DEF Accounted, CutShort
  <2> HIDE DEF from
  <2> QED
    BY <1>0, <1>1, <2>1, <2>2, EndingKeepsIInv DEF TypeOK
<1> QED
  BY <1>3, <1>4 DEF Stop

\* Every step keeps the invariant.
LEMMA IInvKept == IInv /\ [Next]_vars => IInv'
<1>1. ASSUME IInv, UNCHANGED vars
      PROVE  IInv'
  BY <1>1 DEF IInv, vars, links, dirs, TypeOK, Recorded, SerialOK, Alone, Reached, Accounted, CutShort
<1> QED
  BY <1>1, ActivateKeepsIInv, RollbackKeepsIInv, StopKeepsIInv DEF Next

\* The inductive invariant holds.
THEOREM PairInvariance == Spec => []IInv
  BY IInvInitially, IInvKept, PTL DEF Spec

\* The variables keep their types.
THEOREM CoordinatedTypeCorrect == Spec => []TypeOK
<1>1. IInv => TypeOK
  BY DEF IInv
<1> QED
  BY <1>1, PairInvariance, PTL

\* At rest both links and the service name one release, unless a transaction
\* was cut short and its receipt tells, or helpers overlapped.
THEOREM SettlesConsistent == Spec => []SettledIsConsistent
<1>1. IInv => SettledIsConsistent
  BY DEF IInv, SerialOK, Accounted, SettledIsConsistent
<1> QED
  BY <1>1, PairInvariance, PTL

\* Only two steps record a rollback, and each follows the check of both links.
LEMMA RecordsAfterRestoring ==
    ASSUME IInv, [Next]_vars, NEW t \in Txns, Records(t)
    PROVE  \/ api = receipt[t].oldApi /\ web = receipt[t].oldWeb
           \/ overlapped
<1>0. TypeOK /\ Recorded
  BY DEF IInv
<1>1. ASSUME NEW h \in Helpers, RecordRolledBack(h)
      PROVE  t = run[h].txn /\ run[h].pc = "restored"
  <2>1. /\ run[h].pc = "restored" /\ run[h].txn \in Txns
        /\ receipt' = [receipt EXCEPT ![run[h].txn].state = "rolled_back"]
        /\ UNCHANGED rollback
    BY <1>0, <1>1 DEF RecordRolledBack, Ends, Recorded
  <2>2. t # run[h].txn => receipt'[t].state = receipt[t].state
    BY <2>1, <1>0, ReceiptWritten
  <2> QED
    BY <2>1, <2>2 DEF Records
<1>2. ASSUME NEW h \in Helpers, WriteEvidence(h)
      PROVE  t = run[h].txn /\ run[h].pc = "created"
  BY <1>2, <1>0 DEF WriteEvidence, Ends, Records, TypeOK
<1>3. ASSUME NEW h \in Helpers, t = run[h].txn, run[h].pc \in {"restored", "created"}
      PROVE  \/ api = receipt[t].oldApi /\ web = receipt[t].oldWeb
             \/ overlapped
  BY <1>3 DEF IInv, SerialOK, Reached
<1>4. ASSUME NEW h \in Helpers, RecordActive(h)
      PROVE  FALSE
  <2>1. /\ run[h].pc = "accepted" /\ run[h].txn \in Txns
        /\ receipt' = [receipt EXCEPT ![run[h].txn].state = "active"]
        /\ UNCHANGED rollback
    BY <1>0, <1>4 DEF RecordActive, Ends, Recorded
  <2>2. receipt'[t].state \in {"active", receipt[t].state}
    BY <2>1, <1>0, ReceiptWritten
  <2> QED
    BY <2>1, <2>2 DEF Records
<1>5. ASSUME NEW h \in Helpers, Stop(h)
      PROVE  FALSE
  <2>1. /\ run[h].txn \in Txns
        /\ UNCHANGED rollback
    BY <1>0, <1>5 DEF Stop, Ends, Recorded
  <2>2. CASE UNCHANGED receipt
    BY <2>1, <2>2 DEF Records
  <2>3. CASE receipt' = [receipt EXCEPT ![run[h].txn].state = "torn"]
    <3>1. receipt'[t].state \in {"torn", receipt[t].state}
      BY <2>1, <2>3, <1>0, ReceiptWritten
    <3> QED
      BY <2>1, <3>1 DEF Records
  <2> QED
    BY <2>2, <2>3, <1>5 DEF Stop
<1>6. ASSUME NEW h \in Helpers, NEW u \in Txns, NEW r \in Releases, Start(h, u, r)
      PROVE  FALSE
  BY <1>6, <1>0 DEF Start, Records, TypeOK
<1>7. ASSUME NEW h \in Helpers, CreateEvidence(h)
      PROVE  FALSE
  BY <1>7, <1>0 DEF CreateEvidence, Records, TypeOK
<1>8. ~UNCHANGED <<receipt, rollback>>
  BY DEF Records
<1>9. ASSUME NEW h \in Helpers, Activate(h)
      PROVE  (\E u \in Txns, r \in Releases : Start(h, u, r)) \/ RecordActive(h) \/ RecordRolledBack(h)
  BY <1>8, <1>9 DEF Activate, ExtractServer, StageFrontend, SwitchApi, SwitchWeb, Restart, Accept,
     ActivationFails, UndoApi, UndoWeb, UndoRestart, UndoVerify
<1>10. ASSUME NEW h \in Helpers, PostActivationRollback(h)
       PROVE  CreateEvidence(h) \/ WriteEvidence(h)
  BY <1>8, <1>10 DEF PostActivationRollback, StartRollback, BackApi, BackWeb, BackRestart, BackVerify
<1>11. ~UNCHANGED vars
  BY <1>8 DEF vars
<1> QED
  BY <1>1, <1>2, <1>3, <1>4, <1>5, <1>6, <1>7, <1>9, <1>10, <1>11 DEF Next

\* A transaction is recorded as rolled back only when both links name what
\* they named before it.
THEOREM RecordedMeansRestored == Spec => RolledBackIsRestored
<1> DEFINE Act == \A t \in Txns : Records(t) =>
            \/ api = receipt[t].oldApi /\ web = receipt[t].oldWeb
            \/ overlapped
<1>1. IInv /\ [Next]_vars => Act
  BY RecordsAfterRestoring
<1>2. RolledBackIsRestored <=> [][Act]_vars
  BY DEF RolledBackIsRestored
<1> HIDE DEF Act
<1> QED
  BY <1>1, <1>2, PairInvariance, PTL DEF Spec
=============================================================================
