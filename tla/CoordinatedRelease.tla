-------------------------- MODULE CoordinatedRelease --------------------------
(***************************************************************************)
(* The coordinated activation of one API and web release pair and its later  *)
(* rollback (deployment/privileged/coordinated_release_retry.py).  Each run  *)
(* of the root helper switches two links, restarts the service and checks    *)
(* the outcome; a receipt tells whether a transaction started, became active *)
(* or was rolled back.  No lock keeps two runs apart.                        *)
(*                                                                           *)
(* Simplified: the sealed artifacts, the policy and the attestations of the  *)
(* old releases hold; nginx serves what the web link names; the acceptance   *)
(* sees another release in either place (its version, its asset names).      *)
(***************************************************************************)
EXTENDS Naturals, FiniteSets

CONSTANTS
    Helpers,      \* runs of the helper that may overlap
    Releases,     \* release identifiers, each for both parts
    First,        \* the release pair that is active at the beginning
    MaxTxns,      \* bound: transactions
    None

ASSUME FirstAssumption == First \in Releases
ASSUME NullAssumption == None \notin Releases
ASSUME BoundsAssumption == MaxTxns \in Nat

Txns == 1 .. MaxTxns

VARIABLES
    api,         \* API_CURRENT
    web,         \* WEB_CURRENT
    served,      \* the release the API process runs, None when it is down
    apiDirs,     \* API releases on disk
    webDirs,     \* web releases on disk
    receipt,     \* each transaction's receipt.json
    rollback,    \* each transaction's post-activation-rollback.json
    run,         \* each helper's call
    overlapped   \* history: a call began while another one ran

links == <<api, web>>
dirs == <<apiDirs, webDirs>>
vars == <<links, served, dirs, receipt, rollback, run, overlapped>>

Receipts == [state: {"absent", "started", "active", "rolled_back", "torn"},
             release: Releases \cup {None},
             oldApi: Releases \cup {None}, oldWeb: Releases \cup {None}]

NoReceipt == [state |-> "absent", release |-> None, oldApi |-> None, oldWeb |-> None]
Idle == [pc |-> "idle", txn |-> 0]

TypeOK ==
    /\ api \in Releases
    /\ web \in Releases
    /\ served \in Releases \cup {None}
    /\ apiDirs \subseteq Releases
    /\ webDirs \subseteq Releases
    /\ receipt \in [Txns -> Receipts]
    /\ rollback \in [Txns -> {"none", "empty", "rolled_back"}]
    /\ run \in [Helpers ->
            [pc: {"idle", "started", "extracted", "staged", "api", "web", "restarted", "accepted",
                  "undo", "undo api", "undo web", "undone", "restored",
                  "back", "back api", "back web", "backed", "verified", "created"},
             txn: 0 .. MaxTxns]]
    /\ overlapped \in BOOLEAN

Init ==
    /\ api = First
    /\ web = First
    /\ served = First
    /\ apiDirs = {First}
    /\ webDirs = {First}
    /\ receipt = [t \in Txns |-> NoReceipt]
    /\ rollback = [t \in Txns |-> "none"]
    /\ run = [h \in Helpers |-> Idle]
    /\ overlapped = FALSE

Of(h) == receipt[run[h].txn]

Begins(h, pc, t) ==
    /\ run[h].pc = "idle"
    /\ run' = [run EXCEPT ![h] = [pc |-> pc, txn |-> t]]
    /\ overlapped' = (overlapped \/ \E g \in Helpers : run[g].pc # "idle")

Goes(h, from, to) ==
    /\ run[h].pc = from
    /\ run' = [run EXCEPT ![h].pc = to]
    /\ UNCHANGED overlapped

Ends(h, from) ==
    /\ run[h].pc \in from
    /\ run' = [run EXCEPT ![h] = Idle]
    /\ UNCHANGED overlapped

(* systemctl restart: the process of the linked release, or none.            *)
Restarted == served' \in {api, None}

(***************************************************************************)
(* activate.                                                                *)
(***************************************************************************)
(* preflight finds a healthy API; the receipt keeps what the links name.     *)
Start(h, t, r) ==
    /\ receipt[t].state = "absent"
    /\ \A u \in Txns : u < t => receipt[u].state # "absent"
    /\ Begins(h, "started", t)
    /\ served # None
    /\ receipt' = [receipt EXCEPT ![t] =
            [state |-> "started", release |-> r, oldApi |-> api, oldWeb |-> web]]
    /\ UNCHANGED <<links, served, dirs, rollback>>

(* A release that is on disk already is not overwritten.                     *)
ExtractServer(h) ==
    LET r == Of(h).release
    IN  /\ Goes(h, "started", "extracted")
        /\ r \notin apiDirs
        /\ apiDirs' = apiDirs \cup {r}
        /\ UNCHANGED <<links, served, webDirs, receipt, rollback>>

StageFrontend(h) ==
    LET r == Of(h).release
    IN  /\ Goes(h, "extracted", "staged")
        /\ r \notin webDirs
        /\ webDirs' = webDirs \cup {r}
        /\ UNCHANGED <<links, served, apiDirs, receipt, rollback>>

SwitchApi(h) ==
    /\ Goes(h, "staged", "api")
    /\ api' = Of(h).release
    /\ UNCHANGED <<web, served, dirs, receipt, rollback>>

SwitchWeb(h) ==
    /\ Goes(h, "api", "web")
    /\ web' = Of(h).release
    /\ UNCHANGED <<api, served, dirs, receipt, rollback>>

Restart(h) ==
    /\ Goes(h, "web", "restarted")
    /\ Restarted
    /\ UNCHANGED <<links, dirs, receipt, rollback>>

\* Mutant of Accept: only the link is looked at.
AcceptLink(h) ==
    /\ Goes(h, "restarted", "accepted")
    /\ api = Of(h).release
    /\ UNCHANGED <<links, served, dirs, receipt, rollback>>

\* wait_api, wait_target, acceptance
Accept(h) ==
    LET r == Of(h).release
    IN  /\ Goes(h, "restarted", "accepted")
        /\ served = r /\ api = r /\ web = r
        /\ UNCHANGED <<links, served, dirs, receipt, rollback>>

RecordActive(h) ==
    /\ Ends(h, {"accepted"})
    /\ receipt' = [receipt EXCEPT ![run[h].txn].state = "active"]
    /\ UNCHANGED <<links, served, dirs, rollback>>

(* An exception in any of these steps starts the way back.                   *)
ActivationFails(h) ==
    /\ \E pc \in {"started", "extracted", "staged", "api", "web", "restarted", "accepted"} :
            Goes(h, pc, "undo")
    /\ UNCHANGED <<links, served, dirs, receipt, rollback>>

UndoApi(h) ==
    /\ Goes(h, "undo", "undo api")
    /\ api' = Of(h).oldApi
    /\ UNCHANGED <<web, served, dirs, receipt, rollback>>

UndoWeb(h) ==
    /\ Goes(h, "undo api", "undo web")
    /\ web' = Of(h).oldWeb
    /\ UNCHANGED <<api, served, dirs, receipt, rollback>>

UndoRestart(h) ==
    /\ Goes(h, "undo web", "undone")
    /\ Restarted
    /\ UNCHANGED <<links, dirs, receipt, rollback>>

(* The health check does not ask which release answers.                      *)
UndoVerify(h) ==
    /\ Goes(h, "undone", "restored")
    /\ served # None
    /\ api = Of(h).oldApi /\ web = Of(h).oldWeb
    /\ UNCHANGED <<links, served, dirs, receipt, rollback>>

\* Mutant of RecordRolledBack: the record is written before the web link is back.
RecordRolledBackEarly(h) ==
    /\ Ends(h, {"undo api", "restored"})
    /\ receipt' = [receipt EXCEPT ![run[h].txn].state = "rolled_back"]
    /\ UNCHANGED <<links, served, dirs, rollback>>

RecordRolledBack(h) ==
    /\ Ends(h, {"restored"})
    /\ receipt' = [receipt EXCEPT ![run[h].txn].state = "rolled_back"]
    /\ UNCHANGED <<links, served, dirs, rollback>>

(***************************************************************************)
(* post_activation_rollback.                                                *)
(***************************************************************************)
(* Only an active receipt is accepted, and a transaction whose rollback is   *)
(* on record changes nothing.  Whether the transaction's own release is      *)
(* still the active one is not asked.                                        *)
StartRollback(h, t) ==
    /\ receipt[t].state = "active"
    /\ rollback[t] = "none"
    /\ Begins(h, "back", t)
    /\ UNCHANGED <<links, served, dirs, receipt, rollback>>

BackApi(h) ==
    /\ Goes(h, "back", "back api")
    /\ api' = Of(h).oldApi
    /\ UNCHANGED <<web, served, dirs, receipt, rollback>>

BackWeb(h) ==
    /\ Goes(h, "back api", "back web")
    /\ web' = Of(h).oldWeb
    /\ UNCHANGED <<api, served, dirs, receipt, rollback>>

BackRestart(h) ==
    /\ Goes(h, "back web", "backed")
    /\ Restarted
    /\ UNCHANGED <<links, dirs, receipt, rollback>>

BackVerify(h) ==
    /\ Goes(h, "backed", "verified")
    /\ served # None
    /\ api = Of(h).oldApi /\ web = Of(h).oldWeb
    /\ UNCHANGED <<links, served, dirs, receipt, rollback>>

(* O_EXCL: if another rollback of the transaction made the file, the call    *)
(* starts again, and ends as idempotent or with a malformed receipt.         *)
CreateEvidence(h) ==
    /\ run[h].pc = "verified"
    /\ IF rollback[run[h].txn] = "none"
       THEN /\ Goes(h, "verified", "created")
            /\ rollback' = [rollback EXCEPT ![run[h].txn] = "empty"]
       ELSE /\ Ends(h, {"verified"})
            /\ UNCHANGED rollback
    /\ UNCHANGED <<links, served, dirs, receipt>>

WriteEvidence(h) ==
    /\ Ends(h, {"created"})
    /\ rollback' = [rollback EXCEPT ![run[h].txn] = "rolled_back"]
    /\ UNCHANGED <<links, served, dirs, receipt>>

(***************************************************************************)
(* The helper ends early: killed at any step, or by an exception on the way  *)
(* back.  A receipt that was being written again may be left torn.           *)
(***************************************************************************)
Stop(h) ==
    /\ Ends(h, {run[h].pc} \ {"idle"})
    /\ \/ UNCHANGED receipt
       \/ /\ run[h].pc \in {"accepted", "restored"}
          /\ receipt' = [receipt EXCEPT ![run[h].txn].state = "torn"]
    /\ UNCHANGED <<links, served, dirs, rollback>>

Activate(h) ==
    \/ \E t \in Txns, r \in Releases : Start(h, t, r)
    \/ ExtractServer(h)
    \/ StageFrontend(h)
    \/ SwitchApi(h)
    \/ SwitchWeb(h)
    \/ Restart(h)
    \/ Accept(h)
    \/ RecordActive(h)
    \/ ActivationFails(h)
    \/ UndoApi(h)
    \/ UndoWeb(h)
    \/ UndoRestart(h)
    \/ UndoVerify(h)
    \/ RecordRolledBack(h)

PostActivationRollback(h) ==
    \/ \E t \in Txns : StartRollback(h, t)
    \/ BackApi(h)
    \/ BackWeb(h)
    \/ BackRestart(h)
    \/ BackVerify(h)
    \/ CreateEvidence(h)
    \/ WriteEvidence(h)

Next == \E h \in Helpers : Activate(h) \/ PostActivationRollback(h) \/ Stop(h)

Spec == Init /\ [][Next]_vars

(***************************************************************************)
(* Properties                                                               *)
(***************************************************************************)
(* A transaction that was cut short can be told from the receipts: it still  *)
(* is started, or torn, or its rollback has begun and is not recorded.       *)
CutShort(t) ==
    \/ receipt[t].state \in {"started", "torn"}
    \/ receipt[t].state = "active" /\ rollback[t] = "none" /\ api = receipt[t].oldApi

(* When no helper runs and none was cut short, both links name one release   *)
(* and the process that answers is of that release.  Overlapping helpers are *)
(* excluded, since nothing keeps them apart, and so is a transaction that    *)
(* began from a mixed pair, which preflight accepts.                         *)
SettledIsConsistent ==
    \/ \E h \in Helpers : run[h].pc # "idle"
    \/ \E t \in Txns : CutShort(t) \/ receipt[t].oldApi # receipt[t].oldWeb
    \/ overlapped
    \/ api = web /\ served = api

(* A transaction is recorded as rolled back only when both links name what   *)
(* they named before it, whichever of the two ways back it took.             *)
Records(t) ==
    \/ receipt'[t].state = "rolled_back" /\ receipt[t].state # "rolled_back"
    \/ rollback'[t] = "rolled_back" /\ rollback[t] # "rolled_back"

RolledBackIsRestored ==
    [][\A t \in Txns : Records(t) =>
            \/ api = receipt[t].oldApi /\ web = receipt[t].oldWeb
            \/ overlapped]_vars
=============================================================================
