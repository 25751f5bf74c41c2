--------------------------- MODULE Compatibility ---------------------------
(***************************************************************************)
(* The compatibility tables of the EOAT Atlas API and what is decided on   *)
(* them: the fit check that may block an installation, the alternatives    *)
(* and options offered to a user, and the verdict of the desktop, which    *)
(* sees the same rows through the relationships of a snapshot.             *)
(*                                                                         *)
(* A row says of a pair (tool and machine, EOAT and machine, EOAT and      *)
(* tool) what holds between two days.  Rows are created, patched and       *)
(* archived while installations judge them; only a create reads before it  *)
(* writes, and it reads, as the fit check does, without a lock, from the   *)
(* snapshot its transaction took when the actor was looked up.             *)
(***************************************************************************)
EXTENDS Integers, FiniteSets, Sequences

CONSTANTS
    Tools, Machines, Eoats,
    Requests,    \* the requests that read before they write, each sent once
    Verdicts,    \* the classes of status codes a row may carry
    MaxDay,      \* bound: last day of the calendar
    MaxChanges   \* bound: rows and tools changed after the import

Days == 0 .. MaxDay
Forever == MaxDay + 1  \* effective_to IS NULL
Ends == Days \cup {Forever}
Pairs == {{t, m} : t \in Tools, m \in Machines}
           \cup {{e, m} : e \in Eoats, m \in Machines}
           \cup {{e, t} : e \in Eoats, t \in Tools}
Setups == {{t, m, e} : t \in Tools, m \in Machines, e \in Eoats}
KindOf(x) == CHOOSE kind \in {Tools, Machines, Eoats} : x \in kind
Rows == [pair: Pairs, from: Days, to: Ends, verdict: Verdicts, active: BOOLEAN]

ASSUME KindsDistinct ==
    /\ Tools \cap Machines = {} /\ Tools \cap Eoats = {} /\ Machines \cap Eoats = {}
ASSUME VerdictsAssumption ==
    "COMPATIBLE" \in Verdicts /\ Verdicts \subseteq {"COMPATIBLE", "INCOMPATIBLE", "NEEDS_REVIEW"}
ASSUME BoundsAssumption == MaxDay \in Nat /\ MaxChanges \in Nat

VARIABLES
    rows,        \* the committed rows of the three tables
    archived,    \* the archived tools
    day,         \* today
    phase,       \* how far a request has come
    asks,        \* the assets it names: a pair to create, a setup to install
    snap,        \* the rows and archived tools in its snapshot
    seen,        \* the results of the pairs it has judged, in order
    outcome,     \* what its client is told
    overlapped,  \* history: pairs created while an active row was not in the snapshot
    held,        \* history: the setup fitted at some instant since the request began
    changes      \* bound counter

vars == <<rows, archived, day, phase, asks, snap, seen, outcome,
          overlapped, held, changes>>
request == <<phase, asks, snap, seen, outcome>>
NoSnapshot == [rows |-> {}, archived |-> {}]

\* The import gives every associated pair one compatible row without an end.
Init ==
    /\ \E known \in SUBSET Pairs :
         rows = {[pair |-> p, from |-> 0, to |-> Forever,
                  verdict |-> "COMPATIBLE", active |-> TRUE] : p \in known}
    /\ archived = {}
    /\ day = 0
    /\ phase = [r \in Requests |-> "idle"]
    /\ asks = [r \in Requests |-> {}]
    /\ snap = [r \in Requests |-> NoSnapshot]
    /\ seen = [r \in Requests |-> <<>>]
    /\ outcome = [r \in Requests |-> "none"]
    /\ overlapped = {}
    /\ held = [r \in Requests |-> FALSE]
    /\ changes = 0

-----------------------------------------------------------------------------
(* The server's fit check, on rows R on day d.                             *)

ActiveRows(R, p) == {x \in R : x.pair = p /\ x.active}

InForce(R, p, d) == {x \in ActiveRows(R, p) : x.from <= d /\ d <= x.to}

\* The row that took effect last decides.
PairResult(R, p, d) ==
    LET found == InForce(R, p, d)
    IN  IF found = {} THEN "UNKNOWN"
        ELSE (CHOOSE x \in found : \A y \in found : y.from <= x.from).verdict

PairsOf(s) == {p \in SUBSET s : Cardinality(p) = 2}

Overall(results) ==
    IF "INCOMPATIBLE" \in results THEN "INCOMPATIBLE"
    ELSE IF results = {"COMPATIBLE"} THEN "COMPATIBLE"
    ELSE "NEEDS_REVIEW"

FitCheck(R, gone, s, d) ==
    IF s \cap gone # {} THEN "INVALID_INPUT"
    ELSE Overall({PairResult(R, p, d) : p \in PairsOf(s)})

-----------------------------------------------------------------------------
(* What the server offers: any row in force that is compatible will do.    *)

\* Mutant of Offering: an ended relationship is still offered.
OfferingWithoutEnd(R, p, d) ==
    \E x \in ActiveRows(R, p) : x.from <= d /\ x.verdict = "COMPATIBLE"

Offering(R, p, d) == \E x \in InForce(R, p, d) : x.verdict = "COMPATIBLE"

Alternatives(R, gone, m, t, d) ==
    {e \in Eoats : /\ t \notin gone
                   /\ PairResult(R, {t, m}, d) = "COMPATIBLE"
                   /\ Offering(R, {e, m}, d)
                   /\ Offering(R, {e, t}, d)}

\* Options among candidates once a set of assets is chosen: a chosen asset
\* that is not available does not narrow them.
Options(R, gone, candidates, chosen, d) ==
    {c \in candidates \ gone : \A x \in chosen \ gone : Offering(R, {c, x}, d)}

\* Every choice is an option after the ones before it, in any order.
Guided(R, gone, s, d) ==
    \A x \in s : \A chosen \in SUBSET (s \ {x}) : x \in Options(R, gone, KindOf(x), chosen, d)

-----------------------------------------------------------------------------
(* The desktop: a relationship of a snapshot is an active row, whatever    *)
(* its status and its days.                                                *)

\* Mutant of Related: only relationships without an end are handed out.
RelatedOpenEnded(R, x, y) == \E row \in ActiveRows(R, {x, y}) : row.to = Forever

Related(R, x, y) == ActiveRows(R, {x, y}) # {}

\* Nothing is known of a pair when neither asset is related to the other's kind.
PairStatus(R, p) ==
    IF \A x, y \in p : x # y => Related(R, x, y) THEN "pass"
    ELSE IF \A x, y \in p : x # y => \A z \in KindOf(y) : ~Related(R, x, z) THEN "unknown"
    ELSE "fail"

DesktopSetup(R, s) ==
    LET statuses == {PairStatus(R, p) : p \in PairsOf(s)}
    IN  IF "fail" \in statuses THEN "fail"
        ELSE IF "unknown" \in statuses THEN "unknown"
        ELSE "pass"

-----------------------------------------------------------------------------
(* Requests.                                                               *)

Creating(r) == phase[r] = "creating"
Judging(r) == phase[r] = "judging"
InFlight(r) == Creating(r) \/ Judging(r)

\* The tables change: what an installation under way names may fit now.
Becomes(R, gone) ==
    /\ rows' = R
    /\ archived' = gone
    /\ held' = [r \in Requests |->
                  held[r] \/ (Judging(r) /\ FitCheck(R, gone, asks[r], day) = "COMPATIBLE")]

Unchanged == UNCHANGED <<rows, archived, held>>

\* The answer ends the transaction; its snapshot goes with it.
Answer(r, text) ==
    /\ phase' = [phase EXCEPT ![r] = "done"]
    /\ asks' = [asks EXCEPT ![r] = {}]
    /\ snap' = [snap EXCEPT ![r] = NoSnapshot]
    /\ seen' = [seen EXCEPT ![r] = <<>>]
    /\ outcome' = [outcome EXCEPT ![r] = text]

\* actor_context reads the user: the transaction's snapshot is taken.
Begin(r, kind, what) ==
    /\ phase[r] = "idle"
    /\ phase' = [phase EXCEPT ![r] = kind]
    /\ asks' = [asks EXCEPT ![r] = what]
    /\ snap' = [snap EXCEPT ![r] = [rows |-> rows, archived |-> archived]]
    /\ UNCHANGED <<rows, archived, day, seen, outcome, overlapped, changes>>

BeginCreate(r) ==
    \E p \in Pairs : Begin(r, "creating", p) /\ UNCHANGED held

BeginInstall(r) ==
    \E s \in Setups :
        /\ Begin(r, "judging", s)
        /\ held' = [held EXCEPT ![r] = FitCheck(rows, archived, s, day) = "COMPATIBLE"]

\* DUPLICATE_ACTIVE_RELATIONSHIP: the check before the insert.
Duplicate(r) == ActiveRows(snap[r].rows, asks[r]) # {}

\* The unique key of the tables.
KeyTaken(R, p, from) == \E x \in R : x.pair = p /\ x.from = from

RefuseCreate(r) ==
    /\ Creating(r)
    /\ \/ Duplicate(r)
       \/ \E from \in Days : KeyTaken(rows, asks[r], from)  \* integrity_conflict
    /\ Answer(r, "refused")
    /\ Unchanged
    /\ UNCHANGED <<day, overlapped, changes>>

Create(r) ==
    /\ Creating(r)
    /\ ~Duplicate(r)
    /\ changes < MaxChanges
    /\ \E from \in Days, to \in Ends, v \in Verdicts :
         /\ from <= to
         /\ ~KeyTaken(rows, asks[r], from)
         /\ Becomes(rows \cup {[pair |-> asks[r], from |-> from, to |-> to,
                                verdict |-> v, active |-> TRUE]}, archived)
    /\ overlapped' = IF ActiveRows(rows, asks[r]) = {} THEN overlapped
                     ELSE overlapped \cup {p \in {asks[r]} : ActiveRows(snap[r].rows, p) = {}}
    /\ Answer(r, "created")
    /\ changes' = changes + 1
    /\ UNCHANGED day

\* PATCH locks the row and reads it as committed, an archived row included.
Update ==
    /\ changes < MaxChanges
    /\ \E x \in rows, from \in Days, to \in Ends, v \in Verdicts :
         /\ from <= to
         /\ from = x.from \/ ~KeyTaken(rows, x.pair, from)
         /\ Becomes((rows \ {x}) \cup {[x EXCEPT !.from = from, !.to = to, !.verdict = v]},
                    archived)
    /\ changes' = changes + 1
    /\ UNCHANGED <<day, request, overlapped>>

ArchiveRow ==
    /\ changes < MaxChanges
    /\ \E x \in rows :
         /\ x.active
         /\ Becomes((rows \ {x}) \cup {[x EXCEPT !.active = FALSE]}, archived)
    /\ changes' = changes + 1
    /\ UNCHANGED <<day, request, overlapped>>

\* set_asset_archived: nothing keeps a tool that is installed.
ArchiveTool ==
    /\ changes < MaxChanges
    /\ \E t \in Tools \ archived : Becomes(rows, archived \cup {t})
    /\ changes' = changes + 1
    /\ UNCHANGED <<day, request, overlapped>>

RestoreTool ==
    /\ changes < MaxChanges
    /\ \E t \in archived : Becomes(rows, archived \ {t})
    /\ changes' = changes + 1
    /\ UNCHANGED <<day, request, overlapped>>

\* A request lasts no longer than the grain of the effective dates.
Tick ==
    /\ day < MaxDay
    /\ \A r \in Requests : ~InFlight(r)
    /\ day' = day + 1
    /\ UNCHANGED <<rows, archived, request, overlapped, held, changes>>

-----------------------------------------------------------------------------
(* move_to_machine: the fit check reads table after table.                 *)

\* Mutant of View: every statement reads what is committed by then.
ViewCommitted(r) == [rows |-> rows, archived |-> archived]

View(r) == snap[r]

\* ARCHIVED_TOOL: the tool is looked up before the fit check.
RefuseTool(r) ==
    /\ Judging(r)
    /\ seen[r] = <<>>
    /\ asks[r] \cap View(r).archived # {}
    /\ Answer(r, "refused")
    /\ Unchanged
    /\ UNCHANGED <<day, overlapped, changes>>

\* machine_tool, machine_eoat, tool_eoat.
Judged(s) == <<s \ Eoats, s \ Tools, s \ Machines>>

ReadPair(r) ==
    /\ Judging(r)
    /\ Len(seen[r]) < 3
    /\ seen[r] = <<>> => asks[r] \cap View(r).archived = {}
    /\ LET p == Judged(asks[r])[Len(seen[r]) + 1]
       IN  seen' = [seen EXCEPT ![r] = Append(@, PairResult(View(r).rows, p, day))]
    /\ Unchanged
    /\ UNCHANGED <<day, phase, asks, snap, outcome, overlapped, changes>>

\* INSTALLATION_COMPATIBILITY_BLOCKED, unless the actor may override and says why.
Decide(r) ==
    /\ Judging(r)
    /\ Len(seen[r]) = 3
    /\ LET verdict == Overall({seen[r][i] : i \in 1 .. 3})
       IN  \E answer \in IF verdict = "COMPATIBLE" THEN {"installed"} ELSE {"refused", "overridden"} :
               Answer(r, answer)
    /\ Unchanged
    /\ UNCHANGED <<day, overlapped, changes>>

WriteRows ==
    \/ \E r \in Requests : BeginCreate(r) \/ RefuseCreate(r) \/ Create(r)
    \/ Update
    \/ ArchiveRow
    \/ ArchiveTool
    \/ RestoreTool

Install == \E r \in Requests : BeginInstall(r) \/ RefuseTool(r) \/ ReadPair(r) \/ Decide(r)

Next == WriteRows \/ Install \/ Tick

Spec == Init /\ [][Next]_vars

-----------------------------------------------------------------------------
(* Properties.                                                             *)

\* What is offered is what the fit check accepts: an EOAT among the
\* alternatives, or a setup chosen option by option, is COMPATIBLE, and a
\* COMPATIBLE setup is offered both ways.  Only a pair with two active rows,
\* created by requests that overlapped, may be offered on an older row.
OfferedFits ==
    \A m \in Machines, t \in Tools, e \in Eoats :
        LET s == {m, t, e}
            verdict == FitCheck(rows, archived, s, day)
            listed == e \in Alternatives(rows, archived, m, t, day)
            chosen == Guided(rows, archived, s, day)
        IN  /\ verdict = "COMPATIBLE" => listed /\ chosen
            /\ (listed \/ chosen) /\ PairsOf(s) \cap overlapped = {} => verdict = "COMPATIBLE"

\* An installation that nobody overrode fitted, by all three tables and the
\* tool's state at once, at some instant while its request ran, although the
\* fit check reads the tables one by one and locks none of them.
InstalledWhileFitting ==
    \A r \in Requests : outcome[r] = "installed" => held[r]

\* The desktop never refuses, or leaves open, a setup that the server's fit
\* check accepts on the same rows.
DesktopFollows ==
    \A s \in Setups :
        FitCheck(rows, archived, s, day) = "COMPATIBLE" => DesktopSetup(rows, s) = "pass"
=============================================================================
