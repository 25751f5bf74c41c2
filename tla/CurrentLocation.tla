-------------------------- MODULE CurrentLocation --------------------------
(***************************************************************************)
(* Where the EOAT Atlas API says an EOAT is.                               *)
(*                                                                         *)
(* Two kinds of evidence are kept apart: the lifecycle rows that the       *)
(* placement routes open and close, each dated by its request (now, or a   *)
(* time the client gives), and the observations imported from the audit    *)
(* workbook, which carry a day and no time.  resolve_eoat_locations        *)
(* decides between the open lifecycle row and the audit of an EOAT, and    *)
(* the list of machines turns the answers around: the EOATs on a machine.  *)
(* Concurrent requests and row locks are in AtlasWrites; here a request    *)
(* is one step, and time is the subject.                                   *)
(***************************************************************************)
EXTENDS Integers, EoatsAndMachines

CONSTANTS
    Number,     \* the number of a machine: plants number their own, so two may share one
    MaxDay,     \* bound: last day of the calendar
    MaxWrites,  \* bound: placement writes accepted, and EOATs archived or restored
    MaxAudits   \* bound: audits entered in the workbook

ASSUME BoundsAssumption == MaxDay \in Nat /\ MaxWrites \in Nat /\ MaxAudits \in Nat

\* Two instants a day, so that two events of a day have an order.
Instants == 0 .. 2 * MaxDay + 1
DayOf(i) == i \div 2
Days == 0 .. MaxDay

NoRow == [open |-> FALSE]
Nowhere == [state |-> "UNKNOWN"]
\* A place names a machine by its number: the resolver reads nothing else of it.
Places ==
    {[state |-> "INSTALLED", number |-> Number[m]] : m \in Machines} \cup {[state |-> "STORED"]}
\* What an audit may come to: a place, or none (UNKNOWN, INACTIVE, CONFLICTING).
Observable == Places \cup {Nowhere}
NoAudit == [audited |-> FALSE]
Audits == [place: Observable, day: Days]
NoMove == [place |-> Nowhere, at |-> 0]

VARIABLES
    now,        \* the server's clock
    installed,  \* the open installation of an EOAT: machine and installed_at
    stored,     \* the open storage assignment of an EOAT: stored_at
    archived,   \* the archived EOATs
    sheet,      \* the latest audit of an EOAT in the workbook
    observed,   \* the observation of an EOAT in the database
    last,       \* history: the place the last accepted placement write gave it, and its date
    writes, audits  \* bound counters

locationVars == <<now, installed, stored, archived, sheet, observed, last, writes, audits>>
evidence == <<installed, stored, observed>>

LocationInit ==
    /\ now = 0
    /\ installed = [e \in Eoats |-> NoRow]
    /\ stored = [e \in Eoats |-> NoRow]
    /\ archived = {}
    /\ sheet = [e \in Eoats |-> NoAudit]
    /\ observed = [e \in Eoats |-> NoAudit]
    /\ last = [e \in Eoats |-> NoMove]
    /\ writes = 0
    /\ audits = 0

-----------------------------------------------------------------------------
(* resolve_eoat_locations.                                                 *)

Open(row) == row # NoRow

\* The open lifecycle row, and the place it gives.
EventPlace(e) ==
    IF Open(installed[e]) THEN [state |-> "INSTALLED", number |-> Number[installed[e].machine]]
    ELSE [state |-> "STORED"]
EventTime(e) == IF Open(installed[e]) THEN installed[e].at ELSE stored[e].at
HasEvent(e) == Open(installed[e]) \/ Open(stored[e])
HasAudit(e) == observed[e] # NoAudit

Conflict == [state |-> "CONFLICTING"]

Resolve(e) ==
    IF Open(installed[e]) /\ Open(stored[e])
      THEN [source |-> "LIFECYCLE_EVENT", place |-> Conflict]
    ELSE IF HasEvent(e) /\ HasAudit(e) /\ DayOf(EventTime(e)) = observed[e].day
      THEN [source |-> "RESOLVER", place |-> Conflict]
    ELSE IF HasAudit(e) /\ (HasEvent(e) => DayOf(EventTime(e)) < observed[e].day)
      THEN [source |-> "OBSERVATION", place |-> observed[e].place]
    ELSE IF HasEvent(e) THEN [source |-> "LIFECYCLE_EVENT", place |-> EventPlace(e)]
    ELSE [source |-> "NONE", place |-> Nowhere]

\* list_machines: current_eoat names every active EOAT resolved to the machine's
\* number, whichever plant that machine is in.
CurrentEoats(m) ==
    {e \in Eoats \ archived : Resolve(e).place = [state |-> "INSTALLED", number |-> Number[m]]}

-----------------------------------------------------------------------------
(* Placement writes.                                                       *)

\* The CHECK constraints: a row is not closed before it began.
Closable(e, when) ==
    /\ Open(installed[e]) => installed[e].at <= when
    /\ Open(stored[e]) => stored[e].at <= when

\* Mutant of Occupied: the key covers an EOAT's own row only.
OccupiedByItself(e, m) == Open(installed[e]) /\ installed[e].machine = m

\* active_machine_marker, among the other EOATs: their rows stay open.
Occupied(e, m) == \E f \in Eoats \ {e} : Open(installed[f]) /\ installed[f].machine = m

Written(e, place, when) ==
    /\ writes < MaxWrites
    /\ writes' = writes + 1
    /\ last' = [last EXCEPT ![e] = [place |-> place, at |-> when]]
    /\ UNCHANGED <<now, archived, sheet, observed, audits>>

\* installed_at is the client's, or now.
MoveToMachine(e, m, when) ==
    /\ e \notin archived
    /\ Closable(e, when)
    /\ ~Occupied(e, m)
    /\ installed' = [installed EXCEPT ![e] = [open |-> TRUE, machine |-> m, at |-> when]]
    /\ stored' = [stored EXCEPT ![e] = NoRow]
    /\ Written(e, [state |-> "INSTALLED", number |-> Number[m]], when)

\* Mutant of MoveToStorage: the installation stays open.
MoveToStorageOnly(e, when) ==
    /\ Closable(e, when)
    /\ stored' = [stored EXCEPT ![e] = [open |-> TRUE, at |-> when]]
    /\ UNCHANGED installed
    /\ Written(e, [state |-> "STORED"], when)

\* An archived EOAT may be stored.
MoveToStorage(e, when) ==
    /\ Closable(e, when)
    /\ installed' = [installed EXCEPT ![e] = NoRow]
    /\ stored' = [stored EXCEPT ![e] = [open |-> TRUE, at |-> when]]
    /\ Written(e, [state |-> "STORED"], when)

\* INVALID_REMOVAL_TIME guards the date; a closed row is answered again.
CloseInstallation(e, when) ==
    /\ Open(installed[e])
    /\ installed[e].at <= when
    /\ installed' = [installed EXCEPT ![e] = NoRow]
    /\ UNCHANGED stored
    /\ Written(e, Nowhere, when)

MarkLocationUnknown(e) ==
    /\ Closable(e, now)
    /\ installed' = [installed EXCEPT ![e] = NoRow]
    /\ stored' = [stored EXCEPT ![e] = NoRow]
    /\ Written(e, Nowhere, now)

SetArchived(e) ==
    /\ writes < MaxWrites
    /\ writes' = writes + 1
    /\ \/ e \notin archived /\ ~Open(installed[e]) /\ archived' = archived \cup {e}
       \/ e \in archived /\ archived' = archived \ {e}
    /\ UNCHANGED <<now, evidence, sheet, last, audits>>

-----------------------------------------------------------------------------
(* Audits.                                                                 *)

\* An auditor writes into the workbook what was found today.
Audit(e) ==
    /\ audits < MaxAudits
    /\ audits' = audits + 1
    /\ \E found \in Observable :
         sheet' = [sheet EXCEPT ![e] = [place |-> found, day |-> DayOf(now)]]
    /\ UNCHANGED <<now, evidence, archived, last, writes>>

\* One observation for every audited EOAT, of its latest audit's day; an EOAT
\* archived by then is INACTIVE whatever was found.
Import ==
    /\ observed' = [e \in Eoats |->
                      IF e \in archived /\ sheet[e] # NoAudit
                      THEN [place |-> Nowhere, day |-> sheet[e].day] ELSE sheet[e]]
    /\ UNCHANGED <<now, installed, stored, archived, sheet, last, writes, audits>>

Tick ==
    /\ now + 1 \in Instants
    /\ now' = now + 1
    /\ UNCHANGED <<evidence, archived, sheet, last, writes, audits>>

Place ==
    \E e \in Eoats :
        \/ \E when \in Instants :
             \/ \E m \in Machines : MoveToMachine(e, m, when)
             \/ MoveToStorage(e, when)
             \/ CloseInstallation(e, when)
        \/ MarkLocationUnknown(e)
        \/ SetArchived(e)

LocationNext == Place \/ (\E e \in Eoats : Audit(e)) \/ Import \/ Tick

LocationSpec == LocationInit /\ [][LocationNext]_locationVars

-----------------------------------------------------------------------------
(* Properties.                                                             *)

\* The variables keep their types, and an EOAT is not installed and stored.
LocationTypeOK ==
    /\ now \in Instants
    /\ installed \in [Eoats -> {NoRow} \cup [open: {TRUE}, machine: Machines, at: Instants]]
    /\ stored \in [Eoats -> {NoRow} \cup [open: {TRUE}, at: Instants]]
    /\ archived \subseteq Eoats
    /\ sheet \in [Eoats -> {NoAudit} \cup Audits]
    /\ observed \in [Eoats -> {NoAudit} \cup Audits]
    /\ last \in [Eoats -> [place: Places \cup {Nowhere}, at: Instants]]
    /\ writes \in 0 .. MaxWrites
    /\ audits \in 0 .. MaxAudits

\* The place (storage, or the number of a machine) that the last placement write
\* gave an EOAT is the place shown, unless an audit of that write's day or of a
\* later one is in the database: whatever rows were open before, in whatever
\* order imports, audits and writes came, and whatever time the client gave.
LastMoveShown ==
    \A e \in Eoats :
        last[e].place # Nowhere /\ (HasAudit(e) => observed[e].day < DayOf(last[e].at))
            => Resolve(e).place = last[e].place

\* Two EOATs are shown on one machine only on the word of an audit, or because
\* another plant's machine has its number: unless one of the two is shown by its
\* observation, they are installed on two machines that share the number, for
\* list_machines keys the installed EOATs by number alone (repositories.py).
TwoShownOnlyByAudit ==
    \A m \in Machines : \A e, f \in CurrentEoats(m) :
        e # f /\ "OBSERVATION" \notin {Resolve(e).source, Resolve(f).source}
            => /\ installed[e].machine # installed[f].machine
               /\ {Number[installed[e].machine], Number[installed[f].machine]} = {Number[m]}
=============================================================================
