------------------------ MODULE CompatibilityProofs ------------------------
(***************************************************************************)
(* Proofs about the compatibility tables, for every number of assets, rows *)
(* and requests and for every calendar.                                    *)
(*                                                                         *)
(* First what the operators compute: the pairs of a setup, the row that    *)
(* decides a pair, what the desktop makes of the rows.  Then two inductive *)
(* invariants: a pair whose creations did not overlap has one active row,  *)
(* and what an installation has judged is what its snapshot says.          *)
(***************************************************************************)
EXTENDS Compatibility, FiniteSetTheorems, SequenceTheorems,
        WellFoundedInduction, TLAPS

LEMMA AddedElement ==
    ASSUME NEW S, NEW x, IsFiniteSet(S), x \notin S
    PROVE  IsFiniteSet(S \cup {x}) /\ Cardinality(S \cup {x}) = Cardinality(S) + 1
  BY FS_AddElement

LEMMA TwoElements ==
    ASSUME NEW x, NEW y, x # y
    PROVE  IsFiniteSet({x, y}) /\ Cardinality({x, y}) = 2
<1>1. IsFiniteSet({x}) /\ Cardinality({x}) = 1
  BY FS_Singleton
<1>2. y \notin {x} /\ {x, y} = {x} \cup {y}
  OBVIOUS
<1> QED
  BY <1>1, <1>2, AddedElement

LEMMA AppendToOne == ASSUME NEW a, NEW b PROVE Append(<<a>>, b) = <<a, b>>
<1> DEFINE S == {a, b}
<1>1. <<a>> \in Seq(S) /\ <<a, b>> \in Seq(S) /\ b \in S
  OBVIOUS
<1>2. Append(<<a>>, b) \in Seq(S) /\ Len(Append(<<a>>, b)) = 2
  BY <1>1, AppendProperties
<1>3. \A i \in 1 .. 2 : Append(<<a>>, b)[i] = <<a, b>>[i]
  BY <1>1, AppendProperties
<1> QED
  BY <1>1, <1>2, <1>3, SeqEqual

LEMMA AppendToTwo == ASSUME NEW a, NEW b, NEW c PROVE Append(<<a, b>>, c) = <<a, b, c>>
<1> DEFINE S == {a, b, c}
<1>1. <<a, b>> \in Seq(S) /\ <<a, b, c>> \in Seq(S) /\ c \in S
  OBVIOUS
<1>2. Append(<<a, b>>, c) \in Seq(S) /\ Len(Append(<<a, b>>, c)) = 3
  BY <1>1, AppendProperties
<1>3. \A i \in 1 .. 3 : Append(<<a, b>>, c)[i] = <<a, b, c>>[i]
  <2>1. Append(<<a, b>>, c)[1] = a /\ Append(<<a, b>>, c)[2] = b /\ Append(<<a, b>>, c)[3] = c
    BY <1>1, AppendProperties
  <2>2. \A i \in 1 .. 3 : i = 1 \/ i = 2 \/ i = 3
    OBVIOUS
  <2> QED
    BY <2>1, <2>2
<1> QED
  BY <1>1, <1>2, <1>3, SeqEqual

LEMMA KindsDiffer ==
    ASSUME NEW t \in Tools, NEW m \in Machines, NEW e \in Eoats
    PROVE  t # m /\ t # e /\ m # e
  BY KindsDistinct

\* The pairs of a setup are the three tables' pairs.
LEMMA PairsOfSetup ==
    ASSUME NEW t \in Tools, NEW m \in Machines, NEW e \in Eoats
    PROVE  PairsOf({t, m, e}) = {{t, m}, {m, e}, {t, e}}
<1> DEFINE s == {t, m, e}
<1>1. t # m /\ t # e /\ m # e
  BY KindsDiffer
<1>2. Cardinality({t, m}) = 2 /\ Cardinality({m, e}) = 2 /\ Cardinality({t, e}) = 2
  BY <1>1, TwoElements
<1>3. ASSUME NEW p \in SUBSET s, Cardinality(p) = 2
      PROVE  p \in {{t, m}, {m, e}, {t, e}}
  <2>1. \/ p = {} \/ p = {t} \/ p = {m} \/ p = {e}
        \/ p = {t, m} \/ p = {m, e} \/ p = {t, e} \/ p = {t, m, e}
    <3>1. p = {x \in s : x \in p}
      OBVIOUS
    <3>2. CASE t \in p /\ m \in p /\ e \in p
      BY <3>2
    <3>3. CASE t \in p /\ m \in p /\ e \notin p
      BY <3>3
    <3>4. CASE t \in p /\ m \notin p /\ e \in p
      BY <3>4
    <3>5. CASE t \in p /\ m \notin p /\ e \notin p
      BY <3>5
    <3>6. CASE t \notin p /\ m \in p /\ e \in p
      BY <3>6
    <3>7. CASE t \notin p /\ m \in p /\ e \notin p
      BY <3>7
    <3>8. CASE t \notin p /\ m \notin p /\ e \in p
      BY <3>8
    <3>9. CASE t \notin p /\ m \notin p /\ e \notin p
      BY <3>9
    <3> QED
      BY <3>2, <3>3, <3>4, <3>5, <3>6, <3>7, <3>8, <3>9
  <2>2. p # {}
    BY <1>3, FS_EmptySet
  <2>3. p # {t} /\ p # {m} /\ p # {e}
    <3>1. Cardinality({t}) = 1 /\ Cardinality({m}) = 1 /\ Cardinality({e}) = 1
      BY FS_Singleton
    <3> QED
      BY <3>1, <1>3
  <2>4. Cardinality({t, m, e}) = 3
    <3>1. IsFiniteSet({t, m}) /\ e \notin {t, m} /\ {t, m, e} = {t, m} \cup {e}
      BY <1>1, TwoElements
    <3> QED
      BY <3>1, <1>2, AddedElement
  <2>5. p # {t, m, e}
    BY <1>3, <2>4
  <2> QED
    BY <2>1, <2>2, <2>3, <2>5
<1>4. {t, m} \in SUBSET s /\ {m, e} \in SUBSET s /\ {t, e} \in SUBSET s
  OBVIOUS
<1> QED
  BY <1>2, <1>3, <1>4 DEF PairsOf

\* Two assets of a setup are a pair of it, and a pair has two.
LEMMA PairIsTwo ==
    ASSUME NEW s \in Setups, NEW p \in PairsOf(s)
    PROVE  /\ p \in Pairs
           /\ \A x, y \in p : x # y => {x, y} = p
<1>1. PICK t \in Tools, m \in Machines, e \in Eoats : s = {t, m, e}
  BY DEF Setups
<1>2. p \in {{t, m}, {m, e}, {t, e}}
  BY <1>1, PairsOfSetup
<1>3. {t, m} \in Pairs /\ {e, m} \in Pairs /\ {e, t} \in Pairs
  BY DEF Pairs
<1>4. {e, m} = {m, e} /\ {e, t} = {t, e}
  OBVIOUS
<1> QED
  BY <1>2, <1>3, <1>4

LEMMA TwoOfSetup ==
    ASSUME NEW s \in Setups, NEW x \in s, NEW y \in s, x # y
    PROVE  {x, y} \in PairsOf(s)
<1>1. PICK t \in Tools, m \in Machines, e \in Eoats : s = {t, m, e}
  BY DEF Setups
<1>2. {x, y} \in {{t, m}, {m, e}, {t, e}}
  BY <1>1
<1> QED
  BY <1>1, <1>2, PairsOfSetup

-----------------------------------------------------------------------------
(* The verdict on a setup.                                                 *)

LEMMA OverallCompatible ==
    ASSUME NEW results
    PROVE  Overall(results) = "COMPATIBLE" <=> results = {"COMPATIBLE"}
  BY DEF Overall

\* A setup fits when none of its assets is archived and every pair fits.
LEMMA FitCheckCompatible ==
    ASSUME NEW R, NEW gone, NEW s \in Setups, NEW d
    PROVE  FitCheck(R, gone, s, d) = "COMPATIBLE"
             <=> /\ s \cap gone = {}
                 /\ \A p \in PairsOf(s) : PairResult(R, p, d) = "COMPATIBLE"
<1> DEFINE results == {PairResult(R, p, d) : p \in PairsOf(s)}
<1>1. PairsOf(s) # {}
  <2>1. PICK t \in Tools, m \in Machines, e \in Eoats : s = {t, m, e}
    BY DEF Setups
  <2>2. {t, m} \in PairsOf(s)
    BY <2>1, PairsOfSetup
  <2> QED
    BY <2>2
<1>2. results = {"COMPATIBLE"} <=> \A p \in PairsOf(s) : PairResult(R, p, d) = "COMPATIBLE"
  <2>1. ASSUME results = {"COMPATIBLE"}, NEW p \in PairsOf(s)
        PROVE  PairResult(R, p, d) = "COMPATIBLE"
    <3>1. PairResult(R, p, d) \in results
      OBVIOUS
    <3> HIDE DEF results
    <3> QED
      BY <2>1, <3>1
  <2>2. ASSUME \A p \in PairsOf(s) : PairResult(R, p, d) = "COMPATIBLE"
        PROVE  results = {"COMPATIBLE"}
    BY <2>2, <1>1
  <2> QED
    BY <2>1, <2>2
<1>3. Overall(results) = "COMPATIBLE" <=> results = {"COMPATIBLE"}
  BY OverallCompatible
<1>4. CASE s \cap gone # {}
  BY <1>4 DEF FitCheck
<1>5. CASE s \cap gone = {}
  <2>1. FitCheck(R, gone, s, d) = Overall(results)
    BY <1>5 DEF FitCheck
  <2> HIDE DEF results
  <2> QED
    BY <1>2, <1>3, <1>5, <2>1
<1> QED
  BY <1>4, <1>5

LEMMA FitsWhenPairsFit ==
    ASSUME NEW R, NEW gone, NEW s \in Setups, NEW d, s \cap gone = {},
           \A p \in PairsOf(s) : PairResult(R, p, d) = "COMPATIBLE"
    PROVE  FitCheck(R, gone, s, d) = "COMPATIBLE"
  BY FitCheckCompatible

LEMMA CompatibleHasRow ==
    ASSUME NEW R, NEW p, NEW d, PairResult(R, p, d) = "COMPATIBLE"
    PROVE  InForce(R, p, d) # {} /\ ActiveRows(R, p) # {}
<1>1. InForce(R, p, d) # {}
  BY DEF PairResult
<1> QED
  BY <1>1 DEF InForce

\* The desktop: with an active row for every pair, every pair passes.
LEMMA DesktopFollowsRows ==
    ASSUME NEW R, NEW gone, NEW s \in Setups, NEW d,
           FitCheck(R, gone, s, d) = "COMPATIBLE"
    PROVE  DesktopSetup(R, s) = "pass"
<1>1. ASSUME NEW p \in PairsOf(s)
      PROVE  PairStatus(R, p) = "pass"
  <2>1. PairResult(R, p, d) = "COMPATIBLE"
    BY FitCheckCompatible
  <2>2. ActiveRows(R, p) # {}
    BY <2>1, CompatibleHasRow
  <2>3. \A x, y \in p : x # y => Related(R, x, y)
    BY <2>2, PairIsTwo DEF Related
  <2> QED
    BY <2>3 DEF PairStatus
<1> DEFINE statuses == {PairStatus(R, p) : p \in PairsOf(s)}
<1>2. "fail" \notin statuses /\ "unknown" \notin statuses
  BY <1>1
<1> QED
  BY <1>2 DEF DesktopSetup

\* The desktop follows the server whatever the rows are.
THEOREM DesktopAlwaysFollows == Spec => []DesktopFollows
<1>1. DesktopFollows
  BY DesktopFollowsRows DEF DesktopFollows
<1> QED
  BY <1>1, PTL

-----------------------------------------------------------------------------
(* What an installation has judged is what its snapshot says.              *)

\* The results an installation of setup s may have seen, on rows R on day d.
Prefixes(R, s, d) ==
    LET first == PairResult(R, s \ Eoats, d)
        second == PairResult(R, s \ Tools, d)
        third == PairResult(R, s \ Machines, d)
    IN  {<<>>, <<first>>, <<first, second>>, <<first, second, third>>}

RequestsOK ==
    /\ phase = [r \in Requests |-> phase[r]]
    /\ asks = [r \in Requests |-> asks[r]]
    /\ snap = [r \in Requests |-> snap[r]]
    /\ seen = [r \in Requests |-> seen[r]]
    /\ outcome = [r \in Requests |-> outcome[r]]
    /\ held = [r \in Requests |-> held[r]]

JudgedBySnapshot ==
    \A r \in Requests :
        IF phase[r] = "judging"
        THEN /\ asks[r] \in Setups
             /\ seen[r] \in Prefixes(snap[r].rows, asks[r], day)
             /\ seen[r] # <<>> => asks[r] \cap snap[r].archived = {}
             /\ FitCheck(snap[r].rows, snap[r].archived, asks[r], day) = "COMPATIBLE" => held[r]
        ELSE seen[r] = <<>>

InstalledHeld ==
    \A r \in Requests : outcome[r] = "installed" => held[r] /\ phase[r] = "done"

InstallInv == RequestsOK /\ JudgedBySnapshot /\ InstalledHeld

HeldGrows ==
    held' = [r \in Requests |-> held'[r]] /\ \A r \in Requests : held[r] => held'[r]

LEMMA BecomesGrows == \A R, gone : Becomes(R, gone) => HeldGrows
  BY DEF Becomes, HeldGrows

LEMMA UnchangedGrows == RequestsOK /\ UNCHANGED held => HeldGrows
  BY DEF RequestsOK, HeldGrows

\* A step that moves no request keeps the invariant.
LEMMA TablesKeepInstallInv ==
    ASSUME InstallInv, HeldGrows, UNCHANGED <<day, request>>
    PROVE  InstallInv'
<1> USE DEF InstallInv, request
<1>1. RequestsOK'
  BY DEF RequestsOK, HeldGrows
<1>2. JudgedBySnapshot'
  BY DEF JudgedBySnapshot, HeldGrows
<1>3. InstalledHeld'
  BY DEF InstalledHeld, HeldGrows
<1> QED
  BY <1>1, <1>2, <1>3

\* So does the answer to a request, if an installation answered so had fitted.
LEMMA AnswerKeepsInstallInv ==
    ASSUME InstallInv, HeldGrows, UNCHANGED day,
           NEW r \in Requests, NEW text, Answer(r, text),
           text = "installed" => held'[r]
    PROVE  InstallInv'
<1> USE DEF InstallInv
<1>1. /\ phase'[r] = "done" /\ seen'[r] = <<>> /\ outcome'[r] = text
      /\ \A q \in Requests \ {r} :
            /\ phase'[q] = phase[q] /\ asks'[q] = asks[q] /\ snap'[q] = snap[q]
            /\ seen'[q] = seen[q] /\ outcome'[q] = outcome[q]
  BY DEF RequestsOK, Answer
<1>2. RequestsOK'
  BY DEF RequestsOK, Answer, HeldGrows
<1>3. JudgedBySnapshot'
  BY <1>1 DEF JudgedBySnapshot, HeldGrows
<1>4. InstalledHeld'
  BY <1>1 DEF InstalledHeld, HeldGrows
<1> QED
  BY <1>2, <1>3, <1>4

LEMMA BeginKeepsInstallInv ==
    ASSUME InstallInv, NEW r \in Requests, BeginCreate(r) \/ BeginInstall(r)
    PROVE  InstallInv'
<1> USE DEF InstallInv
<1>1. PICK kind \in {"creating", "judging"}, what \in Pairs \cup Setups :
        /\ Begin(r, kind, what)
        /\ kind = "judging" =>
             /\ what \in Setups
             /\ held' = [held EXCEPT ![r] = FitCheck(rows, archived, what, day) = "COMPATIBLE"]
        /\ kind = "creating" => UNCHANGED held
  BY DEF BeginCreate, BeginInstall
<1>2. /\ phase[r] = "idle" /\ UNCHANGED <<day, seen, outcome>>
      /\ phase'[r] = kind /\ asks'[r] = what
      /\ snap'[r].rows = rows /\ snap'[r].archived = archived
      /\ \A q \in Requests \ {r} :
            phase'[q] = phase[q] /\ asks'[q] = asks[q] /\ snap'[q] = snap[q]
  BY <1>1 DEF RequestsOK, Begin
<1>3. \A q \in Requests \ {r} : held'[q] = held[q]
  BY <1>1 DEF RequestsOK
<1>4. RequestsOK'
  BY <1>1 DEF RequestsOK, Begin
<1>5. JudgedBySnapshot'
  <2> SUFFICES ASSUME NEW q \in Requests
               PROVE  IF phase'[q] = "judging"
                      THEN /\ asks'[q] \in Setups
                           /\ seen'[q] \in Prefixes(snap'[q].rows, asks'[q], day')
                           /\ seen'[q] # <<>> => asks'[q] \cap snap'[q].archived = {}
                           /\ FitCheck(snap'[q].rows, snap'[q].archived, asks'[q], day')
                                = "COMPATIBLE" => held'[q]
                      ELSE seen'[q] = <<>>
    BY DEF JudgedBySnapshot
  <2>1. CASE q # r
    BY <2>1, <1>2, <1>3 DEF JudgedBySnapshot
  <2>2. CASE q = r /\ kind = "creating"
    BY <2>2, <1>2 DEF JudgedBySnapshot
  <2>3. CASE q = r /\ kind = "judging"
    <3>1. seen'[r] = <<>> /\ <<>> \in Prefixes(rows, what, day)
      BY <1>2 DEF JudgedBySnapshot, Prefixes
    <3>2. held'[r] = (FitCheck(rows, archived, what, day) = "COMPATIBLE")
      BY <2>3, <1>1 DEF RequestsOK
    <3> QED
      BY <2>3, <3>1, <3>2, <1>1, <1>2
  <2> QED
    BY <2>1, <2>2, <2>3
<1>6. InstalledHeld'
  BY <1>2, <1>3 DEF InstalledHeld
<1> QED
  BY <1>4, <1>5, <1>6

LEMMA ReadKeepsInstallInv ==
    ASSUME InstallInv, NEW r \in Requests, ReadPair(r)
    PROVE  InstallInv'
<1> USE DEF InstallInv
<1> DEFINE s == asks[r]
           R == snap[r].rows
           first == PairResult(R, s \ Eoats, day)
           second == PairResult(R, s \ Tools, day)
           third == PairResult(R, s \ Machines, day)
<1>1. /\ phase[r] = "judging" /\ Len(seen[r]) < 3
      /\ seen[r] = <<>> => s \cap snap[r].archived = {}
      /\ UNCHANGED <<day, phase, asks, snap, outcome, held>>
      /\ seen' = [seen EXCEPT ![r] = Append(seen[r], PairResult(R, Judged(s)[Len(seen[r]) + 1], day))]
  BY DEF ReadPair, Judging, View, Unchanged
<1>2. /\ s \in Setups /\ seen[r] \in Prefixes(R, s, day)
      /\ seen[r] # <<>> => s \cap snap[r].archived = {}
  BY <1>1 DEF JudgedBySnapshot
<1>3. \A q \in Requests \ {r} : seen'[q] = seen[q]
  BY <1>1 DEF RequestsOK
<1>4. seen'[r] = Append(seen[r], PairResult(R, Judged(s)[Len(seen[r]) + 1], day))
  BY <1>1 DEF RequestsOK
<1>5. seen'[r] \in Prefixes(R, s, day)
  <2> HIDE DEF s, R
  <2>1. Judged(s)[1] = s \ Eoats /\ Judged(s)[2] = s \ Tools /\ Judged(s)[3] = s \ Machines
    BY DEF Judged
  <2>2. Prefixes(R, s, day) = {<<>>, <<first>>, <<first, second>>, <<first, second, third>>}
    BY DEF Prefixes
  <2>3. PairResult(R, Judged(s)[1], day) = first /\ PairResult(R, Judged(s)[2], day) = second
          /\ PairResult(R, Judged(s)[3], day) = third
    BY <2>1
  <2> HIDE DEF first, second, third
  <2>4. CASE seen[r] = <<>>
    BY <2>2, <2>3, <2>4, <1>4
  <2>5. CASE seen[r] = <<first>>
    BY <2>2, <2>3, <2>5, <1>4, AppendToOne
  <2>6. CASE seen[r] = <<first, second>>
    BY <2>2, <2>3, <2>6, <1>4, AppendToTwo
  <2>7. seen[r] # <<first, second, third>>
    <3>1. Len(<<first, second, third>>) = 3
      OBVIOUS
    <3>2. seen[r] = <<first, second, third>> => Len(seen[r]) = Len(<<first, second, third>>)
      OBVIOUS
    <3> QED
      BY <3>1, <3>2, <1>1
  <2> QED
    BY <2>2, <2>4, <2>5, <2>6, <2>7, <1>2 DEF s, R
<1>6. RequestsOK'
  BY <1>1 DEF RequestsOK
<1>7. JudgedBySnapshot'
  BY <1>1, <1>2, <1>3, <1>5 DEF JudgedBySnapshot
<1>8. InstalledHeld'
  BY <1>1 DEF InstalledHeld
<1> QED
  BY <1>6, <1>7, <1>8

LEMMA DecideKeepsInstallInv ==
    ASSUME InstallInv, NEW r \in Requests, Decide(r)
    PROVE  InstallInv'
<1> USE DEF InstallInv
<1> DEFINE s == asks[r]
           R == snap[r].rows
           verdict == Overall({seen[r][i] : i \in 1 .. 3})
<1>1. /\ phase[r] = "judging" /\ Len(seen[r]) = 3 /\ UNCHANGED <<day, held>>
  BY DEF Decide, Judging, Unchanged
<1>2. PICK text \in {"installed", "refused", "overridden"} :
        Answer(r, text) /\ (text = "installed" => verdict = "COMPATIBLE")
  BY DEF Decide
<1>3. /\ s \in Setups /\ seen[r] \in Prefixes(R, s, day)
      /\ seen[r] # <<>> => s \cap snap[r].archived = {}
      /\ FitCheck(R, snap[r].archived, s, day) = "COMPATIBLE" => held[r]
  BY <1>1 DEF JudgedBySnapshot
<1>4. ASSUME verdict = "COMPATIBLE" PROVE FitCheck(R, snap[r].archived, s, day) = "COMPATIBLE"
  <2>1. {seen[r][i] : i \in 1 .. 3} = {"COMPATIBLE"}
    BY <1>4, OverallCompatible
  <2>2. seen[r][1] = "COMPATIBLE" /\ seen[r][2] = "COMPATIBLE" /\ seen[r][3] = "COMPATIBLE"
    BY <2>1
  <2>3. seen[r] = << PairResult(R, s \ Eoats, day), PairResult(R, s \ Tools, day),
                     PairResult(R, s \ Machines, day) >>
    BY <1>1, <1>3 DEF Prefixes
  <2>4. PICK t \in Tools, m \in Machines, e \in Eoats : s = {t, m, e}
    BY <1>3 DEF Setups
  <2>5. s \ Eoats = {t, m} /\ s \ Tools = {m, e} /\ s \ Machines = {t, e}
    BY <2>4, KindsDistinct
  <2>6. \A p \in PairsOf(s) : PairResult(R, p, day) = "COMPATIBLE"
    <3>1. /\ PairResult(R, {t, m}, day) = "COMPATIBLE"
          /\ PairResult(R, {m, e}, day) = "COMPATIBLE"
          /\ PairResult(R, {t, e}, day) = "COMPATIBLE"
      <4>1. /\ PairResult(R, s \ Eoats, day) = "COMPATIBLE"
            /\ PairResult(R, s \ Tools, day) = "COMPATIBLE"
            /\ PairResult(R, s \ Machines, day) = "COMPATIBLE"
        BY <2>2, <2>3
      <4> HIDE DEF s, R
      <4> QED
        BY <4>1, <2>5
    <3>2. PairsOf(s) = {{t, m}, {m, e}, {t, e}}
      BY <2>4, PairsOfSetup
    <3> HIDE DEF s, R
    <3> QED
      BY <3>1, <3>2
  <2> QED
    BY <2>3, <2>6, <1>3, FitCheckCompatible
<1>5. HeldGrows
  BY <1>1, UnchangedGrows
<1> QED
  BY <1>1, <1>2, <1>3, <1>4, <1>5, AnswerKeepsInstallInv

LEMMA InstallInvKept == InstallInv /\ [Next]_vars => InstallInv'
<1> SUFFICES ASSUME InstallInv, [Next]_vars PROVE InstallInv'
  OBVIOUS
<1>1. ASSUME NEW r \in Requests, BeginCreate(r) \/ BeginInstall(r) PROVE InstallInv'
  BY <1>1, BeginKeepsInstallInv
<1>2. ASSUME NEW r \in Requests, RefuseCreate(r) \/ RefuseTool(r) PROVE InstallInv'
  <2>1. Answer(r, "refused") /\ UNCHANGED <<day, held>>
    BY <1>2 DEF RefuseCreate, RefuseTool, Unchanged
  <2> QED
    BY <2>1, UnchangedGrows, AnswerKeepsInstallInv DEF InstallInv
<1>3. ASSUME NEW r \in Requests, Create(r) PROVE InstallInv'
  <2>1. Answer(r, "created") /\ UNCHANGED day /\ \E R, gone : Becomes(R, gone)
    BY <1>3 DEF Create
  <2> QED
    BY <2>1, BecomesGrows, AnswerKeepsInstallInv
<1>4. CASE Update \/ ArchiveRow \/ ArchiveTool \/ RestoreTool
  <2>1. UNCHANGED <<day, request>> /\ \E R, gone : Becomes(R, gone)
    BY <1>4 DEF Update, ArchiveRow, ArchiveTool, RestoreTool
  <2> QED
    BY <2>1, BecomesGrows, TablesKeepInstallInv
<1>5. ASSUME NEW r \in Requests, ReadPair(r) PROVE InstallInv'
  BY <1>5, ReadKeepsInstallInv
<1>6. ASSUME NEW r \in Requests, Decide(r) PROVE InstallInv'
  BY <1>6, DecideKeepsInstallInv
<1>7. CASE Tick
  <2>1. \A r \in Requests : phase[r] # "judging"
    BY <1>7 DEF Tick, InFlight, Judging
  <2>2. UNCHANGED <<request, held>>
    BY <1>7 DEF Tick
  <2> QED
    BY <2>1, <2>2 DEF InstallInv, RequestsOK, JudgedBySnapshot, InstalledHeld, request
<1>8. CASE UNCHANGED vars
  BY <1>8, UnchangedGrows, TablesKeepInstallInv DEF vars, request, InstallInv
<1> QED
  BY <1>1, <1>2, <1>3, <1>4, <1>5, <1>6, <1>7, <1>8 DEF Next, WriteRows, Install

\* An installation that nobody overrode fitted at some instant while its
\* request ran.
THEOREM InstallationsFitted == Spec => []InstalledWhileFitting
<1>1. Init => InstallInv
  BY DEF Init, InstallInv, RequestsOK, JudgedBySnapshot, InstalledHeld
<1>2. InstallInv => InstalledWhileFitting
  BY DEF InstallInv, InstalledHeld, InstalledWhileFitting
<1> QED
  BY <1>1, <1>2, InstallInvKept, PTL DEF Spec

-----------------------------------------------------------------------------
(* What is offered, and the row that decides.                              *)

\* Among rows in force one took effect last: days are bounded.
LEMMA LatestExists ==
    ASSUME NEW R \in SUBSET Rows, NEW p, NEW d, InForce(R, p, d) # {}
    PROVE  \E x \in InForce(R, p, d) : \A y \in InForce(R, p, d) : y.from <= x.from
<1> DEFINE found == InForce(R, p, d)
           T == {MaxDay - x.from : x \in found}
<1>1. \A x \in found : x.from \in 0 .. MaxDay
  BY DEF InForce, ActiveRows, Rows, Days
<1>2. T \subseteq Nat
  BY <1>1, BoundsAssumption
<1>3. T # {}
  OBVIOUS
<1>4. PICK k \in T : \A j \in T : ~(<<j, k>> \in OpToRel(<, Nat))
  <2> HIDE DEF T
  <2> QED
    BY <1>2, <1>3, NatLessThanWellFounded, WFMin, Zenon
<1>5. \A j \in T : ~(j < k)
  BY <1>2, <1>4 DEF OpToRel
<1>6. PICK x \in found : k = MaxDay - x.from
  OBVIOUS
<1>7. ASSUME NEW y \in found PROVE y.from <= x.from
  <2>1. MaxDay - y.from \in T
    OBVIOUS
  <2>2. ~(MaxDay - y.from < MaxDay - x.from)
    BY <2>1, <1>5, <1>6
  <2> HIDE DEF found
  <2> QED
    BY <2>2, <1>1, BoundsAssumption
<1> QED
  BY <1>7

LEMMA DecidingRow ==
    ASSUME NEW R \in SUBSET Rows, NEW p, NEW d, InForce(R, p, d) # {}
    PROVE  \E x \in InForce(R, p, d) : PairResult(R, p, d) = x.verdict
<1> DEFINE latest == CHOOSE x \in InForce(R, p, d) : \A y \in InForce(R, p, d) : y.from <= x.from
<1>1. latest \in InForce(R, p, d)
  BY LatestExists
<1>2. PairResult(R, p, d) = latest.verdict
  BY DEF PairResult
<1> QED
  BY <1>1, <1>2

\* A pair that fits is offered.
LEMMA CompatibleIsOffered ==
    ASSUME NEW R \in SUBSET Rows, NEW p, NEW d, PairResult(R, p, d) = "COMPATIBLE"
    PROVE  Offering(R, p, d)
  BY CompatibleHasRow, DecidingRow DEF Offering

\* A pair with one active row that is offered fits.
LEMMA OfferedIsCompatible ==
    ASSUME NEW R \in SUBSET Rows, NEW p, NEW d, Offering(R, p, d),
           \A x, y \in ActiveRows(R, p) : x = y
    PROVE  PairResult(R, p, d) = "COMPATIBLE"
<1>1. PICK x \in InForce(R, p, d) : x.verdict = "COMPATIBLE"
  BY DEF Offering
<1>2. PICK y \in InForce(R, p, d) : PairResult(R, p, d) = y.verdict
  BY <1>1, DecidingRow
<1>3. x = y
  BY DEF InForce
<1> QED
  BY <1>1, <1>2, <1>3

LEMMA KindOfAsset ==
    ASSUME NEW x \in Tools \cup Machines \cup Eoats
    PROVE  x \in KindOf(x)
  BY DEF KindOf

\* A setup is offered option by option when every pair of it is, in whatever
\* order it is chosen.
LEMMA GuidedWhenOffered ==
    ASSUME NEW R, NEW gone, NEW s \in Setups, NEW d,
           s \cap gone = {}, \A p \in PairsOf(s) : Offering(R, p, d)
    PROVE  Guided(R, gone, s, d)
<1> SUFFICES ASSUME NEW x \in s, NEW chosen \in SUBSET (s \ {x})
             PROVE  x \in Options(R, gone, KindOf(x), chosen, d)
  BY DEF Guided
<1>1. x \in KindOf(x)
  BY KindOfAsset DEF Setups
<1>2. \A y \in chosen \ gone : Offering(R, {x, y}, d)
  BY TwoOfSetup
<1> QED
  BY <1>1, <1>2 DEF Options

LEMMA OfferedWhenGuided ==
    ASSUME NEW R, NEW gone, NEW s \in Setups, NEW d, Guided(R, gone, s, d)
    PROVE  s \cap gone = {} /\ \A p \in PairsOf(s) : Offering(R, p, d)
<1>1. \A x \in s : x \in Options(R, gone, KindOf(x), s \ {x}, d)
  BY DEF Guided
<1>2. s \cap gone = {}
  BY <1>1 DEF Options
<1>3. ASSUME NEW p \in PairsOf(s)
      PROVE  Offering(R, p, d)
  <2>1. PICK x, y \in p : x # y
    <3>1. PICK t \in Tools, m \in Machines, e \in Eoats : s = {t, m, e}
      BY DEF Setups
    <3>2. p \in {{t, m}, {m, e}, {t, e}}
      BY <3>1, PairsOfSetup
    <3> QED
      BY <3>2, KindsDiffer
  <2>2. {x, y} = p /\ x \in s /\ y \in s
    BY <2>1, PairIsTwo DEF PairsOf
  <2>3. Offering(R, {x, y}, d)
    BY <2>1, <2>2, <1>1, <1>2 DEF Options
  <2> QED
    BY <2>2, <2>3
<1> QED
  BY <1>2, <1>3

LEMMA ListedIsOffered ==
    ASSUME NEW R, NEW gone \in SUBSET Tools, NEW d,
           NEW m \in Machines, NEW t \in Tools, NEW e \in Alternatives(R, gone, m, t, d)
    PROVE  /\ {t, m, e} \cap gone = {}
           /\ PairResult(R, {t, m}, d) = "COMPATIBLE"
           /\ Offering(R, {m, e}, d)
           /\ Offering(R, {t, e}, d)
<1>1. {e, m} = {m, e} /\ {e, t} = {t, e}
  OBVIOUS
<1>2. e \in Eoats /\ t \notin gone
  BY DEF Alternatives
<1>3. {t, m, e} \cap gone = {}
  BY <1>2, KindsDistinct
<1> QED
  BY <1>1, <1>3 DEF Alternatives

LEMMA OfferedIsListed ==
    ASSUME NEW R, NEW gone, NEW d, NEW m \in Machines, NEW t \in Tools, NEW e \in Eoats,
           {t, m, e} \cap gone = {},
           PairResult(R, {t, m}, d) = "COMPATIBLE",
           Offering(R, {m, e}, d), Offering(R, {t, e}, d)
    PROVE  e \in Alternatives(R, gone, m, t, d)
<1>1. {e, m} = {m, e} /\ {e, t} = {t, e} /\ t \notin gone
  OBVIOUS
<1> QED
  BY <1>1 DEF Alternatives

OneActiveRow ==
    \A p \in Pairs \ overlapped : \A x, y \in ActiveRows(rows, p) : x = y

OfferInv ==
    /\ rows \in SUBSET Rows
    /\ archived \in SUBSET Tools
    /\ \A r \in Requests : phase[r] = "creating" => asks[r] \in Pairs
    /\ OneActiveRow

LEMMA OfferedFitsIfOneRow == OfferInv => OfferedFits
<1> SUFFICES ASSUME OfferInv, NEW m \in Machines, NEW t \in Tools, NEW e \in Eoats
             PROVE  LET s == {m, t, e}
                        verdict == FitCheck(rows, archived, s, day)
                        listed == e \in Alternatives(rows, archived, m, t, day)
                        chosen == Guided(rows, archived, s, day)
                    IN  /\ verdict = "COMPATIBLE" => listed /\ chosen
                        /\ (listed \/ chosen) /\ PairsOf(s) \cap overlapped = {}
                             => verdict = "COMPATIBLE"
  BY DEF OfferedFits
<1> DEFINE s == {m, t, e}
           listed == e \in Alternatives(rows, archived, m, t, day)
<1>1. s = {t, m, e} /\ s \in Setups
  BY DEF Setups
<1>2. PairsOf(s) = {{t, m}, {m, e}, {t, e}}
  BY <1>1, PairsOfSetup
<1>3. archived \in SUBSET Tools /\ rows \in SUBSET Rows
  BY DEF OfferInv
<1>4. ASSUME listed
      PROVE  /\ s \cap archived = {}
             /\ PairResult(rows, {t, m}, day) = "COMPATIBLE"
             /\ Offering(rows, {m, e}, day)
             /\ Offering(rows, {t, e}, day)
  <2>1. /\ {t, m, e} \cap archived = {}
        /\ PairResult(rows, {t, m}, day) = "COMPATIBLE"
        /\ Offering(rows, {m, e}, day)
        /\ Offering(rows, {t, e}, day)
    BY <1>4, <1>3, ListedIsOffered
  <2> QED
    BY <2>1, <1>1
<1>5. ASSUME s \cap archived = {}, PairResult(rows, {t, m}, day) = "COMPATIBLE",
             Offering(rows, {m, e}, day), Offering(rows, {t, e}, day)
      PROVE  listed
  <2>1. {t, m, e} \cap archived = {}
    BY <1>5, <1>1
  <2> QED
    BY <2>1, <1>5, OfferedIsListed
<1> HIDE DEF s, listed
<1>6. ASSUME FitCheck(rows, archived, s, day) = "COMPATIBLE"
      PROVE  listed /\ Guided(rows, archived, s, day)
  <2>1. s \cap archived = {} /\ \A p \in PairsOf(s) : PairResult(rows, p, day) = "COMPATIBLE"
    BY <1>1, <1>6, FitCheckCompatible
  <2>2. \A p \in PairsOf(s) : Offering(rows, p, day)
    BY <2>1, CompatibleIsOffered DEF OfferInv
  <2>3. listed
    BY <1>2, <1>5, <2>1, <2>2
  <2> QED
    BY <1>1, <2>1, <2>2, <2>3, GuidedWhenOffered
<1>7. ASSUME listed \/ Guided(rows, archived, s, day), PairsOf(s) \cap overlapped = {}
      PROVE  FitCheck(rows, archived, s, day) = "COMPATIBLE"
  <2>1. ASSUME NEW p \in PairsOf(s), Offering(rows, p, day)
        PROVE  PairResult(rows, p, day) = "COMPATIBLE"
    <3>1. p \in Pairs \ overlapped
      BY <1>1, <1>7, PairIsTwo
    <3> QED
      BY <2>1, <3>1, OfferedIsCompatible DEF OfferInv, OneActiveRow
  <2>2. s \cap archived = {} /\ \A p \in PairsOf(s) : PairResult(rows, p, day) = "COMPATIBLE"
    <3>1. CASE listed
      BY <3>1, <1>2, <1>4, <2>1
    <3>2. CASE Guided(rows, archived, s, day)
      BY <3>2, <1>1, <2>1, OfferedWhenGuided
    <3> QED
      BY <3>1, <3>2, <1>7
  <2> QED
    BY <1>1, <2>2, FitsWhenPairsFit
<1> QED
  BY <1>6, <1>7 DEF s, listed

\* Requests that are answered, or judge, create nothing.
LEMMA CreatingStays ==
    ASSUME RequestsOK, NEW r \in Requests,
           \A q \in Requests : phase[q] = "creating" => asks[q] \in Pairs,
           phase' = [phase EXCEPT ![r] = phase'[r]], asks' = [asks EXCEPT ![r] = asks'[r]],
           phase'[r] = "creating" => asks'[r] \in Pairs
    PROVE  \A q \in Requests : phase'[q] = "creating" => asks'[q] \in Pairs
  BY DEF RequestsOK

LEMMA AnswerCreatesNothing ==
    ASSUME RequestsOK, NEW r \in Requests, NEW text, Answer(r, text),
           \A q \in Requests : phase[q] = "creating" => asks[q] \in Pairs
    PROVE  \A q \in Requests : phase'[q] = "creating" => asks'[q] \in Pairs
  BY DEF RequestsOK, Answer

\* A new row of a pair without an active one, a row patched in place, and a
\* row archived: none of them gives a pair a second active row.
LEMMA CreateKeepsOneRow ==
    ASSUME OfferInv, NEW r \in Requests, Create(r)
    PROVE  OneActiveRow'
<1>1. /\ phase[r] = "creating" /\ asks[r] \in Pairs
      /\ ActiveRows(snap[r].rows, asks[r]) = {}
  BY DEF Create, Creating, Duplicate, OfferInv
<1>2. PICK new \in [pair: {asks[r]}, from: Days, to: Ends, verdict: Verdicts, active: {TRUE}] :
        rows' = rows \cup {new}
  <2>1. PICK from \in Days, to \in Ends, v \in Verdicts :
          rows' = rows \cup {[pair |-> asks[r], from |-> from, to |-> to,
                              verdict |-> v, active |-> TRUE]}
    BY DEF Create, Becomes
  <2> QED
    BY <2>1
<1>3. overlapped' = IF ActiveRows(rows, asks[r]) = {} THEN overlapped
                    ELSE overlapped \cup {asks[r]}
  BY <1>1 DEF Create
<1> SUFFICES ASSUME NEW p \in Pairs \ overlapped', NEW x \in ActiveRows(rows', p),
                    NEW y \in ActiveRows(rows', p)
             PROVE  x = y
  BY DEF OneActiveRow
<1>4. p \in Pairs \ overlapped /\ x \in rows' /\ y \in rows' /\ x.pair = p /\ y.pair = p
      /\ x.active /\ y.active
  BY <1>3 DEF ActiveRows
<1>5. CASE p = asks[r]
  <2>1. ActiveRows(rows, p) = {}
    BY <1>3, <1>5
  <2>2. x \notin rows /\ y \notin rows
    BY <1>4, <2>1 DEF ActiveRows
  <2> QED
    BY <1>2, <1>4, <2>2
<1>6. CASE p # asks[r]
  <2>1. x \in rows /\ y \in rows
    BY <1>2, <1>4, <1>6
  <2>2. x \in ActiveRows(rows, p) /\ y \in ActiveRows(rows, p)
    BY <1>4, <2>1 DEF ActiveRows
  <2> QED
    BY <1>4, <2>2 DEF OfferInv, OneActiveRow
<1> QED
  BY <1>5, <1>6

LEMMA PatchKeepsOneRow ==
    ASSUME OfferInv, NEW old \in rows, NEW new,
           rows' = (rows \ {old}) \cup {new}, UNCHANGED overlapped,
           new.pair = old.pair, new.active => old.active
    PROVE  OneActiveRow'
<1> SUFFICES ASSUME NEW p \in Pairs \ overlapped, NEW x \in ActiveRows(rows', p),
                    NEW y \in ActiveRows(rows', p)
             PROVE  x = y
  BY DEF OneActiveRow
<1>1. /\ x \in rows' /\ x.pair = p /\ x.active
      /\ y \in rows' /\ y.pair = p /\ y.active
  BY DEF ActiveRows
<1>2. \A a, b \in rows : a.pair = p /\ a.active /\ b.pair = p /\ b.active => a = b
  BY DEF OfferInv, OneActiveRow, ActiveRows
<1>3. CASE x = new /\ y = new
  BY <1>3
<1>4. CASE x # new /\ y # new
  BY <1>1, <1>2, <1>4
<1>5. CASE x = new /\ y # new
  BY <1>1, <1>2, <1>5
<1>6. CASE x # new /\ y = new
  BY <1>1, <1>2, <1>6
<1> QED
  BY <1>3, <1>4, <1>5, <1>6

LEMMA OfferInvKept == RequestsOK /\ OfferInv /\ [Next]_vars => OfferInv'
<1> SUFFICES ASSUME RequestsOK, OfferInv, [Next]_vars PROVE OfferInv'
  OBVIOUS
<1>0. /\ rows \in SUBSET Rows /\ archived \in SUBSET Tools /\ OneActiveRow
      /\ \A q \in Requests : phase[q] = "creating" => asks[q] \in Pairs
  BY DEF OfferInv
<1>1. ASSUME UNCHANGED <<rows, overlapped>> PROVE OneActiveRow'
  BY <1>0, <1>1 DEF OneActiveRow, ActiveRows
<1>2. ASSUME NEW r \in Requests, BeginCreate(r) \/ BeginInstall(r) PROVE OfferInv'
  <2>1. PICK kind \in {"creating", "judging"}, what \in Pairs \cup Setups :
          Begin(r, kind, what) /\ (kind = "creating" => what \in Pairs)
    BY <1>2 DEF BeginCreate, BeginInstall
  <2>2. /\ UNCHANGED <<rows, archived, overlapped>>
        /\ phase' = [phase EXCEPT ![r] = kind] /\ asks' = [asks EXCEPT ![r] = what]
    BY <2>1 DEF Begin
  <2>3. phase'[r] = kind /\ asks'[r] = what
    BY <2>2 DEF RequestsOK
  <2>4. \A q \in Requests : phase'[q] = "creating" => asks'[q] \in Pairs
    BY <1>0, <2>1, <2>2, <2>3, CreatingStays
  <2> QED
    BY <1>0, <1>1, <2>2, <2>4 DEF OfferInv
<1>3. ASSUME NEW r \in Requests, RefuseCreate(r) \/ RefuseTool(r) \/ Decide(r) PROVE OfferInv'
  <2>1. UNCHANGED <<rows, archived, overlapped>> /\ \E text : Answer(r, text)
    BY <1>3 DEF RefuseCreate, RefuseTool, Decide, Unchanged
  <2>2. \A q \in Requests : phase'[q] = "creating" => asks'[q] \in Pairs
    BY <1>0, <2>1, AnswerCreatesNothing
  <2> QED
    BY <1>0, <1>1, <2>1, <2>2 DEF OfferInv
<1>4. ASSUME NEW r \in Requests, Create(r) PROVE OfferInv'
  <2>1. asks[r] \in Pairs /\ Answer(r, "created")
    BY <1>0, <1>4 DEF Create, Creating
  <2>2. rows' \in SUBSET Rows /\ UNCHANGED archived
    <3>1. PICK from \in Days, to \in Ends, v \in Verdicts :
            /\ rows' = rows \cup {[pair |-> asks[r], from |-> from, to |-> to,
                                  verdict |-> v, active |-> TRUE]}
            /\ archived' = archived
      BY <1>4 DEF Create, Becomes
    <3>2. [pair |-> asks[r], from |-> from, to |-> to, verdict |-> v, active |-> TRUE] \in Rows
      BY <2>1 DEF Rows
    <3> QED
      BY <1>0, <3>1, <3>2
  <2>3. \A q \in Requests : phase'[q] = "creating" => asks'[q] \in Pairs
    BY <1>0, <2>1, AnswerCreatesNothing
  <2> QED
    BY <1>0, <1>4, <2>2, <2>3, CreateKeepsOneRow DEF OfferInv
<1>5. CASE Update
  <2>1. PICK old \in rows, from \in Days, to \in Ends, v \in Verdicts :
          /\ rows' = (rows \ {old}) \cup {[old EXCEPT !.from = from, !.to = to, !.verdict = v]}
          /\ UNCHANGED archived
    BY <1>5 DEF Update, Becomes
  <2> DEFINE new == [old EXCEPT !.from = from, !.to = to, !.verdict = v]
  <2>2. old \in Rows /\ UNCHANGED <<request, overlapped>>
    BY <1>0, <1>5 DEF Update
  <2>3. new \in Rows /\ new.pair = old.pair /\ new.active = old.active
    BY <2>2 DEF Rows
  <2>4. rows' \in SUBSET Rows
    BY <1>0, <2>1, <2>3
  <2> HIDE DEF new
  <2>5. OneActiveRow'
    BY <2>1, <2>2, <2>3, PatchKeepsOneRow DEF new
  <2> QED
    BY <1>0, <2>1, <2>2, <2>4, <2>5 DEF OfferInv, request
<1>6. CASE ArchiveRow
  <2>1. PICK old \in rows :
          rows' = (rows \ {old}) \cup {[old EXCEPT !.active = FALSE]} /\ UNCHANGED archived
    BY <1>6 DEF ArchiveRow, Becomes
  <2>2. old \in Rows /\ UNCHANGED <<request, overlapped>>
    BY <1>0, <1>6 DEF ArchiveRow
  <2> DEFINE new == [old EXCEPT !.active = FALSE]
  <2>3. new \in Rows /\ new.pair = old.pair /\ ~new.active
    BY <2>2 DEF Rows
  <2>4. rows' \in SUBSET Rows
    BY <1>0, <2>1, <2>3
  <2> HIDE DEF new
  <2>5. OneActiveRow'
    BY <2>1, <2>2, <2>3, PatchKeepsOneRow DEF new
  <2> QED
    BY <1>0, <2>1, <2>2, <2>4, <2>5 DEF OfferInv, request
<1>7. CASE ArchiveTool \/ RestoreTool
  <2>1. UNCHANGED <<rows, overlapped, request>> /\ archived' \in SUBSET Tools
    BY <1>0, <1>7 DEF ArchiveTool, RestoreTool, Becomes
  <2> QED
    BY <1>0, <1>1, <2>1 DEF OfferInv, request
<1>8. ASSUME \/ \E r \in Requests : ReadPair(r)
             \/ Tick
             \/ UNCHANGED vars
      PROVE  OfferInv'
  <2>1. UNCHANGED <<rows, archived, overlapped, phase, asks>>
    BY <1>8 DEF ReadPair, Unchanged, Tick, request, vars
  <2> QED
    BY <1>0, <1>1, <2>1 DEF OfferInv
<1> QED
  BY <1>2, <1>3, <1>4, <1>5, <1>6, <1>7, <1>8 DEF Next, WriteRows, Install

\* What the API offers is what its fit check accepts, but for pairs whose
\* creations overlapped.
THEOREM OffersFit == Spec => []OfferedFits
<1>1. Init => InstallInv /\ OfferInv
  <2> SUFFICES ASSUME Init PROVE InstallInv /\ OfferInv
    OBVIOUS
  <2>1. InstallInv
    BY DEF Init, InstallInv, RequestsOK, JudgedBySnapshot, InstalledHeld
  <2>2. rows \in SUBSET Rows /\ \A x, y \in rows : x.pair = y.pair => x = y
    <3>1. PICK known \in SUBSET Pairs :
            rows = {[pair |-> p, from |-> 0, to |-> Forever,
                     verdict |-> "COMPATIBLE", active |-> TRUE] : p \in known}
      BY DEF Init
    <3>2. 0 \in Days /\ Forever \in Ends /\ "COMPATIBLE" \in Verdicts
      BY BoundsAssumption, VerdictsAssumption DEF Days, Ends
    <3>3. \A p \in known : [pair |-> p, from |-> 0, to |-> Forever,
                            verdict |-> "COMPATIBLE", active |-> TRUE] \in Rows
      BY <3>2 DEF Rows
    <3>4. rows \in SUBSET Rows
      BY <3>1, <3>3
    <3>5. \A x \in rows : x = [pair |-> x.pair, from |-> 0, to |-> Forever,
                              verdict |-> "COMPATIBLE", active |-> TRUE]
      BY <3>1
    <3>6. \A x, y \in rows : x.pair = y.pair => x = y
      BY <3>5
    <3> QED
      BY <3>4, <3>6
  <2>3. OneActiveRow
    BY <2>2 DEF OneActiveRow, ActiveRows
  <2>4. archived \in SUBSET Tools /\ \A r \in Requests : phase[r] # "creating"
    BY DEF Init
  <2> QED
    BY <2>1, <2>2, <2>3, <2>4 DEF OfferInv
<1>2. InstallInv /\ OfferInv /\ [Next]_vars => (InstallInv /\ OfferInv)'
  BY InstallInvKept, OfferInvKept DEF InstallInv
<1>3. OfferInv => OfferedFits
  BY OfferedFitsIfOneRow
<1> QED
  BY <1>1, <1>2, <1>3, PTL DEF Spec
=============================================================================
