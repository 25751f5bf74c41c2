-------------------------- MODULE PublicationProofs --------------------------
(***************************************************************************)
(* PublicIsWhole and RecordTruthful of Publication, for any number of       *)
(* consoles and assets.  Whatever a record calls done is a fact of git or   *)
(* GitHub that nothing takes back, so neither a crash nor another console   *)
(* can make the record wrong; and the release is made public by a console   *)
(* whose record covers every step but the last.                             *)
(***************************************************************************)
EXTENDS Publication, TLAPS

Runs ==
    [pc: {"idle", "step", "written", "attached", "performed", "save", "saving"},
     step: 0 .. 9, rec: Records, blocked: BOOLEAN]

WorldOK ==
    /\ head \in {"base", "candidate", "later"}
    /\ tag \in BOOLEAN
    /\ branch \in BOOLEAN
    /\ rtag \in {"none", "ours", "other"}
    /\ release \in {"none", "draft", "public"}
    /\ remote \subseteq Assets \cup {Receipt}
    /\ file \in BOOLEAN

\* The first n steps have been done.
Done(n) ==
    /\ n >= TAG_CREATED => tag
    /\ n >= BRANCH_PUSHED => branch
    /\ n >= TAG_PUSHED => rtag = "ours"
    /\ n >= GITHUB_RELEASE_CREATED => release # "none"
    /\ n >= PRIMARY_ASSETS_UPLOADED => Assets \subseteq remote
    /\ n >= RECEIPT_ATTACHED => release = "public"

Truthful(rec) ==
    /\ Done(rec.done)
    /\ rec.done >= RECEIPT_ATTACHED => rec.receipt
    /\ rec.state = "complete" => rec.done = RECEIPT_ATTACHED

\* A console works on the step after the last completed one.
InOrder(r) ==
    /\ r.pc = "step" => r.step \in 1 .. 9 /\ r.step <= r.rec.done + 1
    /\ r.pc = "performed" => r.step \in 1 .. 8 /\ r.step = r.rec.done + 1
    /\ r.pc \in {"written", "attached"} => r.step = 8 /\ r.rec.done = 7
    /\ r.pc \in {"save", "saving"} =>
         \/ r.rec.state = "going" /\ r.step = r.rec.done
         \/ r.rec.state \in {"failed", "complete"}

\* How far the last step has come.
ReceiptLast(r) ==
    /\ r.pc \in {"written", "attached"} => file
    /\ r.pc = "attached" => Receipt \in remote

RunOK(r) == Truthful(r.rec) /\ InOrder(r) /\ ReceiptLast(r)

IInv ==
    /\ TypeOK
    /\ Truthful(record)
    /\ PublicIsWhole
    /\ \A o \in Operators : RunOK(run[o])

\* What has been done in git and GitHub stays done.
WorldGrows ==
    /\ tag => tag'
    /\ branch => branch'
    /\ rtag = "ours" => rtag' = "ours"
    /\ release # "none" => release' # "none"
    /\ release = "public" => release' = "public"
    /\ remote \subseteq remote'
    /\ file => file'

LEMMA TypeParts == TypeOK <=> WorldOK /\ record \in Records /\ run \in [Operators -> Runs]
  BY DEF TypeOK, WorldOK, Runs

\* A record that was truthful remains so when the world goes on.
LEMMA TruthfulStays ==
    ASSUME WorldGrows
    PROVE  /\ Truthful(record) /\ UNCHANGED record => Truthful(record)'
           /\ \A o : /\ Truthful(run[o].rec) /\ run'[o].rec = run[o].rec => Truthful(run[o].rec)'
                     /\ Truthful(record) /\ run'[o].rec = record => Truthful(run[o].rec)'
                     /\ Truthful(run[o].rec) /\ record' = run[o].rec => Truthful(record)'
  BY DEF WorldGrows, Truthful, Done

\* What another console has reached remains so as well.
LEMMA RunStays ==
    ASSUME WorldGrows, NEW o, RunOK(run[o]), run'[o] = run[o]
    PROVE  RunOK(run[o])'
<1>1. Truthful(run[o].rec)'
  BY TruthfulStays DEF RunOK
<1>2. InOrder(run[o])'
  BY DEF RunOK, InOrder
<1>3. ReceiptLast(run[o])'
  BY DEF RunOK, ReceiptLast, WorldGrows
<1> QED
  BY <1>1, <1>2, <1>3 DEF RunOK

\* One console moves; the invariant is kept if it is kept for that console.
LEMMA MoveKeepsIInv ==
    ASSUME IInv, NEW o \in Operators, NEW r \in Runs,
           run' = [run EXCEPT ![o] = r],
           WorldGrows, WorldOK', record' \in Records, Truthful(record)', PublicIsWhole',
           RunOK(run[o])'
    PROVE  IInv'
<1>1. run \in [Operators -> Runs]
  BY TypeParts DEF IInv
<1>2. run' \in [Operators -> Runs]
  BY <1>1
<1>3. TypeOK'
  BY <1>2 DEF TypeOK, WorldOK, Runs
<1>4. \A q \in Operators : RunOK(run[q])'
  <2> SUFFICES ASSUME NEW q \in Operators
               PROVE  RunOK(run[q])'
    OBVIOUS
  <2>1. CASE q = o
    BY <2>1
  <2>2. CASE q # o
    <3>1. run'[q] = run[q]
      BY <1>1, <2>2
    <3> QED
      BY <3>1, RunStays DEF IInv
  <2> QED
    BY <2>1, <2>2
<1> QED
  BY <1>3, <1>4 DEF IInv

\* A console that moves in memory only.
LEMMA LocalKeepsIInv ==
    ASSUME IInv, NEW o \in Operators, NEW r \in Runs,
           run' = [run EXCEPT ![o] = r], UNCHANGED <<local, github, record>>,
           RunOK(r)
    PROVE  IInv'
<1>1. WorldGrows
  BY DEF WorldGrows, local, github
<1>2. WorldOK' /\ record' \in Records
  BY TypeParts DEF IInv, WorldOK, local, github
<1>3. Truthful(record)'
  BY <1>1, TruthfulStays DEF IInv
<1>4. PublicIsWhole'
  BY DEF IInv, PublicIsWhole, local, github
<1>5. run'[o] = r
  BY TypeParts DEF IInv
<1>6. RunOK(run[o])'
  BY <1>5 DEF RunOK, Truthful, Done, InOrder, ReceiptLast, local, github
<1> QED
  BY <1>1, <1>2, <1>3, <1>4, <1>6, MoveKeepsIInv

LEMMA Blank ==
    /\ Absent \in Records /\ Absent.done = 0 /\ Absent.state = "absent"
    /\ Idle \in Runs /\ Idle.pc = "idle" /\ Idle.rec = Absent
<1>1. Absent \in Records /\ Absent.done = 0 /\ Absent.state = "absent"
  BY DEF Absent, Records
<1> QED
  BY <1>1 DEF Idle, Runs

\* A record of no completed step is truthful.
LEMMA NothingDone ==
    ASSUME NEW rec, rec.done = 0, rec.state # "complete"
    PROVE  Truthful(rec)
  BY DEF Truthful, Done, TAG_CREATED, BRANCH_PUSHED, TAG_PUSHED, GITHUB_RELEASE_CREATED,
         PRIMARY_ASSETS_UPLOADED, RECEIPT_ATTACHED

LEMMA InitKeepsIInv == Init => IInv
<1> SUFFICES ASSUME Init
             PROVE  IInv
  OBVIOUS
<1>3. TypeOK
  BY Blank, TypeParts DEF Init, WorldOK
<1>4. Truthful(Absent)
  BY Blank, NothingDone
<1>5. RunOK(Idle)
  BY Blank, <1>4 DEF RunOK, InOrder, ReceiptLast
<1> QED
  BY <1>3, <1>4, <1>5 DEF IInv, Init, PublicIsWhole

\* publish_start and the walk through the recorded steps.
LEMMA StartKeepsIInv ==
    ASSUME IInv, NEW o \in Operators, Start(o)
    PROVE  IInv'
<1> DEFINE first == [Absent EXCEPT !.state = "validated"]
           rec == IF record = Absent THEN first ELSE record
           r == [Idle EXCEPT !.pc = "step", !.step = 1, !.rec = rec]
<1>1. first \in Records /\ first.done = 0 /\ first.state = "validated"
  BY Blank DEF Records
<1>2. rec \in Records
  BY <1>1, TypeParts DEF IInv
<1>3. Truthful(first)
  BY <1>1, NothingDone
<1>4. Truthful(rec)
  BY <1>3 DEF IInv
<1>5. run' = [run EXCEPT ![o] = r] /\ record' = rec /\ UNCHANGED <<local, github>>
  BY DEF Start
<1> HIDE DEF rec
<1>6. r \in Runs /\ r.pc = "step" /\ r.step = 1 /\ r.rec = rec
  <2>1. 1 \in 0 .. 9
    OBVIOUS
  <2> QED
    BY <1>2, <2>1, Blank DEF Runs
<1> HIDE DEF r
<1>7. run'[o] = r
  BY <1>5, <1>6, TypeParts DEF IInv
<1>8. WorldGrows /\ WorldOK'
  BY <1>5, TypeParts DEF IInv, WorldGrows, WorldOK, local, github
<1>9. Truthful(record)'
  BY <1>4, <1>5 DEF Truthful, Done, local, github
<1>10. RunOK(run[o])'
  <2>1. Truthful(run[o].rec)'
    BY <1>4, <1>5, <1>6, <1>7 DEF Truthful, Done, local, github
  <2>2. rec.done \in 0 .. 8
    BY <1>2 DEF Records
  <2>3. InOrder(run[o])' /\ ReceiptLast(run[o])'
    BY <1>6, <1>7, <2>2 DEF InOrder, ReceiptLast
  <2> QED
    BY <2>1, <2>3 DEF RunOK
<1>11. PublicIsWhole'
  BY <1>5 DEF IInv, PublicIsWhole, local, github
<1> QED
  BY <1>2, <1>5, <1>6, <1>8, <1>9, <1>10, <1>11, MoveKeepsIInv

LEMMA ReverifyKeepsIInv ==
    ASSUME IInv, NEW o \in Operators, Reverify(o)
    PROVE  IInv'
<1> DEFINE old == run[o]
           r == [old EXCEPT !.step = @ + 1]
<1>1. old \in Runs /\ RunOK(old)
  BY TypeParts DEF IInv
<1>2. old.pc = "step" /\ old.step <= old.rec.done
      /\ run' = [run EXCEPT ![o] = r] /\ UNCHANGED <<local, github, record>>
  BY DEF Reverify
<1> HIDE DEF old
<1>3. old.rec \in Records /\ old.rec.done \in 0 .. 8 /\ old.step \in 0 .. 9
  BY <1>1 DEF Runs, Records
<1>4. r \in Runs /\ r.pc = "step" /\ r.step = old.step + 1 /\ r.rec = old.rec
  BY <1>1, <1>2, <1>3 DEF Runs
<1> HIDE DEF r
<1>5. RunOK(r)
  BY <1>1, <1>2, <1>3, <1>4 DEF RunOK, InOrder, ReceiptLast
<1> QED
  BY <1>2, <1>4, <1>5, LocalKeepsIInv
-----------------------------------------------------------------------------
(* Steps that change git or GitHub.                                        *)

LEMMA WholeStays ==
    ASSUME IInv, WorldGrows, WorldOK', release' = "public" => release = "public"
    PROVE  PublicIsWhole'
  BY DEF IInv, WorldGrows, WorldOK, PublicIsWhole

LEMMA WorldKeepsIInv ==
    ASSUME IInv, WorldGrows, WorldOK', release' = "public" => release = "public",
           UNCHANGED <<record, run>>
    PROVE  IInv'
<1>1. PublicIsWhole'
  BY WholeStays
<1>2. TypeOK'
  BY TypeParts DEF IInv, TypeOK, WorldOK
<1>3. Truthful(record)'
  BY TruthfulStays DEF IInv
<1>4. \A o \in Operators : RunOK(run[o])'
  BY RunStays DEF IInv
<1> QED
  BY <1>1, <1>2, <1>3, <1>4 DEF IInv

\* The world changes, and with it one console goes on; what its record calls
\* done is the same.
LEMMA EffectKeepsIInv ==
    ASSUME IInv, NEW o \in Operators, NEW r \in Runs,
           run' = [run EXCEPT ![o] = r], UNCHANGED record,
           WorldGrows, WorldOK', PublicIsWhole',
           r.rec.done = run[o].rec.done, r.rec.state = run[o].rec.state,
           run[o].rec.receipt => r.rec.receipt,
           InOrder(r),
           r.pc \in {"written", "attached"} => file',
           r.pc = "attached" => Receipt \in remote'
    PROVE  IInv'
<1>1. run'[o] = r /\ record' \in Records
  BY TypeParts DEF IInv
<1>2. Truthful(record)'
  BY TruthfulStays DEF IInv
<1>3. Truthful(run[o].rec)
  BY DEF IInv, RunOK
<1>4. Truthful(run[o].rec)'
  BY <1>1, <1>3 DEF Truthful, Done, WorldGrows
<1>5. InOrder(run[o])' /\ ReceiptLast(run[o])'
  BY <1>1 DEF InOrder, ReceiptLast
<1> QED
  BY <1>1, <1>2, <1>4, <1>5, MoveKeepsIInv DEF RunOK

\* The effect of one step, to be confirmed.
LEMMA PerformsKeepsIInv ==
    ASSUME IInv, NEW o \in Operators, NEW n \in 1 .. 8, At(o, n),
           run' = [run EXCEPT ![o].pc = "performed"], UNCHANGED record,
           WorldGrows, WorldOK', release' = "public" => release = "public"
    PROVE  IInv'
<1> DEFINE old == run[o]
           r == [old EXCEPT !.pc = "performed"]
<1>1. old \in Runs /\ RunOK(old)
  BY TypeParts DEF IInv
<1>2. old.pc = "step" /\ old.step = n /\ n > old.rec.done /\ run' = [run EXCEPT ![o] = r]
  BY DEF At
<1> HIDE DEF old
<1>3. old.rec.done \in 0 .. 8 /\ old.step <= old.rec.done + 1
  BY <1>1, <1>2 DEF Runs, Records, RunOK, InOrder
<1>4. r \in Runs /\ r.pc = "performed" /\ r.step = n /\ r.rec = old.rec
  BY <1>1, <1>2 DEF Runs
<1> HIDE DEF r
<1>5. n = old.rec.done + 1
  BY <1>2, <1>3
<1>6. InOrder(r)
  BY <1>4, <1>5 DEF InOrder
<1>7. PublicIsWhole'
  BY WholeStays
<1>8. r.rec = run[o].rec
  BY <1>4 DEF old
<1>9. r.pc \notin {"written", "attached"}
  BY <1>4
<1> QED
  BY <1>2, <1>4, <1>6, <1>7, <1>8, <1>9, EffectKeepsIInv

LEMMA StepsArePerformed ==
    ASSUME IInv, NEW o \in Operators,
           \/ Promote(o) \/ EnsureTag(o) \/ PushBranch(o) \/ PushTag(o)
           \/ EnsureRelease(o) \/ UploadAssets(o) \/ VerifyAssets(o)
    PROVE  IInv'
<1> USE DEF RELEASE_COMMIT_CREATED, TAG_CREATED, BRANCH_PUSHED, TAG_PUSHED, GITHUB_RELEASE_CREATED,
            PRIMARY_ASSETS_UPLOADED, COMPONENT_ASSETS_VERIFIED
<1>1. WorldOK
  BY TypeParts DEF IInv
<1>2. ASSUME NEW n \in 1 .. 8, Performs(o, n),
             WorldGrows, WorldOK', release' = "public" => release = "public"
      PROVE  IInv'
  BY <1>2, PerformsKeepsIInv DEF Performs
<1>3. CASE Promote(o)
  <2>1. WorldGrows /\ WorldOK' /\ UNCHANGED release
    BY <1>1, <1>3 DEF Promote, WorldGrows, WorldOK, github
  <2> QED
    BY <1>2, <1>3, <2>1 DEF Promote
<1>4. CASE EnsureTag(o)
  <2>1. WorldGrows /\ WorldOK' /\ UNCHANGED release
    BY <1>1, <1>4 DEF EnsureTag, WorldGrows, WorldOK, github
  <2> QED
    BY <1>2, <1>4, <2>1 DEF EnsureTag
<1>5. CASE PushBranch(o)
  <2>1. WorldGrows /\ WorldOK' /\ UNCHANGED release
    BY <1>1, <1>5 DEF PushBranch, WorldGrows, WorldOK, local
  <2> QED
    BY <1>2, <1>5, <2>1 DEF PushBranch
<1>6. CASE PushTag(o)
  <2>1. WorldGrows /\ WorldOK' /\ UNCHANGED release
    BY <1>1, <1>6 DEF PushTag, WorldGrows, WorldOK, local
  <2> QED
    BY <1>2, <1>6, <2>1 DEF PushTag
<1>7. CASE EnsureRelease(o)
  <2>1. WorldGrows /\ WorldOK' /\ (release' = "public" => release = "public")
    BY <1>1, <1>7 DEF EnsureRelease, WorldGrows, WorldOK, local
  <2> QED
    BY <1>2, <1>7, <2>1 DEF EnsureRelease
<1>8. CASE UploadAssets(o)
  <2>1. At(o, 6) /\ UNCHANGED <<local, branch, rtag, release, record>>
    BY <1>8 DEF UploadAssets
  <2>2. CASE UNCHANGED remote /\ run' = [run EXCEPT ![o].pc = "performed"]
    <3>1. WorldGrows /\ WorldOK'
      BY <1>1, <2>1, <2>2 DEF WorldGrows, WorldOK, local
    <3>2. 6 \in 1 .. 8 /\ UNCHANGED <<record, release>>
      BY <2>1
    <3> QED
      BY <2>1, <2>2, <3>1, <3>2, PerformsKeepsIInv
  <2>3. CASE UNCHANGED run /\ \E a \in Assets \ remote : remote' = remote \cup {a}
    <3>1. WorldGrows /\ WorldOK'
      BY <1>1, <2>1, <2>3 DEF WorldGrows, WorldOK, local
    <3>2. UNCHANGED <<record, run, release>>
      BY <2>1, <2>3
    <3> QED
      BY <3>1, <3>2, WorldKeepsIInv
  <2> QED
    BY <1>8, <2>2, <2>3 DEF UploadAssets
<1>9. CASE VerifyAssets(o)
  <2>1. WorldGrows /\ WorldOK' /\ UNCHANGED release
    BY <1>1, <1>9 DEF VerifyAssets, WorldGrows, WorldOK, local, github
  <2> QED
    BY <1>2, <1>9, <2>1 DEF VerifyAssets
<1> QED
  BY <1>3, <1>4, <1>5, <1>6, <1>7, <1>8, <1>9
\* The parts of the last step: the receipt is written, attached, and then the
\* release is made public.
LEMMA WriteReceiptKeepsIInv ==
    ASSUME IInv, NEW o \in Operators, WriteReceipt(o)
    PROVE  IInv'
<1> DEFINE old == run[o]
           rec == [old.rec EXCEPT !.receipt = TRUE]
           r == [old EXCEPT !.pc = "written", !.rec = rec]
<1>1. old \in Runs /\ RunOK(old)
  BY TypeParts DEF IInv
<1>2. /\ old.pc = "step" /\ old.step = 8 /\ 8 > old.rec.done
      /\ run' = [run EXCEPT ![o] = r]
      /\ file' = TRUE
      /\ UNCHANGED <<head, tag, github, record>>
  BY DEF WriteReceipt, At, RECEIPT_ATTACHED
<1> HIDE DEF old
<1>3. old.rec \in Records /\ old.rec.done \in 0 .. 8 /\ old.step <= old.rec.done + 1
  BY <1>1, <1>2 DEF Runs, Records, RunOK, InOrder
<1>4. rec \in Records /\ rec.done = old.rec.done /\ rec.state = old.rec.state /\ rec.receipt = TRUE
  BY <1>3 DEF Records
<1> HIDE DEF rec
<1>5. r \in Runs /\ r.pc = "written" /\ r.step = 8 /\ r.rec = rec
  BY <1>1, <1>2, <1>4 DEF Runs
<1> HIDE DEF r
<1>6. old.rec.done = 7
  BY <1>2, <1>3
<1>7. InOrder(r)
  BY <1>4, <1>5, <1>6 DEF InOrder
<1>8. WorldGrows /\ WorldOK' /\ UNCHANGED release
  BY <1>2, TypeParts DEF IInv, WorldGrows, WorldOK, github
<1>9. PublicIsWhole'
  BY <1>8, WholeStays
<1>10. r.rec.done = run[o].rec.done /\ r.rec.state = run[o].rec.state /\ r.rec.receipt
  BY <1>4, <1>5 DEF old
<1> QED
  BY <1>2, <1>5, <1>7, <1>8, <1>9, <1>10, EffectKeepsIInv

LEMMA AttachReceiptKeepsIInv ==
    ASSUME IInv, NEW o \in Operators, AttachReceipt(o)
    PROVE  IInv'
<1> DEFINE old == run[o]
           r == [old EXCEPT !.pc = "attached"]
<1>1. old \in Runs /\ RunOK(old)
  BY TypeParts DEF IInv
<1>2. /\ old.pc = "written"
      /\ run' = [run EXCEPT ![o] = r]
      /\ remote' = remote \cup {Receipt}
      /\ UNCHANGED <<local, branch, rtag, release, record>>
  BY DEF AttachReceipt, Goes
<1> HIDE DEF old
<1>3. r \in Runs /\ r.pc = "attached" /\ r.step = old.step /\ r.rec = old.rec
  BY <1>1 DEF Runs
<1> HIDE DEF r
<1>4. old.step = 8 /\ old.rec.done = 7 /\ file
  BY <1>1, <1>2 DEF RunOK, InOrder, ReceiptLast
<1>5. InOrder(r)
  BY <1>3, <1>4 DEF InOrder
<1>6. WorldGrows /\ WorldOK' /\ UNCHANGED release /\ file' /\ Receipt \in remote'
  BY <1>2, <1>4, TypeParts DEF IInv, WorldGrows, WorldOK, local
<1>7. PublicIsWhole'
  BY <1>6, WholeStays
<1>8. r.rec = run[o].rec
  BY <1>3 DEF old
<1> QED
  BY <1>2, <1>3, <1>5, <1>6, <1>7, <1>8, EffectKeepsIInv

LEMMA PublishReleaseKeepsIInv ==
    ASSUME IInv, NEW o \in Operators, PublishRelease(o)
    PROVE  IInv'
<1> DEFINE old == run[o]
           r == [old EXCEPT !.pc = "performed"]
<1>1. old \in Runs /\ RunOK(old)
  BY TypeParts DEF IInv
<1>2. /\ old.pc = "attached"
      /\ run' = [run EXCEPT ![o] = r]
      /\ release' = "public"
      /\ UNCHANGED <<local, branch, rtag, remote, record>>
  BY DEF PublishRelease, Goes
<1> HIDE DEF old
<1>3. r \in Runs /\ r.pc = "performed" /\ r.step = old.step /\ r.rec = old.rec
  BY <1>1 DEF Runs
<1> HIDE DEF r
<1>4. old.step = 8 /\ old.rec.done = 7 /\ file /\ Receipt \in remote
  BY <1>1, <1>2 DEF RunOK, InOrder, ReceiptLast
<1>5. InOrder(r)
  BY <1>3, <1>4 DEF InOrder
<1>6. rtag = "ours" /\ branch /\ Assets \subseteq remote
  BY <1>1, <1>4 DEF RunOK, Truthful, Done, BRANCH_PUSHED, TAG_PUSHED, PRIMARY_ASSETS_UPLOADED
<1>7. WorldGrows /\ WorldOK'
  BY <1>2, TypeParts DEF IInv, WorldGrows, WorldOK, local
<1>8. PublicIsWhole'
  BY <1>2, <1>4, <1>6, <1>7 DEF PublicIsWhole, WorldOK, local
<1>9. r.rec = run[o].rec /\ r.pc \notin {"written", "attached"}
  BY <1>3 DEF old
<1> QED
  BY <1>2, <1>3, <1>5, <1>7, <1>8, <1>9, EffectKeepsIInv

-----------------------------------------------------------------------------
(* Steps that change a console's record, or write it.                      *)

\* The independent verification of a step shows that it has been done.
LEMMA VerifiedMeans ==
    ASSUME WorldOK, NEW rec, NEW n \in 1 .. 8, Done(n - 1), Verifies(n, rec)
    PROVE  Done(n) /\ (n >= RECEIPT_ATTACHED => rec.receipt)
<1> USE DEF RELEASE_COMMIT_CREATED, TAG_CREATED, BRANCH_PUSHED, TAG_PUSHED, GITHUB_RELEASE_CREATED,
            PRIMARY_ASSETS_UPLOADED, COMPONENT_ASSETS_VERIFIED, RECEIPT_ATTACHED
<1>1. CASE n = 1
  BY <1>1 DEF Done
<1>2. CASE n = 2
  BY <1>2 DEF Done, Verifies
<1>3. CASE n = 3
  BY <1>3 DEF Done, Verifies
<1>4. CASE n = 4
  BY <1>4 DEF Done, Verifies
<1>5. CASE n = 5
  BY <1>5 DEF Done, Verifies
<1>6. CASE n = 6
  BY <1>6 DEF Done, Verifies
<1>7. CASE n = 7
  BY <1>7 DEF Done
<1>8. CASE n = 8
  BY <1>8 DEF Done, Verifies
<1> QED
  BY <1>1, <1>2, <1>3, <1>4, <1>5, <1>6, <1>7, <1>8

LEMMA ConfirmKeepsIInv ==
    ASSUME IInv, NEW o \in Operators, Confirm(o)
    PROVE  IInv'
<1> DEFINE old == run[o]
           rec == [old.rec EXCEPT !.state = "going", !.done = old.step]
           r == [old EXCEPT !.pc = "save", !.rec = rec]
<1>1. old \in Runs /\ RunOK(old)
  BY TypeParts DEF IInv
<1>2. /\ old.pc = "performed" /\ Verifies(old.step, old.rec)
      /\ run' = [run EXCEPT ![o] = r]
      /\ UNCHANGED <<local, github, record>>
  BY DEF Confirm
<1> HIDE DEF old
<1>3. old.rec \in Records /\ old.rec.done \in 0 .. 8
      /\ old.step \in 1 .. 8 /\ old.step = old.rec.done + 1
  BY <1>1, <1>2 DEF Runs, Records, RunOK, InOrder
<1>4. rec \in Records /\ rec.done = old.step /\ rec.state = "going" /\ rec.receipt = old.rec.receipt
  <2>1. old.step \in 0 .. 8
    BY <1>3
  <2> QED
    BY <1>3, <2>1 DEF Records
<1> HIDE DEF rec
<1>5. r \in Runs /\ r.pc = "save" /\ r.step = old.step /\ r.rec = rec
  BY <1>1, <1>4 DEF Runs
<1> HIDE DEF r
<1>6. old.step - 1 = old.rec.done /\ Done(old.rec.done) /\ WorldOK
  BY <1>1, <1>3, TypeParts DEF RunOK, Truthful, IInv
<1>7. Done(old.step) /\ (old.step >= RECEIPT_ATTACHED => old.rec.receipt)
  BY <1>2, <1>3, <1>6, VerifiedMeans
<1>8. Truthful(rec)
  BY <1>4, <1>7 DEF Truthful
<1>9. RunOK(r)
  BY <1>4, <1>5, <1>8 DEF RunOK, InOrder, ReceiptLast
<1> QED
  BY <1>2, <1>5, <1>9, LocalKeepsIInv

LEMMA CompleteKeepsIInv ==
    ASSUME IInv, NEW o \in Operators, Complete(o)
    PROVE  IInv'
<1> DEFINE old == run[o]
           rec == [old.rec EXCEPT !.state = "complete"]
           r == [old EXCEPT !.pc = "save", !.rec = rec]
<1>1. old \in Runs /\ RunOK(old)
  BY TypeParts DEF IInv
<1>2. /\ old.pc = "step" /\ old.step > 8
      /\ run' = [run EXCEPT ![o] = r]
      /\ UNCHANGED <<local, github, record>>
  BY DEF Complete, RECEIPT_ATTACHED
<1> HIDE DEF old
<1>3. old.rec \in Records /\ old.rec.done \in 0 .. 8
      /\ old.step \in 1 .. 9 /\ old.step <= old.rec.done + 1
  BY <1>1, <1>2 DEF Runs, Records, RunOK, InOrder
<1>4. old.rec.done = 8
  BY <1>2, <1>3
<1>5. rec \in Records /\ rec.done = 8 /\ rec.state = "complete" /\ rec.receipt = old.rec.receipt
  BY <1>3, <1>4 DEF Records
<1> HIDE DEF rec
<1>6. r \in Runs /\ r.pc = "save" /\ r.step = old.step /\ r.rec = rec
  BY <1>1, <1>5 DEF Runs
<1> HIDE DEF r
<1>7. Truthful(rec)
  BY <1>1, <1>4, <1>5 DEF RunOK, Truthful, RECEIPT_ATTACHED
<1>8. RunOK(r)
  BY <1>5, <1>6, <1>7 DEF RunOK, InOrder, ReceiptLast
<1> QED
  BY <1>2, <1>6, <1>8, LocalKeepsIInv

LEMMA FailKeepsIInv ==
    ASSUME IInv, NEW o \in Operators, Fail(o)
    PROVE  IInv'
<1> DEFINE old == run[o]
           rec == [old.rec EXCEPT !.state = "failed"]
           stuck == old.pc = "step" /\ old.step <= old.rec.done /\ ~Verifies(old.step, old.rec)
           r == [old EXCEPT !.pc = "save", !.rec = rec, !.blocked = stuck]
<1>1. old \in Runs /\ RunOK(old)
  BY TypeParts DEF IInv
<1>2. run' = [run EXCEPT ![o] = r] /\ UNCHANGED <<local, github, record>>
  BY DEF Fail
<1> HIDE DEF old
<1>3. old.rec \in Records /\ stuck \in BOOLEAN
  BY <1>1 DEF Runs
<1> HIDE DEF stuck
<1>4. rec \in Records /\ rec.done = old.rec.done /\ rec.state = "failed" /\ rec.receipt = old.rec.receipt
  BY <1>3 DEF Records
<1> HIDE DEF rec
<1>5. r \in Runs /\ r.pc = "save" /\ r.rec = rec
  BY <1>1, <1>3, <1>4 DEF Runs
<1> HIDE DEF r
<1>6. Truthful(rec)
  BY <1>1, <1>4 DEF RunOK, Truthful
<1>7. RunOK(r)
  BY <1>4, <1>5, <1>6 DEF RunOK, InOrder, ReceiptLast
<1> QED
  BY <1>2, <1>5, <1>7, LocalKeepsIInv

LEMMA LookKeepsIInv ==
    ASSUME IInv, NEW o \in Operators, Look(o)
    PROVE  IInv'
<1> DEFINE old == run[o]
           r == [old EXCEPT !.pc = "saving"]
<1>1. old \in Runs /\ RunOK(old)
  BY TypeParts DEF IInv
<1>2. CASE run' = [run EXCEPT ![o] = Idle]
  <2>1. Truthful(Absent)
    BY Blank, NothingDone
  <2>2. RunOK(Idle)
    BY <2>1, Blank DEF RunOK, InOrder, ReceiptLast
  <2> QED
    BY <1>2, <2>2, Blank, LocalKeepsIInv DEF Look
<1>3. CASE run' = [run EXCEPT ![o] = r]
  <2>1. old.pc = "save" /\ UNCHANGED <<local, github, record>>
    BY DEF Look
  <2> HIDE DEF old
  <2>2. r \in Runs /\ r.pc = "saving" /\ r.step = old.step /\ r.rec = old.rec
    BY <1>1 DEF Runs
  <2> HIDE DEF r
  <2>3. RunOK(r)
    BY <1>1, <2>1, <2>2 DEF RunOK, InOrder, ReceiptLast
  <2> QED
    BY <1>3, <2>1, <2>2, <2>3, LocalKeepsIInv
<1> QED
  BY <1>2, <1>3 DEF Look

LEMMA CrashKeepsIInv ==
    ASSUME IInv, NEW o \in Operators, Crash(o)
    PROVE  IInv'
<1>1. Truthful(Absent)
  BY Blank, NothingDone
<1>2. RunOK(Idle)
  BY <1>1, Blank DEF RunOK, InOrder, ReceiptLast
<1> QED
  BY <1>2, Blank, LocalKeepsIInv DEF Crash

LEMMA SaveKeepsIInv ==
    ASSUME IInv, NEW o \in Operators, Save(o)
    PROVE  IInv'
<1> DEFINE old == run[o]
           onward == [old EXCEPT !.pc = "step", !.step = @ + 1]
           ends == old.rec.state \in {"failed", "complete"}
           r == IF ends THEN Idle ELSE onward
<1>1. old \in Runs /\ RunOK(old)
  BY TypeParts DEF IInv
<1>2. old.pc = "saving" /\ record' = old.rec
      /\ run' = [run EXCEPT ![o] = r] /\ UNCHANGED <<local, github>>
  BY DEF Save
<1> HIDE DEF old
<1>3. old.rec \in Records /\ old.rec.done \in 0 .. 8 /\ Truthful(old.rec)
  BY <1>1 DEF Runs, Records, RunOK
<1>4. r \in Runs /\ RunOK(r)
  <2>1. CASE ends
    <3>1. Truthful(Absent)
      BY Blank, NothingDone
    <3>2. RunOK(Idle)
      BY <3>1, Blank DEF RunOK, InOrder, ReceiptLast
    <3> QED
      BY <2>1, <3>2, Blank
  <2>2. CASE ~ends
    <3>1. old.step = old.rec.done /\ old.step + 1 \in 0 .. 9
      BY <1>1, <1>2, <1>3, <2>2 DEF RunOK, InOrder
    <3>2. /\ onward \in Runs /\ onward.pc = "step"
          /\ onward.step = old.step + 1 /\ onward.rec = old.rec
      BY <1>1, <3>1 DEF Runs
    <3> HIDE DEF onward
    <3>3. RunOK(onward)
      BY <1>3, <3>1, <3>2 DEF RunOK, InOrder, ReceiptLast
    <3> QED
      BY <2>2, <3>2, <3>3
  <2> QED
    BY <2>1, <2>2
<1> HIDE DEF r
<1>5. run'[o] = r
  BY <1>2, TypeParts DEF IInv
<1>6. WorldGrows /\ WorldOK'
  BY <1>2, TypeParts DEF IInv, WorldGrows, WorldOK, local, github
<1>7. Truthful(record)'
  BY <1>2, <1>3 DEF Truthful, Done, local, github
<1>8. PublicIsWhole'
  BY <1>2 DEF IInv, PublicIsWhole, local, github
<1>9. RunOK(run[o])'
  BY <1>2, <1>4, <1>5 DEF RunOK, Truthful, Done, InOrder, ReceiptLast, local, github
<1> QED
  BY <1>2, <1>3, <1>4, <1>6, <1>7, <1>8, <1>9, MoveKeepsIInv

LEMMA MoveHeadKeepsIInv ==
    ASSUME IInv, MoveHead
    PROVE  IInv'
<1>1. WorldGrows /\ WorldOK' /\ UNCHANGED <<release, record, run>>
  BY TypeParts DEF IInv, MoveHead, WorldGrows, WorldOK, github
<1> QED
  BY <1>1, WorldKeepsIInv

\* A step that changes nothing.
LEMMA StutterKeepsIInv ==
    ASSUME IInv, UNCHANGED vars
    PROVE  IInv'
<1>1. WorldGrows /\ WorldOK' /\ UNCHANGED <<release, record, run>>
  BY TypeParts DEF IInv, vars, local, github, WorldGrows, WorldOK
<1> QED
  BY <1>1, WorldKeepsIInv

\* The inductive invariant: records, consoles and the world agree, however
\* publish_start and publish_resume overlap, fail and end.
THEOREM Invariance == Spec => []IInv
<1>1. ASSUME IInv, NEW o \in Operators, Resume(o)
      PROVE  IInv'
  <2>1. CASE Start(o)
    BY <1>1, <2>1, StartKeepsIInv
  <2>2. CASE Reverify(o)
    BY <1>1, <2>2, ReverifyKeepsIInv
  <2>3. CASE Perform(o)
    BY <1>1, <2>3, StepsArePerformed, WriteReceiptKeepsIInv, AttachReceiptKeepsIInv,
       PublishReleaseKeepsIInv DEF Perform
  <2>4. CASE Confirm(o)
    BY <1>1, <2>4, ConfirmKeepsIInv
  <2>5. CASE Complete(o)
    BY <1>1, <2>5, CompleteKeepsIInv
  <2>6. CASE Fail(o)
    BY <1>1, <2>6, FailKeepsIInv
  <2>7. CASE Look(o)
    BY <1>1, <2>7, LookKeepsIInv
  <2>8. CASE Save(o)
    BY <1>1, <2>8, SaveKeepsIInv
  <2>9. CASE Crash(o)
    BY <1>1, <2>9, CrashKeepsIInv
  <2> QED
    BY <1>1, <2>1, <2>2, <2>3, <2>4, <2>5, <2>6, <2>7, <2>8, <2>9 DEF Resume
<1>2. IInv /\ [Next]_vars => IInv'
  BY <1>1, MoveHeadKeepsIInv, StutterKeepsIInv DEF Next
<1>3. Init => IInv
  BY InitKeepsIInv
<1> QED
  BY <1>2, <1>3, PTL DEF Spec

\* publish_resume makes the release public only when it is whole, whatever
\* failed and however two consoles overlapped.
THEOREM ReleasesAreWhole == Spec => []PublicIsWhole
<1>1. IInv => PublicIsWhole
  BY DEF IInv
<1> QED
  BY <1>1, Invariance, PTL

\* The record that publish_resume goes by is never ahead of git and GitHub.
THEOREM RecordsAreTruthful == Spec => []RecordTruthful
<1>1. IInv => RecordTruthful
  BY DEF IInv, RecordTruthful, Truthful, Done
<1> QED
  BY <1>1, Invariance, PTL

\* Every variable of the publication keeps its type.
THEOREM PublicationTypeCorrect == Spec => []TypeOK
<1>1. IInv => TypeOK
  BY DEF IInv
<1> QED
  BY <1>1, Invariance, PTL
=============================================================================
