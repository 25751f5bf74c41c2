----------------------------- MODULE Publication -----------------------------
(***************************************************************************)
(* The publication of one sealed candidate (deployment/convergence/          *)
(* services.py, publish_start and publish_resume): eight steps in git and    *)
(* GitHub, each verified independently and recorded in a receipt on the      *)
(* operator's machine, and resumed after a failure or a crash by verifying   *)
(* every recorded step again.  No lock keeps two consoles from working on    *)
(* one publication.                                                          *)
(*                                                                           *)
(* Simplified: the candidate stays intact, and its branch is checked out     *)
(* (not a detached worktree); a remote object has the candidate's bytes or   *)
(* is another one; the public receipt is written in one step, and, its time  *)
(* of recording being part of it, a second attempt never writes the same.    *)
(***************************************************************************)
EXTENDS Naturals, FiniteSets

CONSTANTS
    Operators,   \* consoles that run publish_start and publish_resume
    Assets,      \* the sealed release-set inventory
    Receipt      \* the public receipt as a release asset

ASSUME ReceiptAssumption == Receipt \notin Assets

RELEASE_COMMIT_CREATED == 1
TAG_CREATED == 2
BRANCH_PUSHED == 3
TAG_PUSHED == 4
GITHUB_RELEASE_CREATED == 5
PRIMARY_ASSETS_UPLOADED == 6
COMPONENT_ASSETS_VERIFIED == 7
RECEIPT_ATTACHED == 8

VARIABLES
    head,      \* the checked-out commit
    tag,       \* the local tag exists
    branch,    \* the remote branch has the candidate
    rtag,      \* the tag at the remote
    release,   \* the GitHub release
    remote,    \* its assets
    file,      \* the public receipt exists on the operator's machine
    record,    \* the publication record
    run        \* each operator's publish_resume

local == <<head, tag, file>>
github == <<branch, rtag, release, remote>>
vars == <<local, github, record, run>>

(* A record: its state ("going" is the state of the last completed step),    *)
(* the number of completed steps, and whether it names the public receipt.   *)
Records == [state: {"absent", "validated", "going", "failed", "complete"},
            done: 0 .. 8, receipt: BOOLEAN]

TypeOK ==
    /\ head \in {"base", "candidate", "later"}
    /\ tag \in BOOLEAN
    /\ branch \in BOOLEAN
    /\ rtag \in {"none", "ours", "other"}
    /\ release \in {"none", "draft", "public"}
    /\ remote \subseteq Assets \cup {Receipt}
    /\ file \in BOOLEAN
    /\ record \in Records
    /\ run \in [Operators ->
            [pc: {"idle", "step", "written", "attached", "performed", "save", "saving"},
             step: 0 .. 9, rec: Records, blocked: BOOLEAN]]

Absent == [state |-> "absent", done |-> 0, receipt |-> FALSE]
Idle == [pc |-> "idle", step |-> 0, rec |-> Absent, blocked |-> FALSE]

(* The tag may have been pushed for another commit, from another machine.    *)
Init ==
    /\ head = "base"
    /\ tag = FALSE
    /\ branch = FALSE
    /\ rtag \in {"none", "other"}
    /\ release = "none"
    /\ remote = {}
    /\ file = FALSE
    /\ record = Absent
    /\ run = [o \in Operators |-> Idle]

\* verify_step: only a draft with exactly these assets is what it was
Verifies(step, rec) ==
    CASE step = RELEASE_COMMIT_CREATED -> head = "candidate"
      [] step = TAG_CREATED -> tag
      [] step = BRANCH_PUSHED -> branch
      [] step = TAG_PUSHED -> rtag = "ours"
      [] step = GITHUB_RELEASE_CREATED -> release = "draft"
      [] step \in {PRIMARY_ASSETS_UPLOADED, COMPONENT_ASSETS_VERIFIED} -> remote = Assets
      [] step = RECEIPT_ATTACHED ->
            rec.receipt /\ remote = Assets \cup {Receipt} /\ release = "public"

Goes(o, from, to) ==
    /\ run[o].pc = from
    /\ run' = [run EXCEPT ![o].pc = to]

(* publish_start writes the record, and goes on as publish_resume.           *)
Start(o) ==
    LET first == [Absent EXCEPT !.state = "validated"]
        rec == IF record = Absent THEN first ELSE record
    IN  /\ run[o].pc = "idle"
        /\ record' = rec
        /\ run' = [run EXCEPT ![o] = [Idle EXCEPT !.pc = "step", !.step = 1, !.rec = rec]]
        /\ UNCHANGED <<local, github>>

Reverify(o) ==
    /\ run[o].pc = "step"
    /\ run[o].step <= run[o].rec.done
    /\ Verifies(run[o].step, run[o].rec)
    /\ run' = [run EXCEPT ![o].step = @ + 1]
    /\ UNCHANGED <<local, github, record>>

(* require_transition; a failed record may go on anywhere.                   *)
Legal(rec, step) == rec.state = "going" => rec.done + 1 = step

At(o, step) ==
    /\ run[o].pc = "step"
    /\ run[o].step = step
    /\ step > run[o].rec.done
    /\ Legal(run[o].rec, step)

Performs(o, step) ==
    /\ At(o, step)
    /\ run' = [run EXCEPT ![o].pc = "performed"]
    /\ UNCHANGED record

Promote(o) ==
    /\ Performs(o, RELEASE_COMMIT_CREATED)
    /\ head \in {"base", "candidate"}
    /\ head' = "candidate"
    /\ UNCHANGED <<tag, file, github>>

EnsureTag(o) ==
    /\ Performs(o, TAG_CREATED)
    /\ tag' = TRUE
    /\ UNCHANGED <<head, file, github>>

PushBranch(o) ==
    /\ Performs(o, BRANCH_PUSHED)
    /\ branch' = (branch \/ head \in {"candidate", "later"})
    /\ UNCHANGED <<local, rtag, release, remote>>

PushTag(o) ==
    /\ Performs(o, TAG_PUSHED)
    /\ rtag # "other"
    /\ rtag' = "ours"
    /\ UNCHANGED <<local, branch, release, remote>>

(* A release of this tag that is there already is taken over.                *)
EnsureRelease(o) ==
    /\ Performs(o, GITHUB_RELEASE_CREATED)
    /\ release' = IF release = "none" THEN "draft" ELSE release
    /\ UNCHANGED <<local, branch, rtag, remote>>

(* gh uploads the missing assets one after the other, and may stop at any.   *)
UploadAssets(o) ==
    /\ At(o, PRIMARY_ASSETS_UPLOADED)
    /\ IF Assets \subseteq remote
       THEN /\ run' = [run EXCEPT ![o].pc = "performed"]
            /\ UNCHANGED remote
       ELSE /\ \E a \in Assets \ remote : remote' = remote \cup {a}
            /\ UNCHANGED run
    /\ UNCHANGED <<local, branch, rtag, release, record>>

VerifyAssets(o) ==
    /\ Performs(o, COMPONENT_ASSETS_VERIFIED)
    /\ remote = Assets
    /\ UNCHANGED <<local, github>>

(* An existing public receipt is of another time, and conflicts.             *)
WriteReceipt(o) ==
    /\ At(o, RECEIPT_ATTACHED)
    /\ ~file
    /\ file' = TRUE
    /\ run' = [run EXCEPT ![o] = [@ EXCEPT
            !.pc = "written", !.rec = [run[o].rec EXCEPT !.receipt = TRUE]]]
    /\ UNCHANGED <<head, tag, github, record>>

\* gh refuses to upload an asset of a name the release has
AttachReceipt(o) ==
    /\ Goes(o, "written", "attached")
    /\ Receipt \notin remote
    /\ remote' = remote \cup {Receipt}
    /\ UNCHANGED <<local, branch, rtag, release, record>>

\* Mutant of PublishRelease: the release may go public before it has the receipt.
PublishReleaseEarly(o) ==
    /\ run[o].pc \in {"written", "attached"}
    /\ run' = [run EXCEPT ![o].pc = "performed"]
    /\ release' = "public"
    /\ UNCHANGED <<local, branch, rtag, remote, record>>

PublishRelease(o) ==
    /\ Goes(o, "attached", "performed")
    /\ release' = "public"
    /\ UNCHANGED <<local, branch, rtag, remote, record>>

(* The step is verified, and goes to the record.                             *)
Confirm(o) ==
    LET step == run[o].step
    IN  /\ run[o].pc = "performed"
        /\ Verifies(step, run[o].rec)
        /\ run' = [run EXCEPT ![o] = [@ EXCEPT
                !.pc = "save", !.rec = [run[o].rec EXCEPT !.state = "going", !.done = step]]]
        /\ UNCHANGED <<local, github, record>>

Complete(o) ==
    /\ run[o].pc = "step"
    /\ run[o].step > RECEIPT_ATTACHED
    /\ run' = [run EXCEPT ![o] = [@ EXCEPT
            !.pc = "save", !.rec = [run[o].rec EXCEPT !.state = "complete"]]]
    /\ UNCHANGED <<local, github, record>>

\* Mutant of Fail: the failed step counts as completed.
FailCounted(o) ==
    LET r == run[o]
    IN  /\ r.pc \in {"written", "attached", "performed"}
        /\ run' = [run EXCEPT ![o].pc = "save", ![o].rec.state = "failed", ![o].rec.done = r.step]
        /\ UNCHANGED <<local, github, record>>

(* An exception anywhere, also of a command whose effect the remote kept: a  *)
(* timeout, a refusal, a verification that fails.                            *)
Fail(o) ==
    LET r == run[o]
    IN  /\ r.pc \in {"step", "written", "attached", "performed"}
        /\ run' = [run EXCEPT ![o] = [@ EXCEPT !.pc = "save",
                !.rec = [run[o].rec EXCEPT !.state = "failed"],
                !.blocked = r.pc = "step" /\ r.step <= r.rec.done /\ ~Verifies(r.step, r.rec)]]
        /\ UNCHANGED <<local, github, record>>

(* ReceiptStore.write refuses to replace a complete record.  The exception   *)
(* is caught, and the failure then cannot be written either.                 *)
Look(o) ==
    /\ run[o].pc = "save"
    /\ IF record.state = "complete"
       THEN run' = [run EXCEPT ![o] = Idle]
       ELSE run' = [run EXCEPT ![o].pc = "saving"]
    /\ UNCHANGED <<local, github, record>>

Save(o) ==
    LET rec == run[o].rec
    IN  /\ run[o].pc = "saving"
        /\ record' = rec
        /\ run' = [run EXCEPT ![o] =
                IF rec.state \in {"failed", "complete"} THEN Idle
                ELSE [run[o] EXCEPT !.pc = "step", !.step = @ + 1]]
        /\ UNCHANGED <<local, github>>

\* The console ends.
Crash(o) ==
    /\ run[o].pc # "idle"
    /\ run' = [run EXCEPT ![o] = Idle]
    /\ UNCHANGED <<local, github, record>>

(* Work on the branch goes on, or an operator checks the candidate out.      *)
MoveHead ==
    /\ head # "base"
    /\ head' \in {"candidate", "later"}
    /\ UNCHANGED <<tag, file, github, record, run>>

Perform(o) ==
    \/ Promote(o)
    \/ EnsureTag(o)
    \/ PushBranch(o)
    \/ PushTag(o)
    \/ EnsureRelease(o)
    \/ UploadAssets(o)
    \/ VerifyAssets(o)
    \/ WriteReceipt(o)
    \/ AttachReceipt(o)
    \/ PublishRelease(o)

Resume(o) ==
    \/ Start(o)
    \/ Reverify(o)
    \/ Perform(o)
    \/ Confirm(o)
    \/ Complete(o)
    \/ Fail(o)
    \/ Look(o)
    \/ Save(o)
    \/ Crash(o)

Next == (\E o \in Operators : Resume(o)) \/ MoveHead

Spec == Init /\ [][Next]_vars

(***************************************************************************)
(* Properties                                                               *)
(***************************************************************************)
(* Users see a release only whole: with its tag on the candidate, the branch *)
(* at the remote, every sealed asset and the public receipt, whatever failed *)
(* and however two consoles overlapped.                                      *)
PublicIsWhole ==
    release = "public" =>
        rtag = "ours" /\ branch /\ remote = Assets \cup {Receipt} /\ file

(* The record is never ahead of the world: what it calls completed has been  *)
(* done and is still so, also when another console has gone further.         *)
RecordTruthful ==
    /\ record.done >= TAG_CREATED => tag
    /\ record.done >= BRANCH_PUSHED => branch
    /\ record.done >= TAG_PUSHED => rtag = "ours"
    /\ record.done >= GITHUB_RELEASE_CREATED => release # "none"
    /\ record.done >= PRIMARY_ASSETS_UPLOADED => Assets \subseteq remote
    /\ record.done >= RECEIPT_ATTACHED => release = "public" /\ record.receipt
    /\ record.state = "complete" => record.done = RECEIPT_ATTACHED

(* "Resume first proves completed local/remote state still matches the       *)
(* candidate.  A mismatched ref, release, asset, tree, archive, or manifest  *)
(* is blocked": a resume is blocked by a mismatch only.                      *)
Matches ==
    /\ head = "candidate" /\ tag /\ branch
    /\ rtag = "ours"
    /\ release # "none"
    /\ Assets \subseteq remote

BlockedByMismatchOnly ==
    [][\A o \in Operators : run'[o].blocked /\ ~run[o].blocked => ~Matches]_vars
=============================================================================
