----------------------------- MODULE Publication -----------------------------
(***************************************************************************)
(* Publication approvals of one task: bin/project_publisher.py, the mp     *)
(* commands and the HUD request that call it, and the two host scripts     *)
(* that consume an approval, windows/Publish-MyPeopleProject.ps1 (the      *)
(* bridge) and windows/Invoke-MyPeopleSshPublication.ps1 (the broker).     *)
(*                                                                         *)
(* publish, finalize_draft_pr and _transition hold the lock of one record  *)
(* while they read it, work on the copy and write the copy back.           *)
(* create_approval holds another lock, the directory's, and unlinking      *)
(* holds none, so both interleave with the former between read and write.  *)
(*                                                                         *)
(* The task, project, repository and branches are fixed, so the mode is    *)
(* what is left of approval_logical_key; draft and merge-when-green        *)
(* approvals share the default head branch.  The statuses pending_approval *)
(* and validating are read but never written and are left out.             *)
(***************************************************************************)
EXTENDS Naturals

CONSTANTS
    Id,         \* identities secrets.token_hex can hand out
    NoId,
    Commit,
    NoCommit,   \* no task branch yet
    Asked,      \* bound: the modes Boss asks for
    Boss,       \* processes that run mp approve-publish
    Host,       \* host script runs
    MaxKills    \* bound: processes killed half-way

ASSUME IdAssumption == NoId \notin Id /\ NoCommit \notin Commit
ASSUME ProcessAssumption == Boss \cap Host = {} /\ "person" \notin Boss \cup Host
ASSUME BoundAssumption == MaxKills \in Nat

Green  == "pr_merge_when_green"
Mode   == {"direct_main", "draft_pr", Green}
ASSUME ModeAssumption == Asked \subseteq Mode
Active == {"pending", "approved", "branch_pushed", "pr_created", "waiting_checks",
           "merge_blocked"}
Status == Active \cup
    {"publishing", "published", "failed", "rejected", "superseded", "merged",
     "absent"}                                              \* no such file
Record == [status : Status, mode : Mode, commit : Commit \cup {NoCommit},
           checks : {"none", "pending", "failed", "passed"}]
NoRecord == [status |-> "absent", mode |-> "direct_main", commit |-> NoCommit,
             checks |-> "none"]

VARIABLES
    record,     \* the approval files
    used,       \* identities handed out
    expired,    \* approvals whose expiresAt has passed
    tip,        \* the remote task branch
    pr,         \* its pull request
    boss,       \* what each mp approve-publish is doing
    job,        \* what each host script and the person is doing
    landed,     \* history: <<i, where>>: what was pushed or merged for i
    pushes,     \* history: times publish() pushed for i
    decided,    \* history: <<i, verdict>>: what the CEO decided
    kills       \* bound counter

remote  == <<tip, pr, landed>>
history == <<pushes, decided>>
vars == <<record, used, expired, remote, boss, job, history, kills>>

Proc == Host \cup {"person"}

\* mp approve-publish; `old' holds the active records of the intent it listed.
BossJob == [pc : {"idle", "supersede", "resume", "unlink"},
            id : Id \cup {NoId}, mode : Mode, commit : Commit \cup {NoCommit},
            old : [Id -> Record]]
NoBossJob == [pc |-> "idle", id |-> NoId, mode |-> "direct_main", commit |-> NoCommit,
              old |-> [i \in Id |-> NoRecord]]

Op == {"none", "approve", "reject", "push", "pr", "passed", "pending", "failed",
       "merge", "finalize"}
\* A host script or a person: `op' is the transition it records, `copy' the
\* record it read under the record's lock.
Job == [pc : {"idle", "record", "write",
              "publish", "publishing", "git_push", "pushed", "push_failed",
              "draft", "check", "branch", "open", "checks", "merge"},
        id : Id \cup {NoId}, op : Op, copy : Record]
NoJob == [pc |-> "idle", id |-> NoId, op |-> "none", copy |-> NoRecord]

TypeOK ==
    /\ record \in [Id -> Record] /\ used \in SUBSET Id /\ expired \in SUBSET Id
    /\ tip \in Commit \cup {NoCommit}
    /\ pr \in {"none", "draft", "ready", "merged"}
    /\ boss \in [Boss -> BossJob] /\ job \in [Proc -> Job]
    /\ landed \in SUBSET (Id \X {"head", "main", "merge"})
    /\ pushes \in [Id -> Nat]
    /\ decided \in SUBSET (Id \X {"approve", "reject"})
    /\ kills \in 0 .. MaxKills

Init ==
    /\ record = [i \in Id |-> NoRecord] /\ used = {} /\ expired = {}
    /\ tip = NoCommit /\ pr = "none" /\ landed = {}
    /\ boss = [b \in Boss |-> NoBossJob] /\ job = [p \in Proc |-> NoJob]
    /\ pushes = [i \in Id |-> 0] /\ decided = {}
    /\ kills = 0

-----------------------------------------------------------------------------
(* mp approve-publish: approve_runtime and create_approval                 *)

BossAt(b, label) == boss[b].pc = label
BossGoto(b, label) ==
    boss' = [boss EXCEPT ![b] = IF label = "idle" THEN NoBossJob
                                ELSE [@ EXCEPT !.pc = label]]

\* Mutant: an approval that has expired is not replaced.
ConflictsUnexpired(rs, mode) ==
    {i \in Id : rs[i].status \in Active /\ rs[i].mode = mode /\ i \notin expired}

\* Records of the same publication intent that are still active in rs.
Conflicts(rs, mode) == {i \in Id : rs[i].status \in Active /\ rs[i].mode = mode}

Resuming(i) == [NoBossJob EXCEPT !.pc = "resume", !.id = i]

\* The card is in review with evidence.  Under the lock of the directory an
\* approval of the same commit that is still valid is returned as it is,
\* otherwise the listed ones are to be superseded.  The files are read in one
\* step here.
ListApprovals(b, mode, commit) ==
    LET listed == Conflicts(record, mode)
        same   == {i \in listed : record[i].commit = commit /\ i \notin expired}
    IN  /\ BossAt(b, "idle") /\ \A other \in Boss : ~BossAt(other, "supersede")
        /\ \/ \E i \in same : boss' = [boss EXCEPT ![b] = Resuming(i)]
           \/ /\ same = {}
              /\ boss' = [boss EXCEPT ![b] =
                    [NoBossJob EXCEPT !.pc = "supersede", !.mode = mode, !.commit = commit,
                        !.old = [i \in Id |-> IF i \in listed THEN record[i] ELSE NoRecord]]]
        /\ UNCHANGED <<record, used, expired, remote, job, history, kills>>

\* The copy that was listed is written back, whatever the file says by now.
Supersede(b, i) ==
    /\ BossAt(b, "supersede") /\ i \in Conflicts(boss[b].old, boss[b].mode)
    /\ record' = [record EXCEPT ![i] = [boss[b].old[i] EXCEPT !.status = "superseded"]]
    /\ boss' = [boss EXCEPT ![b].old[i] = NoRecord]
    /\ UNCHANGED <<used, expired, remote, job, history, kills>>

CreateApproval(b, i) ==
    /\ BossAt(b, "supersede") /\ Conflicts(boss[b].old, boss[b].mode) = {} /\ i \notin used
    /\ record' = [record EXCEPT ![i] =
                    [NoRecord EXCEPT !.status = "pending", !.mode = boss[b].mode,
                                     !.commit = boss[b].commit]]
    /\ used' = used \cup {i}
    /\ boss' = [boss EXCEPT ![b] = Resuming(i)]
    /\ UNCHANGED <<expired, remote, job, history, kills>>

\* POST /todo/status with the version of the card that was read.  It may be
\* refused, because the card has changed, or not be answered.
ResumeCard(b) ==
    /\ BossAt(b, "resume")
    /\ BossGoto(b, "idle") \/ BossGoto(b, "unlink")
    /\ UNCHANGED <<record, used, expired, remote, job, history, kills>>

UnlinkApproval(b) ==
    /\ BossAt(b, "unlink")
    /\ record' = [record EXCEPT ![boss[b].id] = NoRecord]
    /\ BossGoto(b, "idle")
    /\ UNCHANGED <<used, expired, remote, job, history, kills>>

-----------------------------------------------------------------------------
(* _transition and finalize_draft_pr                                       *)

At(p, label) == job[p].pc = label
Goto(p, label) ==
    job' = [job EXCEPT ![p] = IF label = "idle" THEN NoJob ELSE [@ EXCEPT !.pc = label]]

\* The lock of the record: nobody else is between its read and its write.
Unlocked(i) ==
    \A p \in Proc : job[p].id = i => job[p].pc \notin
        {"write", "publishing", "git_push", "pushed", "push_failed"}

\* Mutant: a publication whose branch was pushed can still be rejected.
ExpectedLate(op) ==
    CASE op = "approve" -> {"pending"}
      [] op = "reject"  -> {"pending", "approved", "branch_pushed"}
      [] op = "push"    -> {"approved"}
      [] op \in {"pr", "finalize"} -> {"branch_pushed"}
      [] op \in {"passed", "pending", "failed"} ->
            {"pr_created", "waiting_checks", "merge_blocked"}
      [] op = "merge"   -> {"waiting_checks"}

Expected(op) ==
    CASE op = "approve" -> {"pending"}
      [] op = "reject"  -> {"pending", "approved"}
      [] op = "push"    -> {"approved"}
      [] op \in {"pr", "finalize"} -> {"branch_pushed"}
      [] op \in {"passed", "pending", "failed"} ->
            {"pr_created", "waiting_checks", "merge_blocked"}
      [] op = "merge"   -> {"waiting_checks"}

\* Mutant: the state of the checks is taken for the status.
TargetRaw ==
    [approve |-> "approved", reject |-> "rejected", push |-> "branch_pushed",
     pr |-> "pr_created", finalize |-> "pr_created", merge |-> "merged",
     passed |-> "passed", pending |-> "waiting_checks",
     failed |-> "merge_blocked"]

Target ==
    [approve |-> "approved", reject |-> "rejected", push |-> "branch_pushed",
     pr |-> "pr_created", finalize |-> "pr_created", merge |-> "merged",
     passed |-> "waiting_checks", pending |-> "waiting_checks",
     failed |-> "merge_blocked"]

\* The validate function of each transition.
Valid(op, rec) ==
    /\ op = "pr" => rec.mode = Green
    /\ op = "finalize" => rec.mode = "draft_pr"
    /\ op = "merge" => rec.checks = "passed"

\* Where a caller continues: the broker asks for a new preflight, or merges.
After(op) ==
    CASE op \in {"push", "pr"} -> "check" [] op = "passed" -> "merge" [] OTHER -> "idle"

\* What _transition and finalize_draft_pr ask of the record they read.
MayRecord(i, op) ==
    /\ record[i].status \in Expected(op) /\ Valid(op, record[i])
    /\ i \notin expired \/ op \in {"reject", "finalize"}

RecordRead(p) ==
    LET i == job[p].id IN
    /\ At(p, "record") /\ Unlocked(i)
    /\ job' = [job EXCEPT ![p] = IF MayRecord(i, job[p].op)
                 THEN [@ EXCEPT !.pc = "write", !.copy = record[i]] ELSE NoJob]
    /\ UNCHANGED <<record, used, expired, remote, boss, history, kills>>

RecordWrite(p) ==
    LET i == job[p].id  op == job[p].op IN
    /\ At(p, "write")
    /\ record' = [record EXCEPT ![i] =
                    [job[p].copy EXCEPT !.status = Target[op],
                        !.checks = IF op \in {"passed", "pending", "failed"} THEN op ELSE @]]
    /\ decided' = IF op \in {"approve", "reject"} THEN decided \cup {<<i, op>>} ELSE decided
    /\ job' = [job EXCEPT ![p] =
                 IF After(op) = "idle" THEN NoJob
                 ELSE [NoJob EXCEPT !.pc = After(op), !.id = i,
                         !.copy = IF After(op) = "merge" THEN job[p].copy ELSE NoRecord]]
    /\ UNCHANGED <<used, expired, remote, boss, pushes, kills>>

\* A host script that has an outcome records it.
ToRecord(h, op) ==
    job' = [job EXCEPT ![h] = [@ EXCEPT !.pc = "record", !.op = op, !.copy = NoRecord]]

\* The CEO decides in the HUD, which names any approval; an operator records
\* checks by hand.
Decide(i, op) ==
    /\ At("person", "idle") /\ op \in {"approve", "reject", "pending", "failed"}
    /\ Unlocked(i) /\ MayRecord(i, op)
    /\ job' = [job EXCEPT !["person"] =
                 [NoJob EXCEPT !.pc = "write", !.id = i, !.op = op, !.copy = record[i]]]
    /\ UNCHANGED <<record, used, expired, remote, boss, history, kills>>

-----------------------------------------------------------------------------
(* The bridge: Publish-MyPeopleProject.ps1 and publish                     *)

\* A pending approval of any mode may be published ...
Publishable(i) ==
    record[i].status = "pending" /\ i \notin expired
\* ... and a draft whose branch was pushed goes on to its pull request.
Pushed(i) ==
    record[i].mode = "draft_pr" /\ record[i].status = "branch_pushed" /\ i \notin expired

\* The bridge starts with mp publish --check.
BridgeCheck(h, i) ==
    /\ At(h, "idle") /\ Unlocked(i)
    /\ \/ Publishable(i) /\ job' = [job EXCEPT ![h] = [NoJob EXCEPT !.pc = "publish", !.id = i]]
       \/ Pushed(i) /\ job' = [job EXCEPT ![h] = [NoJob EXCEPT !.pc = "draft", !.id = i]]
    /\ UNCHANGED <<record, used, expired, remote, boss, history, kills>>

\* publish-with-credential: the same checks again, now to act on them.  `ok':
\* the workspace passes _preflight and the credential helper is there.
PublishRead(h) ==
    LET i == job[h].id IN
    /\ At(h, "publish") /\ Unlocked(i)
    /\ \E ok \in BOOLEAN : job' = [job EXCEPT ![h] =
                 IF ok /\ Publishable(i) THEN [@ EXCEPT !.pc = "publishing", !.copy = record[i]]
                 ELSE IF Pushed(i) THEN [@ EXCEPT !.pc = "draft"] ELSE NoJob]
    /\ UNCHANGED <<record, used, expired, remote, boss, history, kills>>

\* Mutant: the record stays pending until the push has returned.
PublishWriteLater(h) ==
    /\ At(h, "publishing")
    /\ Goto(h, "git_push")
    /\ UNCHANGED <<record, used, expired, remote, boss, history, kills>>

PublishWrite(h) ==
    /\ At(h, "publishing")
    /\ record' = [record EXCEPT ![job[h].id] = [job[h].copy EXCEPT !.status = "publishing"]]
    /\ Goto(h, "git_push")
    /\ UNCHANGED <<used, expired, remote, boss, history, kills>>

\* git push of the approved commit: to the task branch for a draft, and for
\* every other mode to the branch of the workspace, which is main.
GitPush(h) ==
    LET i == job[h].id  draft == job[h].copy.mode = "draft_pr" IN
    /\ At(h, "git_push")
    /\ pushes' = [pushes EXCEPT ![i] = @ + 1]
    /\ \/ /\ tip' = IF draft THEN job[h].copy.commit ELSE tip
          /\ landed' = landed \cup {<<i, IF draft THEN "head" ELSE "main">>}
          /\ Goto(h, "pushed")
       \/ Goto(h, "push_failed") /\ UNCHANGED <<tip, landed>>
    /\ UNCHANGED <<record, used, expired, pr, boss, decided, kills>>

\* Mutant: every mode with a pull request is treated as a draft.
AfterPushAlike(rec) == IF rec.mode # "direct_main" THEN "branch_pushed" ELSE "published"

AfterPush(rec) == IF rec.mode = "draft_pr" THEN "branch_pushed" ELSE "published"

PublishDone(h) ==
    LET i == job[h].id  copy == job[h].copy IN
    /\ \/ /\ At(h, "pushed")
          /\ record' = [record EXCEPT ![i] = [copy EXCEPT !.status = AfterPush(copy)]]
          /\ Goto(h, IF copy.mode = "draft_pr" THEN "draft" ELSE "idle")
       \/ /\ At(h, "push_failed")
          /\ record' = [record EXCEPT ![i] = [copy EXCEPT !.status = "failed"]]
          /\ Goto(h, "idle")
    /\ UNCHANGED <<used, expired, remote, boss, history, kills>>

\* The latest pull request of the task branch, created if there is none, must
\* be an open draft; it is then recorded.  Each call of gh may fail.
DraftPullRequest(h) ==
    /\ At(h, "draft")
    /\ \/ /\ pr' = IF pr = "none" THEN "draft" ELSE pr
          /\ IF pr' = "draft" THEN ToRecord(h, "finalize") ELSE Goto(h, "idle")
       \/ Goto(h, "idle") /\ UNCHANGED pr
    /\ UNCHANGED <<record, used, expired, tip, landed, boss, history, kills>>

-----------------------------------------------------------------------------
(* The broker: Invoke-MyPeopleSshPublication.ps1                           *)

\* Get-Preflight, at the start and after each record, and the step its status
\* leads to.  An expired approval goes on only when its pull request exists.
BrokerCheck(h, i) ==
    LET status == record[i].status
        to(label) == [NoJob EXCEPT !.pc = label, !.id = i, !.copy = record[i]]
    IN
    /\ \/ At(h, "idle")
       \/ At(h, "check") /\ job[h].id = i
    /\ record[i].mode = Green /\ Unlocked(i)
    /\ \/ /\ status = "approved" /\ i \notin expired
          /\ job' = [job EXCEPT ![h] = to("branch")]
       \/ /\ status = "branch_pushed" /\ i \notin expired
          /\ job' = [job EXCEPT ![h] = to("open")]
       \/ /\ status \in {"pr_created", "waiting_checks"}
          /\ job' = [job EXCEPT ![h] = to("checks")]
    /\ UNCHANGED <<record, used, expired, remote, boss, history, kills>>

\* Any other status ends the script.
BrokerStop(h) ==
    /\ At(h, "check")
    /\ Goto(h, "idle")
    /\ UNCHANGED <<record, used, expired, remote, boss, history, kills>>

BranchPush(h) ==
    /\ At(h, "branch")
    /\ \/ /\ tip' = job[h].copy.commit
          /\ landed' = landed \cup {<<job[h].id, "head">>}
          /\ ToRecord(h, "push")
       \/ Goto(h, "idle") /\ UNCHANGED <<tip, landed>>
    /\ UNCHANGED <<record, used, expired, pr, boss, history, kills>>

\* An open pull request of the branch is taken up, otherwise one is created;
\* its head must be the approved commit.
OpenPullRequest(h) ==
    /\ At(h, "open")
    /\ \/ /\ pr' = IF pr \in {"draft", "ready"} THEN pr ELSE "draft"
          /\ IF tip = job[h].copy.commit THEN ToRecord(h, "pr") ELSE Goto(h, "idle")
       \/ Goto(h, "idle") /\ UNCHANGED pr
    /\ UNCHANGED <<record, used, expired, tip, landed, boss, history, kills>>

\* The pull request must still be open with that head; its checks pass, or
\* fail, or do not end in time.
AwaitChecks(h) ==
    /\ At(h, "checks")
    /\ \/ /\ pr \in {"draft", "ready"} /\ tip = job[h].copy.commit
          /\ ToRecord(h, "passed")
       \/ Goto(h, "idle")
    /\ UNCHANGED <<record, used, expired, remote, boss, history, kills>>

\* Mutant: the exit code of the merge is not looked at.
MergeHopefully(h) ==
    /\ At(h, "merge")
    /\ ToRecord(h, "merge")
    /\ \/ /\ pr = "ready" /\ tip = job[h].copy.commit
          /\ pr' = "merged" /\ landed' = landed \cup {<<job[h].id, "merge">>}
       \/ UNCHANGED <<pr, landed>>
    /\ UNCHANGED <<record, used, expired, tip, boss, history, kills>>

\* gh pr merge --match-head-commit; afterwards the merge is looked up, which
\* may fail.
MergePullRequest(h) ==
    /\ At(h, "merge")
    /\ \/ /\ pr = "ready" /\ tip = job[h].copy.commit
          /\ pr' = "merged" /\ landed' = landed \cup {<<job[h].id, "merge">>}
          /\ ToRecord(h, "merge") \/ Goto(h, "idle")
       \/ Goto(h, "idle") /\ UNCHANGED <<pr, landed>>
    /\ UNCHANGED <<record, used, expired, tip, boss, history, kills>>

-----------------------------------------------------------------------------
(* Environment                                                             *)

Expire(i) ==
    /\ record[i].status \in Active /\ expired' = expired \cup {i}
    /\ UNCHANGED <<record, used, remote, boss, job, history, kills>>

\* Somebody marks the draft as ready for review on GitHub.
MarkReady ==
    /\ pr = "draft" /\ pr' = "ready"
    /\ UNCHANGED <<record, used, expired, tip, landed, boss, job, history, kills>>

KillBoss(b) ==
    /\ ~BossAt(b, "idle") /\ kills < MaxKills
    /\ kills' = kills + 1
    /\ BossGoto(b, "idle")
    /\ UNCHANGED <<record, used, expired, remote, job, history>>

Kill(p) ==
    /\ ~At(p, "idle") /\ kills < MaxKills
    /\ kills' = kills + 1
    /\ Goto(p, "idle")
    /\ UNCHANGED <<record, used, expired, remote, boss, history>>

Approve(b) ==
    \/ \E mode \in Asked, commit \in Commit : ListApprovals(b, mode, commit)
    \/ \E i \in Id : Supersede(b, i) \/ CreateApproval(b, i)
    \/ ResumeCard(b) \/ UnlinkApproval(b) \/ KillBoss(b)

Publish(h) ==
    \/ \E i \in Id : BridgeCheck(h, i) \/ BrokerCheck(h, i)
    \/ BrokerStop(h) \/ PublishRead(h) \/ PublishWrite(h) \/ GitPush(h)
    \/ PublishDone(h) \/ DraftPullRequest(h)
    \/ BranchPush(h) \/ OpenPullRequest(h)
    \/ AwaitChecks(h) \/ MergePullRequest(h)

Next ==
    \/ \E b \in Boss : Approve(b)
    \/ \E h \in Host : Publish(h) \/ Kill(h)
    \/ \E p \in Proc : RecordRead(p) \/ RecordWrite(p)
    \/ \E i \in Id, op \in Op : Decide(i, op)
    \/ \E i \in Id : Expire(i)
    \/ MarkReady

Spec == Init /\ [][Next]_vars

-----------------------------------------------------------------------------
(* Properties                                                              *)

\* An approval is used once: whatever crashes or is repeated, publish pushes
\* for it at most one time (README.md:288-289, reuse is rejected).
SingleUse == \A i \in Id : pushes[i] <= 1

\* The CEO's decision holds: what the broker merges was asked for and approved,
\* and what was rejected is neither published nor merged, before or after.
\* (Its task branch may be pushed: the broker reads the approval before.)
DecisionsHold ==
    /\ \A i \in Id : <<i, "merge">> \in landed => <<i, "approve">> \in decided
    /\ \A i \in Id : <<i, "reject">> \in decided =>
            pushes[i] = 0 /\ <<i, "merge">> \notin landed

\* However many approve-publish commands run and die, at most one request of
\* a publication intent waits for the CEO, and a record claims only what
\* happened on the remote.
RecordsAreTrue ==
    /\ \A i, k \in Id : record[i].status = "pending" /\ record[k].status = "pending"
                           /\ record[i].mode = record[k].mode => i = k
    /\ \A i \in Id :
        /\ record[i].status = "merged" => <<i, "merge">> \in landed
        /\ record[i].status = "published" => <<i, "main">> \in landed
        /\ record[i].status \in {"branch_pushed", "pr_created", "waiting_checks",
                                 "merge_blocked", "merged"} => <<i, "head">> \in landed
=============================================================================
