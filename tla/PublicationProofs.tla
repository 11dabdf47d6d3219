-------------------------- MODULE PublicationProofs --------------------------
(***************************************************************************)
(* Theorems about Publication, for any identities, commits, Boss and host  *)
(* processes, any set of modes asked for and any number of kills.          *)
(***************************************************************************)
EXTENDS Publication, TLAPS

Locked == {"write", "publishing", "git_push", "pushed", "push_failed"}

(***************************************************************************)
(* Types, and what a process at work knows: an approval it names has been  *)
(* handed out, and one it is about to record has an operation.             *)
(***************************************************************************)
JobOK(j) ==
    /\ j \in Job
    /\ j.pc # "idle" => j.id \in Id
    /\ j.pc \in {"record", "write"} => j.op # "none"
    /\ j.id \in used \cup {NoId}

BossOK(b) ==
    /\ b \in BossJob
    /\ b.pc \in {"resume", "unlink"} => b.id \in Id
    /\ b.id \in used \cup {NoId}
    /\ \A i \in Id \ used : b.old[i].status = "absent"

Fresh ==
    \A i \in Id \ used : record[i].status = "absent" /\ pushes[i] = 0

Base ==
    /\ TypeOK
    /\ \A p \in Proc : JobOK(job[p])
    /\ \A b \in Boss : BossOK(boss[b])
    /\ Fresh

LEMMA Constant ==
    /\ NoRecord \in Record
    /\ NoJob \in Job /\ NoJob.pc = "idle" /\ NoJob.id = NoId
    /\ NoBossJob \in BossJob /\ NoBossJob.pc = "idle" /\ NoBossJob.id = NoId
    /\ \A i \in Id : NoBossJob.old[i].status = "absent"
    /\ NoId \notin Id /\ used \subseteq Id => NoId \notin used
    /\ Host \subseteq Proc /\ "person" \in Proc
<1>1. NoRecord \in Record /\ NoRecord.status = "absent"
  BY DEF NoRecord, Record, Status, Mode
<1>2. /\ NoJob \in Job /\ NoJob.pc = "idle" /\ NoJob.id = NoId
  BY <1>1 DEF NoJob, Job, Op
<1>3. /\ NoBossJob \in BossJob /\ NoBossJob.pc = "idle" /\ NoBossJob.id = NoId
      /\ \A i \in Id : NoBossJob.old[i].status = "absent"
  BY <1>1 DEF NoBossJob, BossJob, Mode
<1> QED
  BY <1>1, <1>2, <1>3 DEF Proc

(***************************************************************************)
(* One process moves and what it holds afterwards is sound.                *)
(***************************************************************************)
LEMMA JobMoves ==
    ASSUME Base, NEW p \in Proc, NEW j, JobOK(j), used' = used,
           job' = [job EXCEPT ![p] = j]
    PROVE  job' \in [Proc -> Job] /\ \A q \in Proc : JobOK(job[q])'
  BY DEF Base, TypeOK, JobOK

LEMMA BossMoves ==
    ASSUME Base, NEW b \in Boss, NEW j, BossOK(j), used' = used,
           boss' = [boss EXCEPT ![b] = j]
    PROVE  boss' \in [Boss -> BossJob] /\ \A a \in Boss : BossOK(boss[a])'
  BY DEF Base, TypeOK, BossOK

LEMMA GotoMoves ==
    ASSUME Base, NEW p \in Proc, job[p].pc # "idle", used' = used,
           NEW label \in {"idle", "publish", "publishing", "git_push", "pushed",
                          "push_failed", "draft"},
           Goto(p, label)
    PROVE  /\ job' \in [Proc -> Job] /\ \A q \in Proc : JobOK(job[q])'
           /\ \A q \in Proc : q # p => job'[q] = job[q]
           /\ job'[p].pc = label
           /\ job'[p].id = IF label = "idle" THEN NoId ELSE job[p].id
           /\ label # "idle" => job'[p].copy = job[p].copy
<1>1. JobOK(job[p]) /\ job \in [Proc -> Job] /\ job[p] \in Job
  BY DEF Base, TypeOK
<1> DEFINE j == IF label = "idle" THEN NoJob ELSE [job[p] EXCEPT !.pc = label]
<1>2. job' = [job EXCEPT ![p] = j]
  BY DEF Goto
<1>3. JobOK(j)
  <2>1. CASE label = "idle"
    BY <2>1, Constant DEF JobOK
  <2>2. CASE label # "idle"
    BY <2>2, <1>1 DEF JobOK, Job
  <2> QED
    BY <2>1, <2>2
<1>4. j.pc = label /\ j.id = (IF label = "idle" THEN NoId ELSE job[p].id)
      /\ (label # "idle" => j.copy = job[p].copy)
  <2>1. CASE label = "idle"
    BY <2>1, Constant
  <2>2. CASE label # "idle"
    BY <2>2, <1>1 DEF Job
  <2> QED
    BY <2>1, <2>2
<1>5. job' \in [Proc -> Job] /\ \A q \in Proc : JobOK(job[q])'
  BY <1>2, <1>3, JobMoves
<1>6. job'[p] = j /\ \A q \in Proc : q # p => job'[q] = job[q]
  BY <1>1, <1>2
<1> QED
  BY <1>4, <1>5, <1>6

LEMMA ToRecordMoves ==
    ASSUME Base, NEW p \in Proc, job[p].pc # "idle", used' = used,
           NEW op \in Op \ {"none"}, ToRecord(p, op)
    PROVE  /\ job' \in [Proc -> Job] /\ \A q \in Proc : JobOK(job[q])'
           /\ \A q \in Proc : q # p => job'[q] = job[q]
           /\ job'[p].pc = "record" /\ job'[p].id = job[p].id /\ job'[p].op = op
<1>1. JobOK(job[p]) /\ job \in [Proc -> Job] /\ job[p] \in Job
  BY DEF Base, TypeOK
<1> DEFINE j == [job[p] EXCEPT !.pc = "record", !.op = op, !.copy = NoRecord]
<1>2. job' = [job EXCEPT ![p] = j]
  BY DEF ToRecord
<1>3. JobOK(j) /\ j.pc = "record" /\ j.id = job[p].id /\ j.op = op
  BY <1>1, Constant DEF JobOK, Job
<1>4. job' \in [Proc -> Job] /\ \A q \in Proc : JobOK(job[q])'
  BY <1>2, <1>3, JobMoves
<1>5. job'[p] = j /\ \A q \in Proc : q # p => job'[q] = job[q]
  BY <1>1, <1>2
<1> QED
  BY <1>3, <1>4, <1>5

(***************************************************************************)
(* The kinds of step.  Quiet: no job and no push; only a new identity      *)
(* becomes pending.  The others move one process: it ends outside the lock *)
(* of a record, enters it, marks the record as being published, or pushes. *)
(***************************************************************************)
NoNewPending ==
    \A i \in Id : record'[i].status = "pending" => record[i].status = "pending"

Quiet ==
    /\ job' = job /\ pushes' = pushes
    /\ \A i \in Id : record'[i].status = "pending" =>
            record[i].status = "pending" \/ i \notin used

Alone(p) == \A q \in Proc : q # p => job'[q] = job[q]

Leaves(p) ==
    /\ Alone(p) /\ NoNewPending /\ pushes' = pushes
    /\ job'[p].pc \notin Locked

Enters(p) ==
    /\ Alone(p) /\ record' = record /\ pushes' = pushes
    /\ Unlocked(job'[p].id) /\ job'[p].pc \in {"write", "publishing"}
    /\ job'[p].pc = "publishing" => record[job'[p].id].status = "pending"

Marks(p) ==
    /\ Alone(p) /\ NoNewPending /\ pushes' = pushes
    /\ job[p].pc = "publishing" /\ job'[p].pc = "git_push" /\ job'[p].id = job[p].id
    /\ record'[job[p].id].status # "pending"

Pushes(p) ==
    /\ Alone(p) /\ record' = record
    /\ job[p].pc = "git_push" /\ job'[p].pc \in {"pushed", "push_failed"}
    /\ job'[p].id = job[p].id
    /\ pushes' = [pushes EXCEPT ![job[p].id] = @ + 1]

Kind == Quiet \/ \E p \in Proc : Leaves(p) \/ Enters(p) \/ Marks(p) \/ Pushes(p)

(***************************************************************************)
(* One lemma per action: it keeps Base and is of one kind.                 *)
(***************************************************************************)
LEMMA InitBase == Init => Base
<1> SUFFICES ASSUME Init PROVE Base
  OBVIOUS
<1>1. TypeOK
  BY Constant, BoundAssumption DEF Init, TypeOK
<1>2. \A p \in Proc : JobOK(job[p])
  BY Constant DEF Init, JobOK
<1>3. \A b \in Boss : BossOK(boss[b])
  BY Constant DEF Init, BossOK
<1> QED
  BY <1>1, <1>2, <1>3 DEF Init, Base, Fresh, NoRecord

LEMMA ListApprovalsStep ==
    ASSUME Base, NEW b \in Boss, NEW mode \in Mode, NEW commit \in Commit,
           ListApprovals(b, mode, commit)
    PROVE  Base' /\ Quiet
<1> DEFINE listed == Conflicts(record, mode)
           old == [i \in Id |-> IF i \in listed THEN record[i] ELSE NoRecord]
           j == [NoBossJob EXCEPT !.pc = "supersede", !.mode = mode,
                                  !.commit = commit, !.old = old]
<1>1. record \in [Id -> Record] /\ Fresh /\ used \subseteq Id
  BY DEF Base, TypeOK
<1>2. \A i \in Id : record[i].status \in Active => i \in used
  BY <1>1 DEF Fresh, Active
<1>3. ASSUME NEW i \in Id, i \in used PROVE BossOK(Resuming(i))
  BY <1>3, Constant DEF BossOK, Resuming, BossJob
<1>4. BossOK(j)
  <2>1. old \in [Id -> Record] /\ \A i \in Id \ used : old[i].status = "absent"
    BY <1>1, <1>2, Constant DEF Conflicts, Fresh, NoRecord
  <2> QED
    BY <2>1, Constant DEF BossOK, BossJob
<1>5. /\ used' = used /\ UNCHANGED <<record, expired, remote, job, history, kills>>
      /\ \/ boss' = [boss EXCEPT ![b] = j]
         \/ \E i \in listed : boss' = [boss EXCEPT ![b] = Resuming(i)]
  BY DEF ListApprovals
<1>6. boss' \in [Boss -> BossJob] /\ \A a \in Boss : BossOK(boss[a])'
  <2>1. CASE boss' = [boss EXCEPT ![b] = j]
    BY <2>1, <1>4, <1>5, BossMoves
  <2>2. CASE \E i \in listed : boss' = [boss EXCEPT ![b] = Resuming(i)]
    BY <2>2, <1>2, <1>3, <1>5, BossMoves DEF Conflicts
  <2> QED
    BY <2>1, <2>2, <1>5
<1>7. TypeOK'
  BY <1>5, <1>6 DEF Base, TypeOK, remote, history
<1>8. \A p \in Proc : JobOK(job[p])'
  BY <1>5 DEF Base, JobOK
<1>9. Fresh'
  BY <1>5 DEF Base, Fresh, history
<1> QED
  BY <1>5, <1>6, <1>7, <1>8, <1>9 DEF Base, Quiet, history


Withdrawn(i) == record'[i].status \in {"absent", "superseded"} /\ i \in used

\* A Boss step that leaves the jobs, the remote and the history alone.
LEMMA BossStep ==
    ASSUME Base, NEW b \in Boss, NEW j, BossOK(j), boss' = [boss EXCEPT ![b] = j],
           record' \in [Id -> Record],
           \A i \in Id : record'[i] = record[i] \/ Withdrawn(i),
           kills' \in 0 .. MaxKills, UNCHANGED <<used, expired, remote, job, history>>
    PROVE  Base' /\ Quiet
<1>1. boss' \in [Boss -> BossJob] /\ \A a \in Boss : BossOK(boss[a])'
  BY BossMoves
<1>2. TypeOK'
  BY <1>1 DEF Base, TypeOK, remote, history
<1>3. \A p \in Proc : JobOK(job[p])'
  BY DEF Base, JobOK
<1>4. Fresh'
  BY DEF Base, Fresh, Withdrawn, history
<1> QED
  BY <1>1, <1>2, <1>3, <1>4 DEF Base, Quiet, Withdrawn, history

LEMMA SupersedeStep ==
    ASSUME Base, NEW b \in Boss, NEW i \in Id, Supersede(b, i)
    PROVE  Base' /\ Quiet
<1> DEFINE old == [boss[b].old EXCEPT ![i] = NoRecord]
           j == [boss[b] EXCEPT !.old = old]
<1>1. BossOK(boss[b]) /\ boss[b] \in BossJob
  BY DEF Base, TypeOK
<1>2. boss' = [boss EXCEPT ![b] = j]
  BY <1>1 DEF Supersede, BossJob
<1>3. BossOK(j)
  BY <1>1, Constant DEF BossOK, BossJob, NoRecord
<1>4. boss[b].old[i] \in Record /\ boss[b].old[i].status \in Active /\ i \in used
  BY <1>1 DEF Supersede, Conflicts, BossOK, BossJob, Active
<1>5. /\ record' \in [Id -> Record]
      /\ \A k \in Id : record'[k] = record[k] \/ Withdrawn(k)
  BY <1>4 DEF Supersede, Base, TypeOK, Record, Status, Withdrawn
<1> QED
  BY <1>2, <1>3, <1>5, BossStep DEF Supersede, Base, TypeOK

LEMMA CreateApprovalStep ==
    ASSUME Base, NEW b \in Boss, NEW i \in Id, CreateApproval(b, i)
    PROVE  Base' /\ Quiet
<1>1. BossOK(boss[b]) /\ boss[b] \in BossJob /\ boss \in [Boss -> BossJob]
  BY DEF Base, TypeOK
<1> DEFINE r == [NoRecord EXCEPT !.status = "pending", !.mode = boss[b].mode,
                                 !.commit = boss[b].commit]
<1>2. /\ i \notin used /\ used' = used \cup {i} /\ record' = [record EXCEPT ![i] = r]
      /\ boss' = [boss EXCEPT ![b] = Resuming(i)]
      /\ UNCHANGED <<expired, remote, job, history, kills>>
  BY DEF CreateApproval
<1>3. r \in Record
  BY <1>1, Constant DEF Record, BossJob, Status, Active
<1>4. Resuming(i) \in BossJob /\ Resuming(i).id = i
      /\ \A k \in Id : Resuming(i).old[k].status = "absent"
  BY Constant DEF Resuming, BossJob
<1>5. boss' \in [Boss -> BossJob]
  BY <1>1, <1>2, <1>4
<1>6. \A a \in Boss : BossOK(boss[a])'
  BY <1>1, <1>2, <1>4 DEF Base, BossOK
<1>7. TypeOK'
  BY <1>2, <1>3, <1>5 DEF Base, TypeOK, remote, history
<1>8. \A p \in Proc : JobOK(job[p])'
  BY <1>2 DEF Base, JobOK
<1>9. Fresh'
  BY <1>2 DEF Base, Fresh, TypeOK, history
<1>10. Quiet
  BY <1>2 DEF Quiet, Base, TypeOK, history
<1> QED
  BY <1>6, <1>7, <1>8, <1>9, <1>10 DEF Base

LEMMA BossGotoOK ==
    ASSUME Base, NEW b \in Boss, NEW label \in {"idle", "unlink"},
           BossAt(b, "resume") \/ label = "idle", BossGoto(b, label)
    PROVE  \E j : BossOK(j) /\ boss' = [boss EXCEPT ![b] = j]
<1>1. BossOK(boss[b]) /\ boss[b] \in BossJob
  BY DEF Base, TypeOK
<1> DEFINE j == IF label = "idle" THEN NoBossJob ELSE [boss[b] EXCEPT !.pc = label]
<1>2. boss' = [boss EXCEPT ![b] = j]
  BY DEF BossGoto
<1>3. BossOK(j)
  <2>1. CASE label = "idle"
    BY <2>1, Constant DEF BossOK
  <2>2. CASE label # "idle"
    BY <2>2, <1>1 DEF BossOK, BossJob, BossAt
  <2> QED
    BY <2>1, <2>2
<1> QED
  BY <1>2, <1>3

LEMMA ResumeCardStep ==
    ASSUME Base, NEW b \in Boss, ResumeCard(b)
    PROVE  Base' /\ Quiet
<1>1. PICK j : BossOK(j) /\ boss' = [boss EXCEPT ![b] = j]
  BY BossGotoOK DEF ResumeCard
<1> QED
  BY <1>1, BossStep DEF ResumeCard, Base, TypeOK

LEMMA UnlinkApprovalStep ==
    ASSUME Base, NEW b \in Boss, UnlinkApproval(b)
    PROVE  Base' /\ Quiet
<1>1. PICK j : BossOK(j) /\ boss' = [boss EXCEPT ![b] = j]
  BY BossGotoOK DEF UnlinkApproval
<1>2. BossOK(boss[b]) /\ boss[b].id \in Id /\ NoId \notin Id
  BY IdAssumption DEF Base, BossOK, UnlinkApproval, BossAt
<1>3. /\ record' \in [Id -> Record]
      /\ \A k \in Id : record'[k] = record[k] \/ Withdrawn(k)
  BY <1>2, Constant DEF UnlinkApproval, Base, TypeOK, BossOK, NoRecord, Withdrawn
<1> QED
  BY <1>1, <1>3, BossStep DEF UnlinkApproval, Base, TypeOK

LEMMA KillBossStep ==
    ASSUME Base, NEW b \in Boss, KillBoss(b)
    PROVE  Base' /\ Quiet
<1>1. PICK j : BossOK(j) /\ boss' = [boss EXCEPT ![b] = j]
  BY BossGotoOK DEF KillBoss
<1>2. kills' \in 0 .. MaxKills
  BY BoundAssumption DEF KillBoss, Base, TypeOK
<1> QED
  BY <1>1, <1>2, BossStep DEF KillBoss, Base, TypeOK

LEMMA EnvironmentStep ==
    ASSUME Base, MarkReady \/ \E i \in Id : Expire(i)
    PROVE  Base' /\ Quiet
<1>1. TypeOK' /\ UNCHANGED <<record, used, boss, job, pushes>>
  BY DEF MarkReady, Expire, Base, TypeOK, remote, history
<1> QED
  BY <1>1 DEF Base, Fresh, JobOK, BossOK, Quiet

LEMMA ApproveStep ==
    ASSUME Base, NEW b \in Boss, Approve(b)
    PROVE  Base' /\ Quiet
<1>1. CASE \E mode \in Asked, commit \in Commit : ListApprovals(b, mode, commit)
  BY <1>1, ListApprovalsStep, ModeAssumption
<1>2. CASE \E i \in Id : Supersede(b, i) \/ CreateApproval(b, i)
  BY <1>2, SupersedeStep, CreateApprovalStep
<1>3. CASE ResumeCard(b) \/ UnlinkApproval(b) \/ KillBoss(b)
  BY <1>3, ResumeCardStep, UnlinkApprovalStep, KillBossStep
<1> QED
  BY <1>1, <1>2, <1>3 DEF Approve


\* What is left to check of a step of a host script or the person.
LEMMA JobBase ==
    ASSUME Base, job' \in [Proc -> Job], \A q \in Proc : JobOK(job[q])',
           record' \in [Id -> Record], \A i \in Id : record'[i] = record[i] \/ i \in used,
           UNCHANGED <<used, expired, boss>>,
           tip' \in Commit \cup {NoCommit}, pr' \in {"none", "draft", "ready", "merged"},
           landed' \in SUBSET (Id \X {"head", "main", "merge"}),
           pushes' \in [Id -> Nat], \A i \in Id \ used : pushes'[i] = 0,
           decided' \in SUBSET (Id \X {"approve", "reject"}), kills' \in 0 .. MaxKills
    PROVE  Base'
<1>1. TypeOK'
  BY DEF Base, TypeOK
<1>2. \A b \in Boss : BossOK(boss[b])'
  BY DEF Base, BossOK
<1>3. Fresh'
  BY DEF Base, Fresh
<1> QED
  BY <1>1, <1>2, <1>3 DEF Base

\* A step that changes jobs only.
LEMMA JobOnly ==
    ASSUME Base, job' \in [Proc -> Job], \A q \in Proc : JobOK(job[q])',
           UNCHANGED <<record, used, expired, remote, boss, history, kills>>
    PROVE  Base'
  BY JobBase DEF Base, TypeOK, Fresh, remote, history

LEMMA Parts ==
    ASSUME Base, NEW p \in Proc
    PROVE  /\ JobOK(job[p]) /\ job[p] \in Job /\ job[p].copy \in Record
           /\ job \in [Proc -> Job] /\ NoId \notin Id
           /\ job[p].pc # "idle" => job[p].id \in Id /\ job[p].id \in used
           /\ \A i \in Id : record[i] \in Record
           /\ \A i \in Id : record[i].status # "absent" => i \in used
  BY IdAssumption DEF Base, TypeOK, JobOK, Job, Fresh

\* A process takes up a record it found, at `label'.
LEMMA NewJob ==
    ASSUME Base, NEW p \in Proc, NEW i \in used, NEW label, label # "record",
           NEW j \in Job, j.pc = label, j.id = i, label = "write" => j.op # "none",
           job' = [job EXCEPT ![p] = j], used' = used
    PROVE  /\ job' \in [Proc -> Job] /\ \A q \in Proc : JobOK(job[q])'
           /\ Alone(p) /\ job'[p].pc = label /\ job'[p].id = i
<1>1. used \subseteq Id /\ job \in [Proc -> Job]
  BY DEF Base, TypeOK
<1>2. JobOK(j)
  BY <1>1 DEF JobOK, Job
<1>3. job' \in [Proc -> Job] /\ \A q \in Proc : JobOK(job[q])'
  BY <1>2, JobMoves
<1> QED
  BY <1>1, <1>3 DEF Alone

\* A process gives up.
LEMMA NoMoreJob ==
    ASSUME Base, NEW p \in Proc, job' = [job EXCEPT ![p] = NoJob], used' = used
    PROVE  /\ job' \in [Proc -> Job] /\ \A q \in Proc : JobOK(job[q])'
           /\ Alone(p) /\ job'[p].pc \notin Locked
<1>1. JobOK(NoJob) /\ job \in [Proc -> Job]
  BY Constant DEF JobOK, Base, TypeOK
<1>2. job' \in [Proc -> Job] /\ \A q \in Proc : JobOK(job[q])'
  BY <1>1, JobMoves
<1> QED
  BY <1>1, <1>2, Constant DEF Alone, Locked

LEMMA RecordReadStep ==
    ASSUME Base, NEW p \in Proc, RecordRead(p)
    PROVE  Base' /\ Kind
<1> DEFINE i == job[p].id
           j == [job[p] EXCEPT !.pc = "write", !.copy = record[i]]
<1>1. /\ job[p].pc = "record" /\ Unlocked(i) /\ i \in Id /\ i \in used
      /\ UNCHANGED <<record, used, expired, remote, boss, history, kills>>
  BY Parts DEF RecordRead, At
<1>2. CASE job' = [job EXCEPT ![p] = j]
  <2>1. j \in Job /\ j.pc = "write" /\ j.id = i /\ j.op # "none"
    BY <1>1, Parts DEF JobOK, Job
  <2>2. /\ job' \in [Proc -> Job] /\ \A q \in Proc : JobOK(job[q])'
        /\ Alone(p) /\ job'[p].pc = "write" /\ job'[p].id = i
    BY <1>1, <1>2, <2>1, NewJob, Parts
  <2>3. Enters(p)
    BY <1>1, <2>2 DEF Enters, history
  <2> QED
    BY <1>1, <2>2, <2>3, JobOnly DEF Kind
<1>3. CASE job' = [job EXCEPT ![p] = NoJob]
  BY <1>1, <1>3, NoMoreJob, JobOnly DEF Kind, Leaves, NoNewPending, history
<1> QED
  BY <1>2, <1>3 DEF RecordRead

LEMMA DecideStep ==
    ASSUME Base, NEW i \in Id, NEW op \in Op, Decide(i, op)
    PROVE  Base' /\ Kind
<1> DEFINE j == [NoJob EXCEPT !.pc = "write", !.id = i, !.op = op, !.copy = record[i]]
<1>1. /\ Unlocked(i) /\ op # "none" /\ MayRecord(i, op)
      /\ job' = [job EXCEPT !["person"] = j] /\ "person" \in Proc
      /\ UNCHANGED <<record, used, expired, remote, boss, history, kills>>
  BY Constant DEF Decide
<1>2. record[i].status # "absent"
  BY <1>1 DEF MayRecord, Expected, Decide
<1>3. i \in used /\ record[i] \in Record
  BY <1>1, <1>2, Parts
<1>4. j \in Job /\ j.pc = "write" /\ j.id = i /\ j.op # "none"
  BY <1>1, <1>3, Constant DEF Job
<1>5. /\ job' \in [Proc -> Job] /\ \A q \in Proc : JobOK(job[q])'
      /\ Alone("person") /\ job'["person"].pc = "write" /\ job'["person"].id = i
  BY <1>1, <1>3, <1>4, NewJob
<1>6. Enters("person")
  BY <1>1, <1>5 DEF Enters, history
<1> QED
  BY <1>1, <1>5, <1>6, JobOnly DEF Kind

LEMMA RecordWriteStep ==
    ASSUME Base, NEW p \in Proc, RecordWrite(p)
    PROVE  Base' /\ Kind
<1> DEFINE i == job[p].id
           op == job[p].op
           r == [job[p].copy EXCEPT !.status = Target[op],
                    !.checks = IF op \in {"passed", "pending", "failed"} THEN op ELSE @]
           c == IF After(op) = "merge" THEN job[p].copy ELSE NoRecord
           j == [NoJob EXCEPT !.pc = After(op), !.id = i, !.copy = c]
<1>1. /\ i \in Id /\ i \in used /\ op \in Op \ {"none"} /\ job[p].copy \in Record
      /\ record' = [record EXCEPT ![i] = r]
      /\ decided' = IF op \in {"approve", "reject"} THEN decided \cup {<<i, op>>} ELSE decided
      /\ job' = [job EXCEPT ![p] = IF After(op) = "idle" THEN NoJob ELSE j]
      /\ UNCHANGED <<used, expired, remote, boss, pushes, kills>>
  BY Parts DEF RecordWrite, At, JobOK, Job
<1>2. Target[op] \in Status \ {"pending", "absent"}
  BY <1>1 DEF Target, Op, Status, Active
<1>3. After(op) \in {"check", "merge", "idle"}
  BY <1>1 DEF After, Op
<1>4. r \in Record /\ r.status # "pending"
  BY <1>1, <1>2 DEF Record
<1>5. record' \in [Id -> Record] /\ NoNewPending
      /\ \A k \in Id : record'[k] = record[k] \/ k \in used
  BY <1>1, <1>4 DEF Base, TypeOK, NoNewPending
<1>6. /\ job' \in [Proc -> Job] /\ \A q \in Proc : JobOK(job[q])'
      /\ Alone(p) /\ job'[p].pc \notin Locked
  <2>1. CASE After(op) = "idle"
    BY <1>1, <2>1, NoMoreJob
  <2>2. CASE After(op) \in {"check", "merge"}
    <3>0. PICK label \in {"check", "merge"} : After(op) = label
      BY <2>2
    <3>1. j \in Job /\ j.pc = label /\ j.id = i
      BY <3>0, <1>1, <2>2, Constant DEF Job
    <3>2. job' = [job EXCEPT ![p] = j]
      BY <1>1, <2>2
    <3>3. i \in used /\ used' = used
      BY <1>1
    <3> HIDE DEF j, i
    <3>4. /\ job' \in [Proc -> Job] /\ \A q \in Proc : JobOK(job[q])'
          /\ Alone(p) /\ job'[p].pc = label
      BY <3>0, <3>1, <3>2, <3>3, NewJob
    <3> QED
      BY <3>0, <3>4 DEF Locked
  <2> QED
    BY <1>3, <2>1, <2>2
<1>7. decided' \in SUBSET (Id \X {"approve", "reject"})
  BY <1>1 DEF Base, TypeOK
<1>8. Base'
  BY <1>1, <1>5, <1>6, <1>7, JobBase DEF Base, TypeOK, Fresh, remote
<1> QED
  BY <1>1, <1>5, <1>6, <1>8 DEF Kind, Leaves


LEMMA BridgeCheckStep ==
    ASSUME Base, NEW h \in Host, NEW i \in Id, BridgeCheck(h, i)
    PROVE  Base' /\ Kind
<1> DEFINE j(label) == [NoJob EXCEPT !.pc = label, !.id = i]
<1>1. /\ h \in Proc /\ UNCHANGED <<record, used, expired, remote, boss, history, kills>>
      /\ record[i].status # "absent"
      /\ \E label \in {"publish", "draft"} : job' = [job EXCEPT ![h] = j(label)]
  BY Constant DEF BridgeCheck, Publishable, Pushed
<1>2. PICK label \in {"publish", "draft"} : job' = [job EXCEPT ![h] = j(label)]
  BY <1>1
<1>3. i \in used
  BY <1>1, Parts
<1>4. j(label) \in Job /\ j(label).pc = label /\ j(label).id = i
  BY Constant DEF Job
<1> HIDE DEF j
<1>5. /\ job' \in [Proc -> Job] /\ \A q \in Proc : JobOK(job[q])'
      /\ Alone(h) /\ job'[h].pc = label
  BY <1>1, <1>2, <1>3, <1>4, NewJob
<1>6. Leaves(h)
  BY <1>1, <1>5 DEF Leaves, NoNewPending, Locked, history
<1> QED
  BY <1>1, <1>5, <1>6, JobOnly DEF Kind

LEMMA BrokerCheckStep ==
    ASSUME Base, NEW h \in Host, NEW i \in Id, BrokerCheck(h, i)
    PROVE  Base' /\ Kind
<1> DEFINE j(label) == [NoJob EXCEPT !.pc = label, !.id = i, !.copy = record[i]]
<1>1. /\ h \in Proc /\ UNCHANGED <<record, used, expired, remote, boss, history, kills>>
      /\ record[i].status # "absent"
      /\ \E label \in {"branch", "open", "checks"} : job' = [job EXCEPT ![h] = j(label)]
  BY Constant DEF BrokerCheck
<1>2. PICK label \in {"branch", "open", "checks"} : job' = [job EXCEPT ![h] = j(label)]
  BY <1>1
<1>3. i \in used /\ record[i] \in Record
  BY <1>1, Parts
<1>4. j(label) \in Job /\ j(label).pc = label /\ j(label).id = i
  BY <1>3, Constant DEF Job
<1> HIDE DEF j
<1>5. /\ job' \in [Proc -> Job] /\ \A q \in Proc : JobOK(job[q])'
      /\ Alone(h) /\ job'[h].pc = label
  BY <1>1, <1>2, <1>3, <1>4, NewJob
<1>6. Leaves(h)
  BY <1>1, <1>5 DEF Leaves, NoNewPending, Locked, history
<1> QED
  BY <1>1, <1>5, <1>6, JobOnly DEF Kind

LEMMA PublishReadStep ==
    ASSUME Base, NEW h \in Host, PublishRead(h)
    PROVE  Base' /\ Kind
<1> DEFINE i == job[h].id
           write == [job[h] EXCEPT !.pc = "publishing", !.copy = record[i]]
           draft == [job[h] EXCEPT !.pc = "draft"]
<1>1. /\ h \in Proc /\ job[h].pc = "publish" /\ Unlocked(i) /\ i \in Id /\ i \in used
      /\ UNCHANGED <<record, used, expired, remote, boss, history, kills>>
  BY Constant, Parts DEF PublishRead, At
<1>2. CASE Publishable(i) /\ job' = [job EXCEPT ![h] = write]
  <2>1. write \in Job /\ write.pc = "publishing" /\ write.id = i
    BY <1>1, Parts DEF Job
  <2> HIDE DEF write
  <2>2. /\ job' \in [Proc -> Job] /\ \A q \in Proc : JobOK(job[q])'
        /\ Alone(h) /\ job'[h].pc = "publishing" /\ job'[h].id = i
    BY <1>1, <1>2, <2>1, NewJob
  <2>3. Enters(h)
    BY <1>1, <1>2, <2>2 DEF Enters, Publishable, history
  <2> QED
    BY <1>1, <2>2, <2>3, JobOnly DEF Kind
<1>3. CASE job' = [job EXCEPT ![h] = draft]
  <2>1. draft \in Job /\ draft.pc = "draft" /\ draft.id = i
    BY <1>1, Parts DEF Job
  <2> HIDE DEF draft
  <2>2. /\ job' \in [Proc -> Job] /\ \A q \in Proc : JobOK(job[q])'
        /\ Alone(h) /\ job'[h].pc = "draft"
    BY <1>1, <1>3, <2>1, NewJob
  <2>3. Leaves(h)
    BY <1>1, <2>2 DEF Leaves, NoNewPending, Locked, history
  <2> QED
    BY <1>1, <2>2, <2>3, JobOnly DEF Kind
<1>4. CASE job' = [job EXCEPT ![h] = NoJob]
  BY <1>1, <1>4, NoMoreJob, JobOnly DEF Kind, Leaves, NoNewPending, history
<1> QED
  BY <1>2, <1>3, <1>4 DEF PublishRead

LEMMA PublishWriteStep ==
    ASSUME Base, NEW h \in Host, PublishWrite(h)
    PROVE  Base' /\ Kind
<1> DEFINE i == job[h].id
           r == [job[h].copy EXCEPT !.status = "publishing"]
<1>1. /\ h \in Proc /\ job[h].pc = "publishing" /\ i \in Id /\ i \in used
      /\ job[h].copy \in Record /\ record' = [record EXCEPT ![i] = r]
      /\ Goto(h, "git_push") /\ UNCHANGED <<used, expired, remote, boss, history, kills>>
  BY Constant, Parts DEF PublishWrite, At
<1>2. r \in Record /\ r.status # "pending"
  BY <1>1 DEF Record, Status
<1>3. /\ job' \in [Proc -> Job] /\ \A q \in Proc : JobOK(job[q])'
      /\ Alone(h) /\ job'[h].pc = "git_push" /\ job'[h].id = i
  BY <1>1, GotoMoves DEF Alone
<1>4. /\ record' \in [Id -> Record] /\ NoNewPending /\ record'[i].status # "pending"
      /\ \A k \in Id : record'[k] = record[k] \/ k \in used
  BY <1>1, <1>2 DEF Base, TypeOK, NoNewPending
<1>5. Base'
  BY <1>1, <1>3, <1>4, JobBase DEF Base, TypeOK, Fresh, remote, history
<1>6. Marks(h)
  BY <1>1, <1>3, <1>4 DEF Marks, history
<1> QED
  BY <1>1, <1>5, <1>6 DEF Kind

LEMMA GitPushStep ==
    ASSUME Base, NEW h \in Host, GitPush(h)
    PROVE  Base' /\ Kind
<1> DEFINE i == job[h].id
<1>1. /\ h \in Proc /\ job[h].pc = "git_push" /\ i \in Id /\ i \in used
      /\ job[h].copy \in Record /\ pushes' = [pushes EXCEPT ![i] = @ + 1]
      /\ UNCHANGED <<record, used, expired, pr, boss, decided, kills>>
  BY Constant, Parts DEF GitPush, At
<1>2. /\ tip' \in Commit \cup {NoCommit}
      /\ landed' \in SUBSET (Id \X {"head", "main", "merge"})
  <2>1. tip' \in {tip, job[h].copy.commit}
        /\ landed' \in {landed, landed \cup {<<i, "head">>}, landed \cup {<<i, "main">>}}
    BY DEF GitPush
  <2> QED
    BY <1>1, <2>1 DEF Base, TypeOK, Record
<1>3. /\ job' \in [Proc -> Job] /\ \A q \in Proc : JobOK(job[q])'
      /\ Alone(h) /\ job'[h].pc \in {"pushed", "push_failed"} /\ job'[h].id = i
  <2>1. Goto(h, "pushed") \/ Goto(h, "push_failed")
    BY DEF GitPush
  <2> QED
    BY <1>1, <2>1, GotoMoves DEF Alone
<1>4. pushes' \in [Id -> Nat] /\ \A k \in Id \ used : pushes'[k] = 0
  BY <1>1 DEF Base, TypeOK, Fresh
<1>5. Base'
  BY <1>1, <1>2, <1>3, <1>4, JobBase DEF Base, TypeOK
<1>6. Pushes(h)
  BY <1>1, <1>3 DEF Pushes
<1> QED
  BY <1>1, <1>5, <1>6 DEF Kind

LEMMA PublishDoneStep ==
    ASSUME Base, NEW h \in Host, PublishDone(h)
    PROVE  Base' /\ Kind
<1> DEFINE i == job[h].id
           r(status) == [job[h].copy EXCEPT !.status = status]
<1>1. /\ h \in Proc /\ job[h].pc \in {"pushed", "push_failed"} /\ i \in Id /\ i \in used
      /\ job[h].copy \in Record /\ (Goto(h, "draft") \/ Goto(h, "idle"))
      /\ \E status \in {"branch_pushed", "published", "failed"} :
            record' = [record EXCEPT ![i] = r(status)]
      /\ UNCHANGED <<used, expired, remote, boss, history, kills>>
  BY Constant, Parts DEF PublishDone, At, AfterPush
<1>2. \A status \in {"branch_pushed", "published", "failed"} :
         r(status) \in Record /\ r(status).status # "pending"
  BY <1>1 DEF Record, Status, Active
<1>3. /\ record' \in [Id -> Record] /\ NoNewPending
      /\ \A k \in Id : record'[k] = record[k] \/ k \in used
  BY <1>1, <1>2 DEF Base, TypeOK, NoNewPending
<1>4. /\ job' \in [Proc -> Job] /\ \A q \in Proc : JobOK(job[q])'
      /\ Alone(h) /\ job'[h].pc \notin Locked
  BY <1>1, GotoMoves DEF Alone, Locked
<1>5. Base'
  BY <1>1, <1>3, <1>4, JobBase DEF Base, TypeOK, Fresh, remote, history
<1> QED
  BY <1>1, <1>3, <1>4, <1>5 DEF Kind, Leaves, history


\* The steps of the pull request and of the broker: they end outside the lock.
LEMMA RemoteStep ==
    ASSUME Base, NEW h \in Host, job[h].pc \notin {"idle"},
           \/ Goto(h, "idle")
           \/ \E op \in Op \ {"none"} : ToRecord(h, op),
           tip' \in Commit \cup {NoCommit}, pr' \in {"none", "draft", "ready", "merged"},
           landed' \in SUBSET (Id \X {"head", "main", "merge"}), kills' \in 0 .. MaxKills,
           UNCHANGED <<record, used, expired, boss, history>>
    PROVE  Base' /\ Kind
<1>1. h \in Proc
  BY Constant
<1>2. /\ job' \in [Proc -> Job] /\ \A q \in Proc : JobOK(job[q])'
      /\ Alone(h) /\ job'[h].pc \notin Locked
  BY <1>1, GotoMoves, ToRecordMoves DEF Alone, Locked
<1>3. Base'
  BY <1>2, JobBase DEF Base, TypeOK, Fresh, history
<1> QED
  BY <1>1, <1>2, <1>3 DEF Kind, Leaves, NoNewPending, history

LEMMA DraftPullRequestStep ==
    ASSUME Base, NEW h \in Host, DraftPullRequest(h)
    PROVE  Base' /\ Kind
<1>1. "finalize" \in Op \ {"none"}
  BY DEF Op
<1> QED
  BY <1>1, RemoteStep DEF DraftPullRequest, Base, TypeOK, At

LEMMA BrokerStopStep ==
    ASSUME Base, NEW h \in Host, BrokerStop(h)
    PROVE  Base' /\ Kind
  BY RemoteStep DEF BrokerStop, Base, TypeOK, At, remote

LEMMA BranchPushStep ==
    ASSUME Base, NEW h \in Host, BranchPush(h)
    PROVE  Base' /\ Kind
<1>1. "push" \in Op \ {"none"}
  BY DEF Op
<1>2. job[h].pc = "branch" /\ job[h].id \in Id /\ job[h].copy \in Record
  BY Parts, Constant DEF BranchPush, At
<1>3. /\ tip' \in Commit \cup {NoCommit}
      /\ landed' \in SUBSET (Id \X {"head", "main", "merge"})
  BY <1>2 DEF BranchPush, Base, TypeOK, Record
<1> QED
  BY <1>1, <1>2, <1>3, RemoteStep DEF BranchPush, Base, TypeOK

LEMMA OpenPullRequestStep ==
    ASSUME Base, NEW h \in Host, OpenPullRequest(h)
    PROVE  Base' /\ Kind
<1>1. "pr" \in Op \ {"none"}
  BY DEF Op
<1> QED
  BY <1>1, RemoteStep DEF OpenPullRequest, Base, TypeOK, At

LEMMA AwaitChecksStep ==
    ASSUME Base, NEW h \in Host, AwaitChecks(h)
    PROVE  Base' /\ Kind
<1>1. "passed" \in Op \ {"none"}
  BY DEF Op
<1> QED
  BY <1>1, RemoteStep DEF AwaitChecks, Base, TypeOK, At, remote

LEMMA MergePullRequestStep ==
    ASSUME Base, NEW h \in Host, MergePullRequest(h)
    PROVE  Base' /\ Kind
<1>1. "merge" \in Op \ {"none"}
  BY DEF Op
<1>2. job[h].pc = "merge" /\ job[h].id \in Id
  BY Parts, Constant DEF MergePullRequest, At
<1>3. /\ pr' \in {"none", "draft", "ready", "merged"}
      /\ landed' \in SUBSET (Id \X {"head", "main", "merge"})
  BY <1>2 DEF MergePullRequest, Base, TypeOK
<1> QED
  BY <1>1, <1>2, <1>3, RemoteStep DEF MergePullRequest, Base, TypeOK

LEMMA KillStep ==
    ASSUME Base, NEW h \in Host, Kill(h)
    PROVE  Base' /\ Kind
<1>1. kills' \in 0 .. MaxKills
  BY BoundAssumption DEF Kill, Base, TypeOK
<1> QED
  BY <1>1, RemoteStep DEF Kill, Base, TypeOK, At, remote

LEMMA NextBase == Base /\ [Next]_vars => Base' /\ (Kind \/ UNCHANGED vars)
<1> SUFFICES ASSUME Base, [Next]_vars PROVE Base' /\ (Kind \/ UNCHANGED vars)
  OBVIOUS
<1>1. ASSUME NEW b \in Boss, Approve(b) PROVE Base' /\ Kind
  BY <1>1, ApproveStep DEF Kind
<1>2. ASSUME NEW h \in Host, Publish(h) \/ Kill(h) PROVE Base' /\ Kind
  <2>1. CASE \E i \in Id : BridgeCheck(h, i) \/ BrokerCheck(h, i)
    BY <2>1, BridgeCheckStep, BrokerCheckStep
  <2>2. CASE BrokerStop(h) \/ PublishRead(h) \/ PublishWrite(h) \/ GitPush(h)
    BY <2>2, BrokerStopStep, PublishReadStep, PublishWriteStep, GitPushStep
  <2>3. CASE PublishDone(h) \/ DraftPullRequest(h) \/ BranchPush(h)
    BY <2>3, PublishDoneStep, DraftPullRequestStep, BranchPushStep
  <2>4. CASE OpenPullRequest(h) \/ AwaitChecks(h) \/ MergePullRequest(h) \/ Kill(h)
    BY <2>4, OpenPullRequestStep, AwaitChecksStep, MergePullRequestStep, KillStep
  <2> QED
    BY <1>2, <2>1, <2>2, <2>3, <2>4 DEF Publish
<1>3. ASSUME NEW p \in Proc, RecordRead(p) \/ RecordWrite(p) PROVE Base' /\ Kind
  BY <1>3, RecordReadStep, RecordWriteStep
<1>4. ASSUME NEW i \in Id, NEW op \in Op, Decide(i, op) PROVE Base' /\ Kind
  BY <1>4, DecideStep
<1>5. CASE MarkReady \/ \E i \in Id : Expire(i)
  BY <1>5, EnvironmentStep DEF Kind
<1>6. CASE UNCHANGED vars
  BY <1>6 DEF Base, TypeOK, Fresh, JobOK, BossOK, vars, remote, history
<1> QED
  BY <1>1, <1>2, <1>3, <1>4, <1>5, <1>6 DEF Next

LEMMA BaseAlways == Spec => []Base
<1>1. Init => Base
  BY InitBase
<1>2. Base /\ [Next]_vars => Base'
  BY NextBase
<1> QED
  BY <1>1, <1>2, PTL DEF Spec

\* The records, copies, decisions and remote keep their types (project_publisher.py
\* writes no status, mode or check state of another kind), for any constants.
THEOREM TypeCorrect == Spec => []TypeOK
<1>1. Base => TypeOK
  BY DEF Base
<1> QED
  BY <1>1, BaseAlways, PTL

(***************************************************************************)
(* An approval is used once.  The lock of a record keeps two processes     *)
(* from holding copies of it (Mutex); a record that was pushed is not      *)
(* pending and never becomes so again (Spent); and who is about to push    *)
(* knows that nobody did (Due).                                            *)
(***************************************************************************)
Mutex ==
    \A p, q \in Proc :
        job[p].pc \in Locked /\ job[q].pc \in Locked /\ job[p].id = job[q].id => p = q

Spent ==
    \A i \in Id : pushes[i] <= 1 /\ (pushes[i] = 1 => record[i].status # "pending")

Due ==
    \A p \in Proc :
        /\ job[p].pc \in {"publishing", "git_push"} => pushes[job[p].id] = 0
        /\ job[p].pc = "git_push" => record[job[p].id].status # "pending"

Once == Mutex /\ Spent /\ Due

LEMMA MutexStep ==
    ASSUME Base, Mutex, Kind, Base'
    PROVE  Mutex'
<1>1. CASE Quiet
  BY <1>1 DEF Quiet, Mutex
<1>2. ASSUME NEW p \in Proc, Leaves(p) PROVE Mutex'
  BY <1>2 DEF Leaves, Alone, Mutex
<1>3. ASSUME NEW p \in Proc, Enters(p) PROVE Mutex'
  BY <1>3 DEF Enters, Alone, Mutex, Unlocked, Locked
<1>4. ASSUME NEW p \in Proc, Marks(p) \/ Pushes(p) PROVE Mutex'
  BY <1>4 DEF Marks, Pushes, Alone, Mutex, Locked
<1> QED
  BY <1>1, <1>2, <1>3, <1>4 DEF Kind

LEMMA SpentStep ==
    ASSUME Base, Once, Kind, Base'
    PROVE  Spent'
<1>1. CASE Quiet
  BY <1>1 DEF Quiet, Once, Spent, Base, Fresh
<1>2. ASSUME NEW p \in Proc, Leaves(p) \/ Marks(p) PROVE Spent'
  BY <1>2 DEF Leaves, Marks, NoNewPending, Once, Spent
<1>3. ASSUME NEW p \in Proc, Enters(p) PROVE Spent'
  BY <1>3 DEF Enters, Once, Spent
<1>4. ASSUME NEW p \in Proc, Pushes(p) PROVE Spent'
  <2>1. pushes[job[p].id] = 0 /\ record[job[p].id].status # "pending" /\ job[p].id \in Id
    BY <1>4, Parts DEF Pushes, Once, Due
  <2> QED
    BY <1>4, <2>1 DEF Pushes, Once, Spent, Base, TypeOK
<1> QED
  BY <1>1, <1>2, <1>3, <1>4 DEF Kind

LEMMA DueStep ==
    ASSUME Base, Once, Kind, Base'
    PROVE  Due'
<1>1. \A q \in Proc : job[q].pc # "idle" => job[q].id \in Id /\ job[q].id \in used
  BY Parts
<1>2. CASE Quiet
  BY <1>1, <1>2 DEF Quiet, Once, Due
<1>3. ASSUME NEW p \in Proc, Leaves(p) PROVE Due'
  BY <1>1, <1>3 DEF Leaves, Alone, NoNewPending, Locked, Once, Due
<1>4. ASSUME NEW p \in Proc, Enters(p) PROVE Due'
  <2>1. job'[p].id \in Id
    BY <1>4 DEF Base, JobOK, Enters
  <2> QED
    BY <1>4, <2>1 DEF Enters, Alone, Once, Due, Spent, Base, TypeOK
<1>5. ASSUME NEW p \in Proc, Marks(p) PROVE Due'
  BY <1>1, <1>5 DEF Marks, Alone, NoNewPending, Once, Due
<1>6. ASSUME NEW p \in Proc, Pushes(p) PROVE Due'
  <2>1. \A q \in Proc : q # p /\ job[q].pc \in Locked => job[q].id # job[p].id
    BY <1>6 DEF Pushes, Once, Mutex, Locked
  <2> QED
    BY <1>1, <1>6, <2>1 DEF Pushes, Alone, Once, Due, Locked, Base, TypeOK
<1> QED
  BY <1>2, <1>3, <1>4, <1>5, <1>6 DEF Kind

LEMMA OnceStep == Base /\ Once /\ [Next]_vars => Once'
<1>1. ASSUME Base, Once, UNCHANGED vars PROVE Once'
  BY <1>1 DEF Once, Mutex, Spent, Due, vars, history
<1>2. ASSUME Base, Base', Once, Kind PROVE Once'
  BY <1>2, MutexStep, SpentStep, DueStep DEF Once
<1> QED
  BY <1>1, <1>2, NextBase

\* Whatever crashes, races or is repeated, publish (project_publisher.py:450-465)
\* pushes at most once for an approval, for any number of host processes.
THEOREM SingleUseAlways == Spec => []SingleUse
<1>1. Init => Once
  BY Constant DEF Init, Once, Mutex, Spent, Due, Locked
<1>2. Once => SingleUse
  BY DEF Once, Spent, SingleUse
<1> QED
  BY <1>1, <1>2, OnceStep, BaseAlways, PTL DEF Spec

(***************************************************************************)
(* What a record claims, and what a process at work may claim next: the    *)
(* approval of the CEO, the push of its branch, the merge.  Landed pushes  *)
(* and decisions are never forgotten, so a claim stays true; what has to   *)
(* be shown is that nobody writes down more than happened.                 *)
(***************************************************************************)
HeadPushed == {"branch_pushed", "pr_created", "waiting_checks", "merge_blocked", "merged"}

\* Records that only an approval by the CEO leads to.
Consented(r) == r.status = "approved" \/ (r.mode = Green /\ r.status \in HeadPushed)

Truthful(r, i) ==
    /\ Consented(r) => <<i, "approve">> \in decided
    /\ r.status = "merged" => <<i, "merge">> \in landed
    /\ r.status = "published" => <<i, "main">> \in landed
    /\ r.status \in HeadPushed => <<i, "head">> \in landed

\* Where the broker is only with an approval that was given.
OnPath(j) ==
    \/ j.pc \in {"branch", "open", "checks", "merge"}
    \/ j.pc \in {"record", "write"} /\ j.op \in {"push", "pr", "passed", "merge"}

\* The copy in hand is one the operation may be recorded on.
Fits(j) ==
    /\ j.op = "approve" => j.copy.status = "pending"
    /\ j.op = "reject" => j.copy.status \in {"pending", "approved"}
    /\ j.op = "push" => j.copy.status = "approved"
    /\ j.op = "pr" => j.copy.status = "branch_pushed"
    /\ j.op = "finalize" => j.copy.status = "branch_pushed"
    /\ j.op \in {"passed", "pending", "failed"} =>
            j.copy.status \in {"pr_created", "waiting_checks", "merge_blocked"}
    /\ j.op = "merge" => j.copy.status = "waiting_checks"

Honest(j) ==
    /\ j.pc \in Locked => Truthful(j.copy, j.id)
    /\ j.pc = "write" => Fits(j)
    /\ OnPath(j) => <<j.id, "approve">> \in decided
    /\ j.pc \in {"record", "write"} /\ j.op = "push" => <<j.id, "head">> \in landed
    /\ j.pc \in {"record", "write"} /\ j.op = "merge" => <<j.id, "merge">> \in landed
    /\ j.pc = "pushed" =>
            <<j.id, IF j.copy.mode = "draft_pr" THEN "head" ELSE "main">> \in landed

Truth ==
    /\ \A i \in Id : Truthful(record[i], i)
    /\ \A p \in Proc : Honest(job[p])
    /\ \A i \in Id : <<i, "merge">> \in landed => <<i, "approve">> \in decided /\ i \in used

\* Nothing is forgotten, so what was true of a record or a job stays true.
LEMMA TruthMoves ==
    ASSUME Base, Truth, NEW p \in Proc, Alone(p), Honest(job[p])', used' = used,
           landed \subseteq landed', decided \subseteq decided',
           \A i \in Id : record'[i] = record[i] \/ Truthful(record[i], i)',
           \A i \in Id : <<i, "merge">> \in landed' =>
               \/ <<i, "merge">> \in landed
               \/ <<i, "approve">> \in decided' /\ i \in used
    PROVE  Truth'
<1>1. \A i \in Id : Truthful(record[i], i)'
  BY DEF Truth, Truthful, Consented
<1>2. ASSUME NEW q \in Proc, q # p PROVE Honest(job[q])'
  <2>1. job'[q] = job[q] /\ Honest(job[q])
    BY <1>2 DEF Alone, Truth
  <2> QED
    BY <2>1 DEF Honest, OnPath, Fits, Truthful, Consented
<1>3. \A i \in Id : <<i, "merge">> \in landed' => <<i, "approve">> \in decided' /\ i \in used'
  BY DEF Truth
<1> QED
  BY <1>1, <1>2, <1>3 DEF Truth

\* A step that changes one job only.
LEMMA TruthOfJob ==
    ASSUME Base, Truth, NEW p \in Proc, Alone(p), Honest(job[p])',
           UNCHANGED <<record, used, landed, decided>>
    PROVE  Truth'
  BY TruthMoves

\* At these places a job claims nothing.
LEMMA Modest ==
    ASSUME NEW p \in Proc,
           \/ job'[p].pc \in {"idle", "publish", "draft", "check"}
           \/ job'[p].pc = "record" /\ job'[p].op = "finalize"
    PROVE  Honest(job[p])'
  BY DEF Honest, OnPath, Locked

LEMMA NoJobIsModest ==
    ASSUME Base, NEW p \in Proc, job' = [job EXCEPT ![p] = NoJob]
    PROVE  Alone(p) /\ Honest(job[p])' /\ job'[p].pc = "idle" /\ job'[p].id = NoId
<1>1. job'[p] = NoJob /\ Alone(p)
  BY DEF Alone, Base, TypeOK
<1> QED
  BY <1>1, Modest, Constant

LEMMA RecordReadTruth ==
    ASSUME Base, Truth, NEW p \in Proc, RecordRead(p)
    PROVE  Truth'
<1> DEFINE i == job[p].id
           j == [job[p] EXCEPT !.pc = "write", !.copy = record[i]]
<1>1. /\ job[p].pc = "record" /\ i \in Id /\ job[p] \in Job /\ job \in [Proc -> Job]
      /\ UNCHANGED <<record, used, landed, decided>>
      /\ JobOK(job[p]) /\ Honest(job[p]) /\ Truthful(record[i], i)
  BY Parts DEF RecordRead, At, Truth, remote, history
<1>2. CASE job' = [job EXCEPT ![p] = j] /\ MayRecord(i, job[p].op)
  <2>1. /\ job'[p] = j /\ Alone(p)
        /\ j.pc = "write" /\ j.id = i /\ j.op = job[p].op /\ j.copy = record[i]
    BY <1>1, <1>2 DEF Alone, Job
  <2> HIDE DEF j
  <2>2. job[p].op \in Op \ {"none"}
    BY <1>1 DEF JobOK, Job
  <2>3. Fits(j)
    BY <1>2, <2>1, <2>2 DEF Fits, MayRecord, Expected, Op
  <2>4. Honest(job[p])'
    BY <1>1, <2>1, <2>3 DEF Honest, OnPath, Truthful, Consented, Fits
  <2> QED
    BY <1>1, <2>1, <2>4, TruthOfJob
<1>3. CASE job' = [job EXCEPT ![p] = NoJob]
  BY <1>1, <1>3, NoJobIsModest, TruthOfJob
<1> QED
  BY <1>2, <1>3 DEF RecordRead

LEMMA DecideTruth ==
    ASSUME Base, Truth, NEW i \in Id, NEW op \in Op, Decide(i, op)
    PROVE  Truth'
<1> DEFINE p == "person"
           j == [NoJob EXCEPT !.pc = "write", !.id = i, !.op = op, !.copy = record[i]]
<1>1. /\ op \in {"approve", "reject", "pending", "failed"} /\ MayRecord(i, op)
      /\ job' = [job EXCEPT !["person"] = j] /\ p \in Proc /\ job \in [Proc -> Job]
      /\ UNCHANGED <<record, used, landed, decided>>
      /\ Truthful(record[i], i)
  BY Constant DEF Decide, Base, TypeOK, Truth, remote, history
<1>2. /\ job'[p] = j /\ Alone(p)
      /\ j.pc = "write" /\ j.id = i /\ j.op = op /\ j.copy = record[i]
  BY <1>1 DEF Alone, NoJob
<1> HIDE DEF j, p
<1>3. Fits(j)
  BY <1>1, <1>2 DEF Fits, MayRecord, Expected
<1>4. Honest(job[p])'
  BY <1>1, <1>2, <1>3 DEF Honest, OnPath, Truthful, Consented, Fits
<1> QED
  BY <1>1, <1>2, <1>4, TruthOfJob

LEMMA RecordWriteTruth ==
    ASSUME Base, Truth, NEW p \in Proc, RecordWrite(p)
    PROVE  Truth'
<1> DEFINE i == job[p].id
           op == job[p].op
           copy == job[p].copy
           r == [copy EXCEPT !.status = Target[op],
                    !.checks = IF op \in {"passed", "pending", "failed"} THEN op ELSE @]
           c == IF After(op) = "merge" THEN copy ELSE NoRecord
           j == [NoJob EXCEPT !.pc = After(op), !.id = i, !.copy = c]
<1>1. /\ job[p].pc = "write" /\ i \in Id /\ i \in used /\ op \in Op \ {"none"} /\ copy \in Record
      /\ record' = [record EXCEPT ![i] = r] /\ record \in [Id -> Record]
      /\ decided' = IF op \in {"approve", "reject"} THEN decided \cup {<<i, op>>} ELSE decided
      /\ job' = [job EXCEPT ![p] = IF After(op) = "idle" THEN NoJob ELSE j]
      /\ job \in [Proc -> Job] /\ used' = used /\ landed' = landed
      /\ Honest(job[p])
  BY Parts DEF RecordWrite, At, JobOK, Job, Truth, remote, Base, TypeOK
<1>2. Fits(job[p]) /\ Truthful(copy, i)
  BY <1>1 DEF Honest, Locked
<1>3. record'[i] = r /\ r.status = Target[op] /\ r.mode = copy.mode
      /\ \A k \in Id : k # i => record'[k] = record[k]
  BY <1>1 DEF Record
<1>4. decided \subseteq decided' /\ (op = "approve" => <<i, "approve">> \in decided')
  BY <1>1
<1> HIDE DEF r
<1>5. ASSUME NEW k \in Id, k = i PROVE Truthful(record[k], k)'
  <2>0. /\ record'[k] = r /\ Truthful(copy, k)
        /\ op = "push" => <<k, "head">> \in landed /\ <<k, "approve">> \in decided
        /\ op = "merge" => <<k, "merge">> \in landed /\ <<k, "approve">> \in decided
        /\ op = "approve" => <<k, "approve">> \in decided'
    BY <1>1, <1>2, <1>3, <1>4, <1>5 DEF Honest, OnPath
  <2>1. CASE op \in {"approve", "reject"}
    BY <1>3, <2>0, <2>1 DEF Truthful, Consented, Target, HeadPushed
  <2>2. CASE op \in {"push", "merge"}
    BY <1>1, <1>2, <1>3, <1>4, <2>0, <2>2 DEF Truthful, Consented, Target, HeadPushed, Fits
  <2>3. CASE op \in {"pr", "finalize", "passed", "pending", "failed"}
    BY <1>1, <1>2, <1>3, <1>4, <2>0, <2>3 DEF Truthful, Consented, Target, HeadPushed, Fits
  <2> QED
    BY <1>1, <2>1, <2>2, <2>3 DEF Op
<1>6. Alone(p) /\ Honest(job[p])'
  <2>1. CASE After(op) = "idle"
    BY <1>1, <2>1, NoJobIsModest
  <2>2. CASE op \in {"push", "pr", "passed"}
    <3>1. /\ After(op) # "idle" /\ After(op) \in {"check", "merge"}
          /\ After(op) = "merge" => op = "passed"
      BY <2>2 DEF After
    <3>2. job'[p] = j /\ Alone(p) /\ j.pc = After(op) /\ j.id = i
      BY <1>1, <3>1 DEF Alone, NoJob
    <3>3. After(op) = "merge" => <<i, "approve">> \in decided
      BY <1>1, <3>1 DEF Honest, OnPath
    <3> HIDE DEF j
    <3> QED
      BY <1>4, <3>1, <3>2, <3>3 DEF Honest, OnPath, Locked
  <2> QED
    BY <1>1, <2>1, <2>2 DEF After, Op
<1> QED
  BY <1>1, <1>3, <1>4, <1>5, <1>6, TruthMoves

LEMMA BridgeCheckTruth ==
    ASSUME Base, Truth, NEW h \in Host, NEW i \in Id, BridgeCheck(h, i)
    PROVE  Truth'
<1> DEFINE j(label) == [NoJob EXCEPT !.pc = label, !.id = i]
<1>1. /\ h \in Proc /\ job \in [Proc -> Job] /\ UNCHANGED <<record, used, landed, decided>>
      /\ \E label \in {"publish", "draft"} : job' = [job EXCEPT ![h] = j(label)]
  BY Constant DEF BridgeCheck, Base, TypeOK, remote, history
<1>2. Alone(h) /\ job'[h].pc \in {"publish", "draft"}
  BY <1>1 DEF Alone, NoJob
<1> QED
  BY <1>1, <1>2, Modest, TruthOfJob

LEMMA BrokerCheckTruth ==
    ASSUME Base, Truth, NEW h \in Host, NEW i \in Id, BrokerCheck(h, i)
    PROVE  Truth'
<1> DEFINE j(label) == [NoJob EXCEPT !.pc = label, !.id = i, !.copy = record[i]]
<1>1. /\ h \in Proc /\ job \in [Proc -> Job] /\ UNCHANGED <<record, used, landed, decided>>
      /\ \E label \in {"branch", "open", "checks"} : job' = [job EXCEPT ![h] = j(label)]
      /\ record[i].mode = Green
      /\ record[i].status \in {"approved", "branch_pushed", "pr_created", "waiting_checks"}
  BY Constant DEF BrokerCheck, Base, TypeOK, remote, history
<1>2. <<i, "approve">> \in decided
  BY <1>1 DEF Truth, Truthful, Consented, HeadPushed
<1>3. Alone(h) /\ job'[h].id = i /\ job'[h].pc \in {"branch", "open", "checks"}
  BY <1>1 DEF Alone, NoJob
<1>4. Honest(job[h])'
  BY <1>1, <1>2, <1>3 DEF Honest, OnPath, Locked
<1> QED
  BY <1>1, <1>3, <1>4, TruthOfJob

LEMMA PublishReadTruth ==
    ASSUME Base, Truth, NEW h \in Host, PublishRead(h)
    PROVE  Truth'
<1> DEFINE i == job[h].id
           write == [job[h] EXCEPT !.pc = "publishing", !.copy = record[i]]
           draft == [job[h] EXCEPT !.pc = "draft"]
<1>1. /\ h \in Proc /\ i \in Id /\ job \in [Proc -> Job] /\ job[h] \in Job
      /\ UNCHANGED <<record, used, landed, decided>> /\ Truthful(record[i], i)
  BY Constant, Parts DEF PublishRead, At, Truth, remote, history
<1>2. CASE job' = [job EXCEPT ![h] = write]
  <2>1. /\ job'[h] = write /\ Alone(h)
        /\ write.pc = "publishing" /\ write.id = i /\ write.copy = record[i]
    BY <1>1, <1>2 DEF Alone, Job
  <2> HIDE DEF write
  <2>2. Honest(job[h])'
    BY <1>1, <2>1 DEF Honest, OnPath, Truthful, Consented
  <2> QED
    BY <1>1, <2>1, <2>2, TruthOfJob
<1>3. CASE job' = [job EXCEPT ![h] = draft]
  <2>1. job'[h].pc = "draft" /\ Alone(h)
    BY <1>1, <1>3 DEF Alone, Job
  <2> QED
    BY <1>1, <2>1, Modest, TruthOfJob
<1>4. CASE job' = [job EXCEPT ![h] = NoJob]
  BY <1>1, <1>4, NoJobIsModest, TruthOfJob
<1> QED
  BY <1>2, <1>3, <1>4 DEF PublishRead

LEMMA PublishWriteTruth ==
    ASSUME Base, Truth, NEW h \in Host, PublishWrite(h)
    PROVE  Truth'
<1> DEFINE i == job[h].id
           r == [job[h].copy EXCEPT !.status = "publishing"]
<1>1. /\ h \in Proc /\ job[h].pc = "publishing" /\ i \in Id /\ job[h].copy \in Record
      /\ record' = [record EXCEPT ![i] = r] /\ record \in [Id -> Record]
      /\ Goto(h, "git_push") /\ UNCHANGED <<used, landed, decided>>
      /\ Honest(job[h])
  BY Constant, Parts DEF PublishWrite, At, Base, TypeOK, Truth, remote, history
<1>2. /\ Alone(h) /\ job'[h].pc = "git_push" /\ job'[h].id = i
      /\ job'[h].copy = job[h].copy
  BY <1>1, GotoMoves DEF Alone
<1>3. Honest(job[h])'
  BY <1>1, <1>2 DEF Honest, OnPath, Truthful, Consented, Locked
<1>4. r.status = "publishing"
  BY <1>1 DEF Record
<1>5. ASSUME NEW k \in Id PROVE record'[k] = record[k] \/ Truthful(record[k], k)'
  BY <1>1, <1>4 DEF Truthful, Consented, HeadPushed
<1> QED
  BY <1>1, <1>2, <1>3, <1>5, TruthMoves

LEMMA GitPushTruth ==
    ASSUME Base, Truth, NEW h \in Host, GitPush(h)
    PROVE  Truth'
<1> DEFINE i == job[h].id
           where == IF job[h].copy.mode = "draft_pr" THEN "head" ELSE "main"
<1>1. /\ h \in Proc /\ job[h].pc = "git_push" /\ i \in Id
      /\ UNCHANGED <<record, used, decided>> /\ Honest(job[h])
  BY Constant, Parts DEF GitPush, At, Truth
<1>2. \/ landed' = landed \cup {<<i, where>>} /\ Goto(h, "pushed")
      \/ landed' = landed /\ Goto(h, "push_failed")
  BY DEF GitPush
<1>3. /\ Alone(h) /\ job'[h].pc \in {"pushed", "push_failed"} /\ job'[h].id = i
      /\ job'[h].copy = job[h].copy
      /\ job'[h].pc = "pushed" => <<i, where>> \in landed'
  BY <1>1, <1>2, GotoMoves DEF Alone
<1>4. /\ landed \subseteq landed'
      /\ \A k \in Id : <<k, "merge">> \in landed' => <<k, "merge">> \in landed
  BY <1>2
<1>5. Honest(job[h])'
  BY <1>1, <1>3, <1>4 DEF Honest, OnPath, Truthful, Consented, Locked
<1> QED
  BY <1>1, <1>3, <1>4, <1>5, TruthMoves

LEMMA PublishDoneTruth ==
    ASSUME Base, Truth, NEW h \in Host, PublishDone(h)
    PROVE  Truth'
<1> DEFINE i == job[h].id
           copy == job[h].copy
           r(status) == [copy EXCEPT !.status = status]
<1>1. /\ h \in Proc /\ job[h].pc \in {"pushed", "push_failed"} /\ i \in Id
      /\ copy \in Record /\ record \in [Id -> Record]
      /\ Goto(h, "draft") \/ Goto(h, "idle")
      /\ UNCHANGED <<used, landed, decided>> /\ Honest(job[h])
  BY Constant, Parts DEF PublishDone, At, Base, TypeOK, Truth, remote, history
<1>2. PICK status \in {"branch_pushed", "published", "failed"} :
         /\ record' = [record EXCEPT ![i] = r(status)]
         /\ status = "branch_pushed" => job[h].pc = "pushed" /\ copy.mode = "draft_pr"
         /\ status = "published" => job[h].pc = "pushed" /\ copy.mode # "draft_pr"
  <2>1. CASE /\ job[h].pc = "pushed"
             /\ record' = [record EXCEPT ![i] = r(AfterPush(copy))]
    BY <2>1 DEF AfterPush
  <2>2. CASE record' = [record EXCEPT ![i] = r("failed")]
    BY <2>2
  <2> QED
    BY <2>1, <2>2 DEF PublishDone, At
<1>3. r(status).status = status /\ r(status).mode = copy.mode
  BY <1>1 DEF Record
<1>4. /\ record'[i] = r(status) /\ \A k \in Id : k # i => record'[k] = record[k]
  BY <1>1, <1>2
<1> HIDE DEF r
<1>5. ASSUME NEW k \in Id, k = i PROVE Truthful(record[k], k)'
  <2>1. /\ status = "branch_pushed" => <<k, "head">> \in landed
        /\ status = "published" => <<k, "main">> \in landed
    BY <1>1, <1>2, <1>5 DEF Honest
  <2>2. status = "branch_pushed" => copy.mode # Green
    BY <1>2 DEF Green
  <2> QED
    BY <1>1, <1>3, <1>4, <1>5, <2>1, <2>2 DEF Truthful, Consented, HeadPushed
<1>6. Alone(h) /\ job'[h].pc \in {"draft", "idle"}
  BY <1>1, GotoMoves DEF Alone
<1>7. Honest(job[h])'
  BY <1>1, <1>6, Modest
<1> QED
  BY <1>1, <1>4, <1>5, <1>6, <1>7, TruthMoves

LEMMA DraftPullRequestTruth ==
    ASSUME Base, Truth, NEW h \in Host, DraftPullRequest(h)
    PROVE  Truth'
<1>1. /\ h \in Proc /\ job[h].pc = "draft" /\ UNCHANGED <<record, used, landed, decided>>
      /\ ToRecord(h, "finalize") \/ Goto(h, "idle")
  BY Constant DEF DraftPullRequest, At, remote, history
<1>2. "finalize" \in Op \ {"none"}
  BY DEF Op
<1>3. /\ Alone(h)
      /\ job'[h].pc = "idle" \/ (job'[h].pc = "record" /\ job'[h].op = "finalize")
  BY <1>1, <1>2, GotoMoves, ToRecordMoves DEF Alone
<1> QED
  BY <1>1, <1>3, Modest, TruthOfJob

\* The script ends or is killed.
LEMMA LeavingTruth ==
    ASSUME Base, Truth, NEW h \in Host, BrokerStop(h) \/ Kill(h)
    PROVE  Truth'
<1>1. /\ h \in Proc /\ job' = [job EXCEPT ![h] = NoJob]
      /\ UNCHANGED <<record, used, landed, decided>>
  BY Constant DEF BrokerStop, Kill, Goto, remote, history
<1> QED
  BY <1>1, NoJobIsModest, TruthOfJob

\* The broker goes from a place on its path to the record of what came of it.
LEMMA BrokerRecords ==
    ASSUME Base, Truth, NEW h \in Host, NEW op \in {"push", "pr", "passed", "merge"},
           job[h].pc \in {"branch", "open", "checks", "merge"}, used' = used,
           ToRecord(h, op), landed \subseteq landed', decided \subseteq decided',
           op = "push" => <<job[h].id, "head">> \in landed',
           op = "merge" => <<job[h].id, "merge">> \in landed'
    PROVE  Alone(h) /\ Honest(job[h])'
<1>1. h \in Proc /\ op \in Op \ {"none"}
  BY Constant DEF Op
<1>2. /\ Alone(h) /\ job'[h].pc = "record" /\ job'[h].op = op /\ job'[h].id = job[h].id
  BY <1>1, ToRecordMoves DEF Alone
<1>3. <<job[h].id, "approve">> \in decided
  BY <1>1 DEF Truth, Honest, OnPath
<1> QED
  BY <1>2, <1>3 DEF Honest, OnPath, Locked

LEMMA BranchPushTruth ==
    ASSUME Base, Truth, NEW h \in Host, BranchPush(h)
    PROVE  Truth'
<1>1. /\ h \in Proc /\ job[h].pc = "branch"
      /\ UNCHANGED <<record, used, decided>>
  BY Constant DEF BranchPush, At, history
<1>2. CASE landed' = landed \cup {<<job[h].id, "head">>} /\ ToRecord(h, "push")
  <2>1. /\ landed \subseteq landed' /\ <<job[h].id, "head">> \in landed'
        /\ \A k \in Id : <<k, "merge">> \in landed' => <<k, "merge">> \in landed
    BY <1>2
  <2>2. Alone(h) /\ Honest(job[h])'
    BY <1>1, <1>2, <2>1, BrokerRecords
  <2> QED
    BY <1>1, <2>1, <2>2, TruthMoves
<1>3. CASE landed' = landed /\ Goto(h, "idle")
  BY <1>1, <1>3, NoJobIsModest, TruthOfJob DEF Goto
<1> QED
  BY <1>2, <1>3 DEF BranchPush

\* The pull request is opened, or its checks have passed.
LEMMA OpenOrChecksTruth ==
    ASSUME Base, Truth, NEW h \in Host, OpenPullRequest(h) \/ AwaitChecks(h)
    PROVE  Truth'
<1>1. /\ h \in Proc /\ job[h].pc \in {"open", "checks"}
      /\ UNCHANGED <<record, used, landed, decided>>
      /\ \/ \E op \in {"pr", "passed"} : ToRecord(h, op)
         \/ Goto(h, "idle")
  BY Constant DEF OpenPullRequest, AwaitChecks, At, remote, history
<1>2. ASSUME NEW op \in {"pr", "passed"}, ToRecord(h, op) PROVE Truth'
  BY <1>1, <1>2, BrokerRecords, TruthOfJob
<1>3. CASE Goto(h, "idle")
  BY <1>1, <1>3, NoJobIsModest, TruthOfJob DEF Goto
<1> QED
  BY <1>1, <1>2, <1>3

LEMMA MergePullRequestTruth ==
    ASSUME Base, Truth, NEW h \in Host, MergePullRequest(h)
    PROVE  Truth'
<1>1. /\ h \in Proc /\ job[h].pc = "merge" /\ job[h].id \in Id /\ job[h].id \in used
      /\ UNCHANGED <<record, used, decided>> /\ Honest(job[h])
  BY Constant, Parts DEF MergePullRequest, At, Truth, history
<1>2. <<job[h].id, "approve">> \in decided
  BY <1>1 DEF Honest, OnPath
<1>3. CASE landed' = landed \cup {<<job[h].id, "merge">>}
  <2>1. /\ landed \subseteq landed' /\ <<job[h].id, "merge">> \in landed'
        /\ \A k \in Id : <<k, "merge">> \in landed' =>
              <<k, "merge">> \in landed \/ k = job[h].id
    BY <1>3
  <2>2. CASE ToRecord(h, "merge")
    BY <1>1, <1>2, <2>1, <2>2, BrokerRecords, TruthMoves
  <2>3. CASE Goto(h, "idle")
    BY <1>1, <1>2, <2>1, <2>3, NoJobIsModest, TruthMoves DEF Goto
  <2> QED
    BY <2>2, <2>3 DEF MergePullRequest, Goto
<1>4. CASE landed' = landed /\ Goto(h, "idle")
  BY <1>1, <1>4, NoJobIsModest, TruthOfJob DEF Goto
<1> QED
  BY <1>3, <1>4 DEF MergePullRequest

(***************************************************************************)
(* What mp approve-publish does to the records: it withdraws some and      *)
(* files a new one under a new identity.                                   *)
(***************************************************************************)
Files(i) == i \notin used /\ i \in used' /\ record'[i].status = "pending"

BossOnly ==
    /\ UNCHANGED <<job, landed, pushes, decided>> /\ used \subseteq used'
    /\ \A i \in Id : \/ record'[i] = record[i]
                     \/ record'[i].status \in {"superseded", "absent"}
                     \/ Files(i)

LEMMA ApproveIsBossOnly ==
    ASSUME Base, NEW b \in Boss, Approve(b)
    PROVE  BossOnly
<1>1. /\ record \in [Id -> Record] /\ boss[b] \in BossJob /\ BossOK(boss[b])
  BY DEF Base, TypeOK
<1>2. CASE \E mode \in Asked, commit \in Commit : ListApprovals(b, mode, commit)
  BY <1>2 DEF ListApprovals, BossOnly, remote, history
<1>3. ASSUME NEW i \in Id, Supersede(b, i) PROVE BossOnly
  <2> DEFINE r == [boss[b].old[i] EXCEPT !.status = "superseded"]
  <2>1. r.status = "superseded"
    BY <1>1 DEF BossJob, Record
  <2> HIDE DEF r
  <2>2. record' = [record EXCEPT ![i] = r]
    BY <1>3 DEF Supersede, r
  <2> QED
    BY <1>1, <1>3, <2>1, <2>2 DEF Supersede, BossOnly, remote, history
<1>4. ASSUME NEW i \in Id, CreateApproval(b, i) PROVE BossOnly
  <2> DEFINE r == [NoRecord EXCEPT !.status = "pending", !.mode = boss[b].mode,
                                   !.commit = boss[b].commit]
  <2>1. r.status = "pending"
    BY DEF NoRecord
  <2> HIDE DEF r
  <2>2. record' = [record EXCEPT ![i] = r]
    BY <1>4 DEF CreateApproval, r
  <2> QED
    BY <1>1, <1>4, <2>1, <2>2 DEF CreateApproval, BossOnly, Files, remote, history
<1>5. CASE UnlinkApproval(b)
  <2>1. NoRecord.status = "absent" /\ boss[b].id \in Id
    BY <1>1, <1>5 DEF NoRecord, BossOK, UnlinkApproval, BossAt
  <2> QED
    BY <1>1, <1>5, <2>1 DEF UnlinkApproval, BossOnly, remote, history
<1>6. CASE ResumeCard(b) \/ KillBoss(b)
  BY <1>6 DEF ResumeCard, KillBoss, BossOnly, remote, history
<1> QED
  BY <1>2, <1>3, <1>4, <1>5, <1>6 DEF Approve

LEMMA BossTruth ==
    ASSUME Base, Truth, BossOnly
    PROVE  Truth'
<1>1. ASSUME NEW i \in Id PROVE Truthful(record[i], i)'
  BY <1>1 DEF BossOnly, Files, Truth, Truthful, Consented, HeadPushed
<1>2. ASSUME NEW p \in Proc PROVE Honest(job[p])'
  BY <1>2 DEF BossOnly, Truth, Honest, OnPath, Fits, Truthful, Consented
<1> QED
  BY <1>1, <1>2 DEF BossOnly, Truth

LEMMA TruthStep == Base /\ Truth /\ [Next]_vars => Truth'
<1> SUFFICES ASSUME Base, Truth, [Next]_vars PROVE Truth'
  OBVIOUS
<1>1. ASSUME NEW b \in Boss, Approve(b) PROVE Truth'
  BY <1>1, ApproveIsBossOnly, BossTruth
<1>2. ASSUME NEW h \in Host, Publish(h) \/ Kill(h) PROVE Truth'
  <2>1. CASE \E i \in Id : BridgeCheck(h, i) \/ BrokerCheck(h, i)
    BY <2>1, BridgeCheckTruth, BrokerCheckTruth
  <2>2. CASE PublishRead(h) \/ PublishWrite(h) \/ GitPush(h) \/ PublishDone(h)
    BY <2>2, PublishReadTruth, PublishWriteTruth, GitPushTruth, PublishDoneTruth
  <2>3. CASE DraftPullRequest(h) \/ BrokerStop(h) \/ Kill(h)
    BY <2>3, DraftPullRequestTruth, LeavingTruth
  <2>4. CASE BranchPush(h) \/ OpenPullRequest(h) \/ AwaitChecks(h) \/ MergePullRequest(h)
    BY <2>4, BranchPushTruth, OpenOrChecksTruth, MergePullRequestTruth
  <2> QED
    BY <1>2, <2>1, <2>2, <2>3, <2>4 DEF Publish
<1>3. ASSUME NEW p \in Proc, RecordRead(p) \/ RecordWrite(p) PROVE Truth'
  BY <1>3, RecordReadTruth, RecordWriteTruth
<1>4. ASSUME NEW i \in Id, NEW op \in Op, Decide(i, op) PROVE Truth'
  BY <1>4, DecideTruth
<1>5. CASE MarkReady \/ (\E i \in Id : Expire(i)) \/ UNCHANGED vars
  <2>1. UNCHANGED <<record, used, job, landed, decided>>
    BY <1>5 DEF MarkReady, Expire, vars, remote, history
  <2> QED
    BY <2>1 DEF Truth, Honest, OnPath, Fits, Truthful, Consented
<1> QED
  BY <1>1, <1>2, <1>3, <1>4, <1>5 DEF Next


(***************************************************************************)
(* What may still be rejected has not been published or merged, and nobody *)
(* is about to: not while the record is open, nor while somebody holds an  *)
(* open copy under its lock.  What was rejected is out of everybody's hands*)
(* but those of a broker that has yet to record something, and cannot.     *)
(***************************************************************************)
Undecided == {"pending", "approved"}
Acting == {"git_push", "pushed", "push_failed", "merge"}

Untouched(i) ==
    /\ pushes[i] = 0 /\ <<i, "merge">> \notin landed
    /\ \A q \in Proc : job[q].id = i => job[q].pc \notin Acting

Verdict ==
    /\ \A i \in Id : record[i].status \in Undecided => Untouched(i)
    /\ \A p \in Proc : job[p].pc = "write" /\ job[p].copy.status \in Undecided
            => Untouched(job[p].id)
    /\ \A i \in Id : <<i, "reject">> \in decided =>
            /\ i \in used /\ record[i].status \in {"rejected", "superseded", "absent"}
            /\ pushes[i] = 0 /\ <<i, "merge">> \notin landed
            /\ \A q \in Proc : job[q].id = i => job[q].pc \notin Locked \cup {"merge"}

\* A process goes on outside the lock of any record, and not to a merge; the
\* records, pushes and decisions stay, and nothing is merged.
Drifts(p) ==
    /\ Alone(p) /\ job'[p].pc \notin Locked \cup {"merge"}
    /\ UNCHANGED <<record, used, pushes, decided>>
    /\ \A i \in Id : <<i, "merge">> \in landed' => <<i, "merge">> \in landed

LEMMA UntouchedStays ==
    ASSUME NEW i \in Id, Untouched(i), NEW p \in Proc, Alone(p),
           job'[p].id = i => job'[p].pc \notin Acting,
           pushes'[i] = pushes[i], <<i, "merge">> \in landed' => <<i, "merge">> \in landed
    PROVE  Untouched(i)'
  BY DEF Untouched, Alone

LEMMA DriftVerdict ==
    ASSUME Base, Verdict, NEW p \in Proc, Drifts(p)
    PROVE  Verdict'
<1>1. ASSUME NEW i \in Id, Untouched(i) PROVE Untouched(i)'
  BY <1>1, UntouchedStays DEF Drifts, Acting, Locked
<1>2. ASSUME NEW i \in Id, record'[i].status \in Undecided PROVE Untouched(i)'
  BY <1>1, <1>2 DEF Drifts, Verdict
<1>3. ASSUME NEW q \in Proc, job'[q].pc = "write", job'[q].copy.status \in Undecided,
             NEW i \in Id, job'[q].id = i
      PROVE  Untouched(i)'
  <2>1. job'[q] = job[q]
    BY <1>3 DEF Drifts, Alone, Locked
  <2> QED
    BY <1>1, <1>3, <2>1 DEF Verdict
<1>4. \A q \in Proc : job'[q].pc = "write" => job'[q].id \in Id
  <2>1. ASSUME NEW q \in Proc, job'[q].pc = "write" PROVE job'[q].id \in Id
    <3>1. job'[q] = job[q]
      BY <2>1 DEF Drifts, Alone, Locked
    <3> QED
      BY <2>1, <3>1, Parts
  <2> QED
    BY <2>1
<1>5. ASSUME NEW i \in Id, <<i, "reject">> \in decided'
      PROVE  /\ i \in used' /\ record'[i].status \in {"rejected", "superseded", "absent"}
             /\ pushes'[i] = 0 /\ <<i, "merge">> \notin landed'
             /\ \A q \in Proc : job'[q].id = i => job'[q].pc \notin Locked \cup {"merge"}
  BY <1>5 DEF Drifts, Verdict, Alone
<1> QED
  BY <1>2, <1>3, <1>4, <1>5 DEF Verdict, Untouched

\* The three parts of Verdict, with the approval a copy is of named.
LEMMA VerdictHolds ==
    ASSUME Base',
           \A i \in Id : record'[i].status \in Undecided => Untouched(i)',
           \A q \in Proc, i \in Id :
               job'[q].pc = "write" /\ job'[q].copy.status \in Undecided /\ job'[q].id = i
                   => Untouched(i)',
           \A i \in Id : <<i, "reject">> \in decided' =>
               /\ i \in used' /\ record'[i].status \in {"rejected", "superseded", "absent"}
               /\ pushes'[i] = 0 /\ <<i, "merge">> \notin landed'
               /\ \A q \in Proc : job'[q].id = i => job'[q].pc \notin Locked \cup {"merge"}
    PROVE  Verdict'
<1>1. \A q \in Proc : job'[q].pc = "write" => job'[q].id \in Id
  BY DEF Base, JobOK
<1> QED
  BY <1>1 DEF Verdict, Untouched

\* A process enters the lock of a record that is still active.
LEMMA EnterVerdict ==
    ASSUME Base, Base', Verdict, NEW p \in Proc, NEW i \in Id, Alone(p),
           job'[p].pc \in {"write", "publishing"}, job'[p].id = i,
           job'[p].copy = record[i], record[i].status \in Active,
           UNCHANGED <<record, used, pushes, landed, decided>>
    PROVE  Verdict'
<1>1. ASSUME NEW k \in Id, Untouched(k) PROVE Untouched(k)'
  BY <1>1, UntouchedStays DEF Acting
<1>2. <<i, "reject">> \notin decided
  BY DEF Verdict, Active
<1>3. ASSUME NEW q \in Proc, NEW k \in Id, job'[q].pc = "write",
             job'[q].copy.status \in Undecided, job'[q].id = k
      PROVE  Untouched(k)'
  <2>1. CASE q = p
    BY <1>1, <1>3, <2>1 DEF Verdict
  <2>2. CASE q # p
    BY <1>1, <1>3, <2>2 DEF Verdict, Alone
  <2> QED
    BY <2>1, <2>2
<1>4. ASSUME NEW k \in Id, <<k, "reject">> \in decided'
      PROVE  /\ k \in used' /\ record'[k].status \in {"rejected", "superseded", "absent"}
             /\ pushes'[k] = 0 /\ <<k, "merge">> \notin landed'
             /\ \A q \in Proc : job'[q].id = k => job'[q].pc \notin Locked \cup {"merge"}
  BY <1>2, <1>4 DEF Verdict, Alone
<1> QED
  BY <1>1, <1>3, <1>4, VerdictHolds DEF Verdict

\* The holder of the lock of record i does something with it: what concerns
\* another approval stays, and of i nobody else holds a copy.
LEMMA HolderVerdict ==
    ASSUME Base, Base', Once, Verdict, NEW p \in Proc, NEW i \in Id, Alone(p),
           job[p].pc \in Locked, job[p].id = i, job'[p].id \in {i, NoId},
           job'[p].pc # "write", used' = used,
           \A k \in Id \ {i} : /\ record'[k] = record[k] /\ pushes'[k] = pushes[k]
                               /\ <<k, "merge">> \in landed' => <<k, "merge">> \in landed
                               /\ <<k, "reject">> \in decided' => <<k, "reject">> \in decided,
           record'[i].status \in Undecided => Untouched(i)',
           <<i, "reject">> \in decided' =>
               /\ record'[i].status = "rejected" /\ job'[p].id = NoId
               /\ pushes'[i] = 0 /\ <<i, "merge">> \notin landed'
               /\ \A q \in Proc : q # p /\ job[q].id = i => job[q].pc # "merge"
    PROVE  Verdict'
<1>1. \A q \in Proc : q # p /\ job[q].id = i => job[q].pc \notin Locked
  BY DEF Once, Mutex
<1>2. NoId \notin Id /\ i \in used
  BY IdAssumption, Parts DEF Locked
<1>3. ASSUME NEW k \in Id \ {i}, Untouched(k) PROVE Untouched(k)'
  <2>1. pushes'[k] = 0 /\ <<k, "merge">> \notin landed'
    BY <1>3 DEF Untouched
  <2>2. ASSUME NEW q \in Proc, job'[q].id = k PROVE job'[q].pc \notin Acting
    <3>1. q # p
      BY <1>2, <1>3, <2>2
    <3>2. job'[q] = job[q]
      BY <3>1 DEF Alone
    <3> QED
      BY <1>3, <2>2, <3>2 DEF Untouched
  <2> QED
    BY <2>1, <2>2 DEF Untouched
<1>4. ASSUME NEW k \in Id, record'[k].status \in Undecided PROVE Untouched(k)'
  <2>1. CASE k = i
    BY <1>4, <2>1
  <2>2. CASE k # i
    <3>1. record[k].status \in Undecided
      BY <1>4, <2>2
    <3>2. Untouched(k)
      BY <3>1 DEF Verdict
    <3> QED
      BY <1>3, <2>2, <3>2
  <2> QED
    BY <2>1, <2>2
<1>5. ASSUME NEW q \in Proc, NEW k \in Id, job'[q].pc = "write",
             job'[q].copy.status \in Undecided, job'[q].id = k
      PROVE  Untouched(k)'
  <2>1. q # p /\ job'[q] = job[q]
    BY <1>5 DEF Alone
  <2>2. k # i
    BY <1>1, <1>5, <2>1 DEF Locked
  <2> QED
    BY <1>3, <1>5, <2>1, <2>2 DEF Verdict
<1>6. ASSUME NEW k \in Id, <<k, "reject">> \in decided'
      PROVE  /\ k \in used' /\ record'[k].status \in {"rejected", "superseded", "absent"}
             /\ pushes'[k] = 0 /\ <<k, "merge">> \notin landed'
             /\ \A q \in Proc : job'[q].id = k => job'[q].pc \notin Locked \cup {"merge"}
  <2>1. CASE k # i
    BY <1>2, <1>6, <2>1 DEF Verdict, Alone
  <2>2. CASE k = i
    BY <1>1, <1>2, <1>6, <2>2 DEF Alone
  <2> QED
    BY <2>1, <2>2
<1> QED
  BY <1>4, <1>5, <1>6, VerdictHolds

\* Nobody holds the lock of a record that was rejected.
LEMMA RejectedIsFree ==
    ASSUME Verdict, NEW p \in Proc, job[p].pc \in Locked \cup {"merge"}, job[p].id \in Id
    PROVE  <<job[p].id, "reject">> \notin decided
  BY DEF Verdict

LEMMA RecordWriteVerdict ==
    ASSUME Base, Base', Once, Truth, Verdict, NEW p \in Proc, RecordWrite(p)
    PROVE  Verdict'
<1> DEFINE op == job[p].op
           copy == job[p].copy
<1>1. PICK i \in Id : i = job[p].id
  BY Parts DEF RecordWrite, At
<1> DEFINE r == [copy EXCEPT !.status = Target[op],
                    !.checks = IF op \in {"passed", "pending", "failed"} THEN op ELSE @]
           c == IF After(op) = "merge" THEN copy ELSE NoRecord
           j == [NoJob EXCEPT !.pc = After(op), !.id = i, !.copy = c]
<1>2. /\ job[p].pc = "write" /\ op \in Op \ {"none"} /\ copy \in Record
      /\ record' = [record EXCEPT ![i] = r] /\ record \in [Id -> Record]
      /\ decided' = IF op \in {"approve", "reject"} THEN decided \cup {<<i, op>>} ELSE decided
      /\ job' = [job EXCEPT ![p] = IF After(op) = "idle" THEN NoJob ELSE j]
      /\ job \in [Proc -> Job] /\ UNCHANGED <<used, landed, pushes>>
      /\ Fits(job[p])
  BY <1>1, Parts DEF RecordWrite, At, JobOK, Job, Truth, Honest, remote, Base, TypeOK
<1>3. r.status = Target[op] /\ record'[i].status = Target[op]
  BY <1>2 DEF Record
<1> HIDE DEF r
<1>4. <<i, "reject">> \notin decided
  BY <1>1, <1>2, RejectedIsFree DEF Locked
<1>5. /\ Alone(p) /\ job'[p].id \in {i, NoId} /\ job'[p].pc \in {"idle", "check", "merge"}
      /\ op \in {"approve", "reject"} => job'[p].id = NoId /\ job'[p].pc = "idle"
  <2>1. /\ After(op) \in {"idle", "check", "merge"}
        /\ op \in {"approve", "reject"} => After(op) = "idle"
    BY <1>2 DEF After, Op
  <2>2. j.id = i /\ j.pc = After(op)
    BY DEF NoJob
  <2> HIDE DEF j
  <2> QED
    BY <1>2, <2>1, <2>2, Constant DEF Alone
<1>6. op \in {"approve", "reject"} => Untouched(i)
  BY <1>1, <1>2 DEF Fits, Verdict, Undecided
<1>7. record'[i].status \in Undecided => Untouched(i)'
  <2>1. Target[op] \in Undecided => op = "approve"
    BY <1>2 DEF Target, Undecided, Op
  <2>2. op = "approve" => Untouched(i)'
    BY <1>2, <1>5, <1>6, UntouchedStays DEF Acting
  <2> QED
    BY <1>3, <2>1, <2>2
<1>8. <<i, "reject">> \in decided' =>
         /\ record'[i].status = "rejected" /\ job'[p].id = NoId
         /\ pushes'[i] = 0 /\ <<i, "merge">> \notin landed'
         /\ \A q \in Proc : q # p /\ job[q].id = i => job[q].pc # "merge"
  <2>1. <<i, "reject">> \in decided' => op = "reject"
    BY <1>2, <1>4
  <2> QED
    BY <1>2, <1>3, <1>5, <1>6, <2>1 DEF Target, Untouched, Acting
<1>9. \A k \in Id \ {i} :
         /\ record'[k] = record[k] /\ pushes'[k] = pushes[k]
         /\ <<k, "merge">> \in landed' => <<k, "merge">> \in landed
         /\ <<k, "reject">> \in decided' => <<k, "reject">> \in decided
  BY <1>2
<1>10. job[p].pc \in Locked /\ job'[p].pc # "write"
  BY <1>2, <1>5 DEF Locked
<1> HIDE DEF j
<1> QED
  BY <1>1, <1>2, <1>5, <1>7, <1>8, <1>9, <1>10, HolderVerdict

\* publish, under the lock: the record is marked, pushed for and settled.
LEMMA PublishingVerdict ==
    ASSUME Base, Base', Once, Verdict, NEW h \in Host,
           PublishWrite(h) \/ GitPush(h) \/ PublishDone(h)
    PROVE  Verdict'
<1>1. PICK i \in Id : i = job[h].id
  BY Parts, Constant DEF PublishWrite, GitPush, PublishDone, At
<1>2. /\ h \in Proc /\ job[h].pc \in Locked \ {"write"}
      /\ UNCHANGED <<used, decided>> /\ record \in [Id -> Record]
      /\ pushes \in [Id -> Nat] /\ job[h].copy \in Record
      /\ \E label \in {"git_push", "pushed", "push_failed", "draft", "idle"} : Goto(h, label)
  <2>1. h \in Proc /\ UNCHANGED <<used, decided>> /\ job[h].copy \in Record
        /\ record \in [Id -> Record] /\ pushes \in [Id -> Nat]
    BY Parts, Constant DEF Base, TypeOK, PublishWrite, GitPush, PublishDone, history
  <2>2. job[h].pc \in Locked \ {"write"}
    BY DEF PublishWrite, GitPush, PublishDone, At, Locked
  <2>3. \E label \in {"git_push", "pushed", "push_failed", "draft", "idle"} : Goto(h, label)
    BY DEF PublishWrite, GitPush, PublishDone
  <2> QED
    BY <2>1, <2>2, <2>3
<1>3. /\ Alone(h) /\ job'[h].id \in {i, NoId} /\ job'[h].pc # "write"
  <2>1. PICK label \in {"git_push", "pushed", "push_failed", "draft", "idle"} : Goto(h, label)
    BY <1>2
  <2> QED
    BY <1>1, <1>2, <2>1, GotoMoves DEF Alone, Locked
<1>4. <<i, "reject">> \notin decided
  BY <1>1, <1>2, RejectedIsFree
<1>5. \A k \in Id \ {i} :
         /\ record'[k] = record[k] /\ pushes'[k] = pushes[k]
         /\ <<k, "merge">> \in landed' => <<k, "merge">> \in landed
         /\ <<k, "reject">> \in decided' => <<k, "reject">> \in decided
  <2>1. ASSUME NEW k \in Id \ {i} PROVE record'[k] = record[k] /\ pushes'[k] = pushes[k]
    BY <1>1, <1>2, <2>1 DEF PublishWrite, GitPush, PublishDone, history
  <2>2. landed' \subseteq landed \cup {<<i, "head">>, <<i, "main">>}
    BY <1>1 DEF PublishWrite, GitPush, PublishDone, remote
  <2> QED
    BY <1>2, <2>1, <2>2
<1>6. record'[i].status \notin Undecided
  <2>1. CASE PublishWrite(h) \/ PublishDone(h)
    <3>1. \E status \in {"publishing", "branch_pushed", "published", "failed"} :
             record' = [record EXCEPT ![i] = [job[h].copy EXCEPT !.status = status]]
      BY <1>1, <2>1 DEF PublishWrite, PublishDone, AfterPush
    <3> QED
      BY <1>2, <3>1 DEF Record, Undecided
  <2>2. CASE GitPush(h)
    <3>1. record' = record /\ ~Untouched(i)
      BY <1>1, <1>2, <2>2 DEF GitPush, At, Untouched, Acting
    <3> QED
      BY <3>1 DEF Verdict
  <2> QED
    BY <2>1, <2>2
<1> QED
  BY <1>1, <1>2, <1>3, <1>4, <1>5, <1>6, HolderVerdict

\* The broker merges: nobody may still decide on that approval.
LEMMA MergeVerdict ==
    ASSUME Base, Base', Verdict, NEW h \in Host, MergePullRequest(h)
    PROVE  Verdict'
<1>1. PICK i \in Id : i = job[h].id
  BY Parts, Constant DEF MergePullRequest, At
<1>2. /\ h \in Proc /\ job[h].pc = "merge"
      /\ UNCHANGED <<record, used, pushes, decided>>
      /\ ToRecord(h, "merge") \/ Goto(h, "idle")
      /\ landed' \subseteq landed \cup {<<i, "merge">>}
  BY <1>1, Constant DEF MergePullRequest, At, history, Goto
<1>3. Alone(h) /\ job'[h].pc \in {"record", "idle"}
  <2>1. "merge" \in Op \ {"none"}
    BY DEF Op
  <2> QED
    BY <1>2, <2>1, GotoMoves, ToRecordMoves DEF Alone
<1>4. ~Untouched(i) /\ <<i, "reject">> \notin decided
  BY <1>1, <1>2, RejectedIsFree DEF Untouched, Acting
<1>5. ASSUME NEW k \in Id, Untouched(k) PROVE Untouched(k)'
  BY <1>2, <1>3, <1>4, <1>5, UntouchedStays DEF Acting
<1>6. ASSUME NEW q \in Proc, NEW k \in Id, job'[q].pc = "write",
             job'[q].copy.status \in Undecided, job'[q].id = k
      PROVE  Untouched(k)'
  BY <1>3, <1>5, <1>6 DEF Verdict, Alone
<1>7. ASSUME NEW k \in Id, <<k, "reject">> \in decided'
      PROVE  /\ k \in used' /\ record'[k].status \in {"rejected", "superseded", "absent"}
             /\ pushes'[k] = 0 /\ <<k, "merge">> \notin landed'
             /\ \A q \in Proc : job'[q].id = k => job'[q].pc \notin Locked \cup {"merge"}
  BY <1>2, <1>3, <1>4, <1>7 DEF Verdict, Alone, Locked
<1> QED
  BY <1>2, <1>5, <1>6, <1>7, VerdictHolds DEF Verdict

\* mp approve-publish touches no history; a new identity has none.
LEMMA BossVerdict ==
    ASSUME Base, Base', Truth, Verdict, BossOnly
    PROVE  Verdict'
<1>1. UNCHANGED <<job, landed, pushes, decided>>
  BY DEF BossOnly
<1>2. ASSUME NEW k \in Id, Untouched(k) PROVE Untouched(k)'
  BY <1>1, <1>2 DEF Untouched
<1>3. ASSUME NEW k \in Id, record'[k].status \in Undecided PROVE Untouched(k)'
  <2>1. CASE record'[k] = record[k]
    BY <1>2, <1>3, <2>1 DEF Verdict
  <2>2. CASE Files(k)
    <3>1. pushes[k] = 0 /\ <<k, "merge">> \notin landed
      BY <2>2 DEF Files, Base, Fresh, Truth
    <3>2. \A q \in Proc : job[q].id # k \/ job[q].pc = "idle"
      BY <2>2, Parts DEF Files
    <3> QED
      BY <1>2, <3>1, <3>2 DEF Untouched, Acting
  <2> QED
    BY <1>3, <2>1, <2>2 DEF BossOnly, Undecided
<1>4. ASSUME NEW k \in Id, <<k, "reject">> \in decided'
      PROVE  /\ k \in used' /\ record'[k].status \in {"rejected", "superseded", "absent"}
             /\ pushes'[k] = 0 /\ <<k, "merge">> \notin landed'
             /\ \A q \in Proc : job'[q].id = k => job'[q].pc \notin Locked \cup {"merge"}
  BY <1>1, <1>4 DEF BossOnly, Files, Verdict
<1> QED
  BY <1>1, <1>2, <1>3, <1>4, VerdictHolds DEF Verdict

LEMMA RecordReadVerdict ==
    ASSUME Base, Base', Verdict, NEW p \in Proc, RecordRead(p)
    PROVE  Verdict'
<1>1. PICK i \in Id : i = job[p].id
  BY Parts DEF RecordRead, At
<1> DEFINE j == [job[p] EXCEPT !.pc = "write", !.copy = record[i]]
<1>2. /\ job \in [Proc -> Job] /\ job[p] \in Job /\ job[p].op \in Op \ {"none"}
      /\ UNCHANGED <<record, used, pushes, landed, decided>>
  BY Parts DEF RecordRead, At, JobOK, Job, remote, history
<1>3. CASE MayRecord(i, job[p].op) /\ job' = [job EXCEPT ![p] = j]
  <2>1. /\ Alone(p) /\ job'[p].pc = "write" /\ job'[p].id = i
        /\ job'[p].copy = record[i]
    BY <1>1, <1>2, <1>3 DEF Alone, Job
  <2>2. record[i].status \in Active
    BY <1>2, <1>3 DEF MayRecord, Expected, Active, Op
  <2> QED
    BY <1>2, <2>1, <2>2, EnterVerdict
<1>4. CASE job' = [job EXCEPT ![p] = NoJob]
  <2>1. Drifts(p)
    BY <1>2, <1>4, NoJobIsModest DEF Drifts, Locked
  <2> QED
    BY <2>1, DriftVerdict
<1> QED
  BY <1>1, <1>3, <1>4 DEF RecordRead

LEMMA DecideVerdict ==
    ASSUME Base, Base', Verdict, NEW i \in Id, NEW op \in Op, Decide(i, op)
    PROVE  Verdict'
<1> DEFINE j == [NoJob EXCEPT !.pc = "write", !.id = i, !.op = op, !.copy = record[i]]
<1>1. /\ "person" \in Proc /\ job \in [Proc -> Job] /\ job' = [job EXCEPT !["person"] = j]
      /\ op \in {"approve", "reject", "pending", "failed"} /\ MayRecord(i, op)
      /\ UNCHANGED <<record, used, pushes, landed, decided>>
  BY Constant DEF Decide, Base, TypeOK, remote, history
<1>2. /\ Alone("person") /\ job'["person"].pc = "write" /\ job'["person"].id = i
      /\ job'["person"].copy = record[i]
  BY <1>1 DEF Alone, NoJob
<1>3. record[i].status \in Active
  BY <1>1 DEF MayRecord, Expected, Active
<1> QED
  BY <1>1, <1>2, <1>3, EnterVerdict

LEMMA PublishReadVerdict ==
    ASSUME Base, Base', Verdict, NEW h \in Host, PublishRead(h)
    PROVE  Verdict'
<1>1. PICK i \in Id : i = job[h].id
  BY Parts, Constant DEF PublishRead, At
<1> DEFINE write == [job[h] EXCEPT !.pc = "publishing", !.copy = record[i]]
           draft == [job[h] EXCEPT !.pc = "draft"]
<1>2. /\ h \in Proc /\ job \in [Proc -> Job] /\ job[h] \in Job
      /\ UNCHANGED <<record, used, pushes, landed, decided>>
  BY Constant, Parts DEF PublishRead, remote, history
<1>3. CASE Publishable(i) /\ job' = [job EXCEPT ![h] = write]
  <2>1. /\ Alone(h) /\ job'[h].pc = "publishing" /\ job'[h].id = i
        /\ job'[h].copy = record[i]
    BY <1>1, <1>2, <1>3 DEF Alone, Job
  <2>2. record[i].status \in Active
    BY <1>3 DEF Publishable, Active
  <2> QED
    BY <1>2, <2>1, <2>2, EnterVerdict
<1>4. CASE job' = [job EXCEPT ![h] = draft] \/ job' = [job EXCEPT ![h] = NoJob]
  <2>1. Alone(h) /\ job'[h].pc \in {"draft", "idle"}
    BY <1>2, <1>4, NoJobIsModest DEF Alone, Job
  <2>2. Drifts(h)
    BY <1>2, <2>1 DEF Drifts, Locked
  <2> QED
    BY <1>2, <2>2, DriftVerdict
<1> QED
  BY <1>1, <1>3, <1>4 DEF PublishRead

\* A preflight only reads.
LEMMA CheckVerdict ==
    ASSUME Base, Verdict, NEW h \in Host, NEW i \in Id,
           BridgeCheck(h, i) \/ BrokerCheck(h, i)
    PROVE  Verdict'
<1> DEFINE j(label, r) == [NoJob EXCEPT !.pc = label, !.id = i, !.copy = r]
           plain(label) == [NoJob EXCEPT !.pc = label, !.id = i]
<1>1. /\ h \in Proc /\ job \in [Proc -> Job]
      /\ UNCHANGED <<record, used, pushes, landed, decided>>
      /\ \/ \E label \in {"publish", "draft"} : job' = [job EXCEPT ![h] = plain(label)]
         \/ \E label \in {"branch", "open", "checks"} :
                job' = [job EXCEPT ![h] = j(label, record[i])]
  BY Constant DEF BridgeCheck, BrokerCheck, Base, TypeOK, remote, history
<1>2. Alone(h) /\ job'[h].pc \in {"publish", "draft", "branch", "open", "checks"}
  BY <1>1 DEF Alone, NoJob
<1>3. Drifts(h)
  BY <1>1, <1>2 DEF Drifts, Locked
<1> QED
  BY <1>1, <1>3, DriftVerdict

\* The other steps of the bridge and of the broker end with an outcome to
\* record, or with nothing.
LEMMA RemoteVerdict ==
    ASSUME Base, Verdict, NEW h \in Host,
           \/ DraftPullRequest(h) \/ BrokerStop(h) \/ Kill(h) \/ BranchPush(h)
           \/ OpenPullRequest(h) \/ AwaitChecks(h)
    PROVE  Verdict'
<1>1. /\ h \in Proc /\ job[h].pc # "idle" /\ UNCHANGED <<record, used, pushes, decided>>
  BY Constant DEF DraftPullRequest, BrokerStop, Kill, BranchPush, OpenPullRequest,
                  AwaitChecks, At, history
<1>2. \A i \in Id : <<i, "merge">> \in landed' => <<i, "merge">> \in landed
  <2>1. landed' = landed \/ landed' = landed \cup {<<job[h].id, "head">>}
    BY DEF DraftPullRequest, BrokerStop, Kill, BranchPush, OpenPullRequest, AwaitChecks, remote
  <2> QED
    BY <2>1
<1>3. \/ \E op \in Op \ {"none"} : ToRecord(h, op)
      \/ Goto(h, "idle")
  BY DEF DraftPullRequest, BrokerStop, Kill, BranchPush, OpenPullRequest, AwaitChecks, Op
<1>4. Alone(h) /\ job'[h].pc \in {"record", "idle"}
  BY <1>1, <1>3, GotoMoves, ToRecordMoves DEF Alone
<1>5. Drifts(h)
  BY <1>1, <1>2, <1>4 DEF Drifts, Locked
<1> QED
  BY <1>1, <1>5, DriftVerdict

LEMMA VerdictStep ==
    ASSUME Base, Base', Once, Truth, Verdict, [Next]_vars
    PROVE  Verdict'
<1>1. ASSUME NEW b \in Boss, Approve(b) PROVE Verdict'
  BY <1>1, ApproveIsBossOnly, BossVerdict
<1>2. ASSUME NEW h \in Host, Publish(h) \/ Kill(h) PROVE Verdict'
  <2>1. CASE \E i \in Id : BridgeCheck(h, i) \/ BrokerCheck(h, i)
    BY <2>1, CheckVerdict
  <2>2. CASE PublishRead(h) \/ PublishWrite(h) \/ GitPush(h) \/ PublishDone(h)
    BY <2>2, PublishReadVerdict, PublishingVerdict
  <2>3. CASE \/ DraftPullRequest(h) \/ BrokerStop(h) \/ Kill(h) \/ BranchPush(h)
             \/ OpenPullRequest(h) \/ AwaitChecks(h)
    BY <2>3, RemoteVerdict
  <2>4. CASE MergePullRequest(h)
    BY <2>4, MergeVerdict
  <2> QED
    BY <1>2, <2>1, <2>2, <2>3, <2>4 DEF Publish
<1>3. ASSUME NEW p \in Proc, RecordRead(p) \/ RecordWrite(p) PROVE Verdict'
  BY <1>3, RecordReadVerdict, RecordWriteVerdict
<1>4. ASSUME NEW i \in Id, NEW op \in Op, Decide(i, op) PROVE Verdict'
  BY <1>4, DecideVerdict
<1>5. CASE MarkReady \/ (\E i \in Id : Expire(i)) \/ UNCHANGED vars
  <2>1. UNCHANGED <<record, used, job, landed, pushes, decided>>
    BY <1>5 DEF MarkReady, Expire, vars, remote, history
  <2> QED
    BY <2>1 DEF Verdict, Untouched
<1> QED
  BY <1>1, <1>2, <1>3, <1>4, <1>5 DEF Next

LEMMA InitFacts == Init => Once /\ Truth /\ Verdict
<1> SUFFICES ASSUME Init PROVE Once /\ Truth /\ Verdict
  OBVIOUS
<1>1. /\ \A p \in Proc : job[p].pc = "idle"
      /\ \A i \in Id : record[i].status = "absent" /\ pushes[i] = 0
      /\ landed = {} /\ decided = {}
  BY Constant DEF Init, NoRecord
<1>2. Once
  BY Constant DEF Init, Once, Mutex, Spent, Due, Locked
<1>3. Truth
  BY <1>1 DEF Truth, Truthful, Consented, HeadPushed, Honest, OnPath, Locked
<1>4. Verdict
  BY <1>1 DEF Verdict, Undecided
<1> QED
  BY <1>2, <1>3, <1>4

Facts == Base /\ Once /\ Truth /\ Verdict

LEMMA FactsAlways == Spec => []Facts
<1>1. Init => Facts
  BY InitBase, InitFacts DEF Facts
<1>2. Facts /\ [Next]_vars => Facts'
  BY NextBase, OnceStep, TruthStep, VerdictStep DEF Facts
<1> QED
  BY <1>1, <1>2, PTL DEF Spec

\* The CEO decides: the broker merges only what was asked for and approved, and
\* what was rejected is neither published nor merged, before or after
\* (_transition, project_publisher.py:565-585, under the lock of the record), for
\* any number of approvals, host scripts, crashes and Boss's replacements.
THEOREM DecisionsHoldAlways == Spec => []DecisionsHold
<1>1. Facts => DecisionsHold
  BY DEF Facts, Truth, Verdict, DecisionsHold
<1> QED
  BY <1>1, FactsAlways, PTL


(***************************************************************************)
(* One request of an intent waits: whoever has listed the approvals under  *)
(* the lock of the directory is alone there, and every pending one of its  *)
(* mode is still on the list.                                              *)
(***************************************************************************)
OnePending ==
    \A i, k \in Id : record[i].status = "pending" /\ record[k].status = "pending"
                        /\ record[i].mode = record[k].mode => i = k

Listing ==
    \A b \in Boss : boss[b].pc = "supersede" =>
        /\ \A c \in Boss : c # b => boss[c].pc # "supersede"
        /\ \A i \in Id : record[i].status = "pending" /\ record[i].mode = boss[b].mode =>
                boss[b].old[i].status \in Active /\ boss[b].old[i].mode = boss[b].mode

Waiting == OnePending /\ Listing
\* Nobody but mp approve-publish makes a record pending or changes one that is.
PendingKept ==
    /\ boss' = boss
    /\ \A i \in Id : record'[i].status = "pending" => record'[i] = record[i]

\* Under the lock of a record its copy is written back with a status of its own.
LEMMA WritesBack ==
    ASSUME Base, NEW i \in Id, NEW copy \in Record, NEW status \in Status \ {"pending"},
           NEW checks, boss' = boss,
           record' = [record EXCEPT ![i] = [copy EXCEPT !.status = status, !.checks = checks]]
    PROVE  PendingKept
<1> DEFINE r == [copy EXCEPT !.status = status, !.checks = checks]
<1>1. r.status # "pending"
  BY DEF Record
<1> HIDE DEF r
<1>2. record' = [record EXCEPT ![i] = r] /\ record \in [Id -> Record]
  BY DEF r, Base, TypeOK
<1> QED
  BY <1>1, <1>2 DEF PendingKept

LEMMA OthersKeepPending ==
    ASSUME Base,
           \/ \E h \in Host : Publish(h) \/ Kill(h)
           \/ \E p \in Proc : RecordRead(p) \/ RecordWrite(p)
           \/ \E i \in Id, op \in Op : Decide(i, op)
           \/ \E i \in Id : Expire(i)
           \/ MarkReady
           \/ UNCHANGED vars
    PROVE  PendingKept
<1>1. ASSUME NEW p \in Proc, RecordWrite(p) PROVE PendingKept
  <2> DEFINE op == job[p].op
             checks == IF op \in {"passed", "pending", "failed"} THEN op
                       ELSE job[p].copy.checks
  <2>1. /\ job[p].id \in Id /\ job[p].copy \in Record /\ op \in Op \ {"none"}
        /\ boss' = boss
    BY <1>1, Parts DEF RecordWrite, At, JobOK, Job
  <2>2. Target[op] \in Status \ {"pending"}
    BY <2>1 DEF Target, Op, Status, Active
  <2>3. [job[p].copy EXCEPT !.status = Target[op],
             !.checks = IF op \in {"passed", "pending", "failed"} THEN op ELSE @]
        = [job[p].copy EXCEPT !.status = Target[op], !.checks = checks]
    BY <2>1 DEF Record
  <2> HIDE DEF checks
  <2>4. record' = [record EXCEPT ![job[p].id] =
                      [job[p].copy EXCEPT !.status = Target[op], !.checks = checks]]
    BY <1>1, <2>3 DEF RecordWrite
  <2> QED
    BY <2>1, <2>2, <2>4, WritesBack
<1>2. ASSUME NEW h \in Host, PublishWrite(h) \/ PublishDone(h) PROVE PendingKept
  <2>1. /\ job[h].id \in Id /\ job[h].copy \in Record /\ boss' = boss
        /\ record \in [Id -> Record]
    BY <1>2, Parts, Constant DEF PublishWrite, PublishDone, At, Base, TypeOK
  <2>2. PICK status \in {"publishing", "branch_pushed", "published", "failed"} :
           record' = [record EXCEPT ![job[h].id] = [job[h].copy EXCEPT !.status = status]]
    BY <1>2 DEF PublishWrite, PublishDone, AfterPush
  <2> QED
    BY <2>1, <2>2 DEF PendingKept, Record
<1>3. ASSUME NEW h \in Host, Publish(h) \/ Kill(h) PROVE PendingKept
  <2>1. CASE PublishWrite(h) \/ PublishDone(h)
    BY <2>1, <1>2
  <2>2. CASE ~(PublishWrite(h) \/ PublishDone(h))
    <3>1. record' = record /\ boss' = boss
      BY <1>3, <2>2 DEF Publish, Kill, BridgeCheck, BrokerCheck, BrokerStop, PublishRead,
         GitPush, DraftPullRequest, BranchPush, OpenPullRequest, AwaitChecks, MergePullRequest
    <3> QED
      BY <3>1 DEF PendingKept
  <2> QED
    BY <2>1, <2>2
<1>4. CASE \/ \E p \in Proc : RecordRead(p)
           \/ \E i \in Id, op \in Op : Decide(i, op)
           \/ \E i \in Id : Expire(i)
           \/ MarkReady
           \/ UNCHANGED vars
  <2>1. record' = record /\ boss' = boss
    BY <1>4 DEF RecordRead, Decide, Expire, MarkReady, vars
  <2> QED
    BY <2>1 DEF PendingKept
<1> QED
  BY <1>1, <1>3, <1>4

LEMMA KeptWaiting ==
    ASSUME Waiting, PendingKept
    PROVE  Waiting'
  BY DEF Waiting, OnePending, Listing, PendingKept

\* A Boss process goes to a place where it has listed nothing, and withdraws
\* at most.
LEMMA BossLeavesList ==
    ASSUME Base, Waiting, NEW b \in Boss,
           \A a \in Boss : a # b => boss'[a] = boss[a],
           boss'[b].pc # "supersede",
           \A i \in Id : record'[i].status = "pending" => record'[i] = record[i]
    PROVE  Waiting'
<1>1. OnePending'
  BY DEF Waiting, OnePending
<1>2. Listing'
  BY DEF Waiting, Listing
<1> QED
  BY <1>1, <1>2 DEF Waiting

LEMMA ListApprovalsWaiting ==
    ASSUME Base, Waiting, NEW b \in Boss, NEW mode \in Mode, NEW commit \in Commit,
           ListApprovals(b, mode, commit)
    PROVE  Waiting'
<1> DEFINE listed == Conflicts(record, mode)
           old == [i \in Id |-> IF i \in listed THEN record[i] ELSE NoRecord]
           j == [NoBossJob EXCEPT !.pc = "supersede", !.mode = mode,
                                  !.commit = commit, !.old = old]
<1>1. /\ boss \in [Boss -> BossJob] /\ record' = record
      /\ \A a \in Boss : boss[a].pc # "supersede"
      /\ boss' = [boss EXCEPT ![b] = j] \/ \E i \in Id : boss' = [boss EXCEPT ![b] = Resuming(i)]
  BY DEF ListApprovals, Conflicts, BossAt, Base, TypeOK
<1>2. OnePending'
  BY <1>1 DEF Waiting, OnePending
<1>3. CASE \E i \in Id : boss' = [boss EXCEPT ![b] = Resuming(i)]
  <2>1. /\ boss'[b].pc # "supersede"
        /\ \A a \in Boss : a # b => boss'[a] = boss[a]
    BY <1>1, <1>3 DEF Resuming, NoBossJob
  <2> QED
    BY <1>1, <2>1, BossLeavesList
<1>4. CASE boss' = [boss EXCEPT ![b] = j]
  <2>1. boss'[b] = j /\ j.mode = mode /\ j.old = old
    BY <1>1, <1>4 DEF NoBossJob
  <2>2. \A a \in Boss : a # b => boss'[a].pc # "supersede"
    BY <1>1, <1>4
  <2>3. ASSUME NEW i \in Id, record[i].status = "pending", record[i].mode = mode
        PROVE  old[i].status \in Active /\ old[i].mode = mode
    BY <2>3 DEF Conflicts, Active
  <2> HIDE DEF j, old
  <2>4. Listing'
    BY <1>1, <2>1, <2>2, <2>3 DEF Listing
  <2> QED
    BY <1>2, <2>4 DEF Waiting
<1> QED
  BY <1>1, <1>3, <1>4

LEMMA SupersedeWaiting ==
    ASSUME Base, Waiting, NEW b \in Boss, NEW i \in Id, Supersede(b, i)
    PROVE  Waiting'
<1> DEFINE r == [boss[b].old[i] EXCEPT !.status = "superseded"]
           old == [boss[b].old EXCEPT ![i] = NoRecord]
           j == [boss[b] EXCEPT !.old = old]
<1>1. /\ boss \in [Boss -> BossJob] /\ boss[b] \in BossJob /\ record \in [Id -> Record]
      /\ boss[b].pc = "supersede" /\ record' = [record EXCEPT ![i] = r]
  BY DEF Supersede, BossAt, Base, TypeOK
<1>2. r.status = "superseded"
  BY <1>1 DEF BossJob, Record
<1>3. /\ boss' = [boss EXCEPT ![b] = j]
      /\ j.pc = "supersede" /\ j.mode = boss[b].mode /\ j.old = old
      /\ \A k \in Id : k # i => old[k] = boss[b].old[k]
  BY <1>1 DEF Supersede, BossJob
<1> HIDE DEF r, j, old
<1>4. \A k \in Id : record'[k].status = "pending" => k # i /\ record'[k] = record[k]
  BY <1>1, <1>2
<1>5. OnePending'
  BY <1>4 DEF Waiting, OnePending
<1>6. /\ boss'[b] = j /\ \A a \in Boss : a # b => boss'[a] = boss[a]
  BY <1>1, <1>3
<1>7. Listing'
  BY <1>1, <1>3, <1>4, <1>6 DEF Waiting, Listing
<1> QED
  BY <1>5, <1>7 DEF Waiting

LEMMA CreateApprovalWaiting ==
    ASSUME Base, Waiting, NEW b \in Boss, NEW i \in Id, CreateApproval(b, i)
    PROVE  Waiting'
<1> DEFINE r == [NoRecord EXCEPT !.status = "pending", !.mode = boss[b].mode,
                                 !.commit = boss[b].commit]
<1>1. /\ boss \in [Boss -> BossJob] /\ record \in [Id -> Record]
      /\ boss[b].pc = "supersede" /\ record' = [record EXCEPT ![i] = r]
      /\ boss' = [boss EXCEPT ![b] = Resuming(i)]
      /\ Conflicts(boss[b].old, boss[b].mode) = {}
  BY DEF CreateApproval, BossAt, Base, TypeOK
<1>2. r.mode = boss[b].mode
  BY DEF NoRecord
<1> HIDE DEF r
<1>3. \A k \in Id : record[k].status = "pending" => record[k].mode # boss[b].mode
  BY <1>1 DEF Waiting, Listing, Conflicts
<1>4. \A k \in Id : IF k = i THEN record'[k] = r ELSE record'[k] = record[k]
  BY <1>1
<1>5. OnePending'
  BY <1>2, <1>3, <1>4 DEF Waiting, OnePending
<1>6. Resuming(i).pc = "resume"
  BY DEF Resuming, NoBossJob
<1>7. \A a \in Boss : boss'[a].pc # "supersede"
  BY <1>1, <1>6 DEF Waiting, Listing
<1>8. Listing'
  BY <1>7 DEF Listing
<1> QED
  BY <1>5, <1>8 DEF Waiting

LEMMA LaterBossWaiting ==
    ASSUME Base, Waiting, NEW b \in Boss,
           ResumeCard(b) \/ UnlinkApproval(b) \/ KillBoss(b)
    PROVE  Waiting'
<1>1. /\ boss \in [Boss -> BossJob] /\ boss[b] \in BossJob /\ BossOK(boss[b])
      /\ record \in [Id -> Record]
  BY DEF Base, TypeOK
<1>2. \E label \in {"idle", "unlink"} : BossGoto(b, label)
  BY DEF ResumeCard, UnlinkApproval, KillBoss
<1>3. \A a \in Boss : a # b => boss'[a] = boss[a]
  BY <1>1, <1>2 DEF BossGoto
<1>4. boss'[b].pc # "supersede"
  BY <1>1, <1>2, Constant DEF BossGoto, BossJob
<1>5. \A k \in Id : record'[k].status = "pending" => record'[k] = record[k]
  <2>1. NoRecord.status # "pending"
    BY DEF NoRecord
  <2> QED
    BY <1>1, <2>1 DEF ResumeCard, UnlinkApproval, KillBoss
<1> QED
  BY <1>3, <1>4, <1>5, BossLeavesList

LEMMA WaitingStep == Base /\ Waiting /\ [Next]_vars => Waiting'
<1> SUFFICES ASSUME Base, Waiting, [Next]_vars PROVE Waiting'
  OBVIOUS
<1>1. ASSUME NEW b \in Boss, Approve(b) PROVE Waiting'
  BY <1>1, ListApprovalsWaiting, SupersedeWaiting, CreateApprovalWaiting,
     LaterBossWaiting, ModeAssumption DEF Approve
<1>2. CASE ~\E b \in Boss : Approve(b)
  BY <1>2, OthersKeepPending, KeptWaiting DEF Next
<1> QED
  BY <1>1, <1>2

LEMMA WaitingAlways == Spec => []Waiting
<1>1. Init => Waiting
  BY Constant DEF Init, Waiting, OnePending, Listing, NoRecord
<1> QED
  BY <1>1, WaitingStep, BaseAlways, PTL DEF Spec

\* At most one request of an intent waits for the CEO (create_approval lists and
\* supersedes under the lock of the directory, project_publisher.py:322-357), and a
\* record says merged, published or pushed only when that happened on the remote,
\* for any number of approve-publish commands and host scripts and any kills.
THEOREM RecordsAreTrueAlways == Spec => []RecordsAreTrue
<1>1. Facts /\ Waiting => RecordsAreTrue
  BY DEF Facts, Truth, Truthful, HeadPushed, Waiting, OnePending, RecordsAreTrue
<1> QED
  BY <1>1, FactsAlways, WaitingAlways, PTL

=============================================================================
