------------------------- MODULE ProviderSwitchProofs -------------------------
(***************************************************************************)
(* Theorems about ProviderSwitch, for any agents, profiles, switches,      *)
(* requests and bounds: the types, that a transaction works under the lock *)
(* from its snapshot to its end, and that an undisturbed one is whole.     *)
(***************************************************************************)
EXTENDS ProviderSwitch, SequenceTheorems, TLAPS

-----------------------------------------------------------------------------
(* What is true of the job of a process                                    *)

\* The steps at which mp runs for one agent.
OfAnAgent == Spawning \cup Killing \cup Reviving \cup {"authorize", "fail"}

\* The steps of a rollback.
OfRollback == RollingBack \cup Killing \cup Reviving \cup Spawning \cup {"unlock", "exit"}

\* The steps at which a switch may be without the lock.
Outside == {"read", "lock", "exit", "done"}

Placed(p, r) ==
    /\ r \in Job
    /\ r.pc \in OfAnAgent => r.agent \in Agent
    /\ r.rolling => p \in Switch /\ r.pc \in OfRollback

JobsAreSound == job \in [Proc -> Job] /\ \A p \in Proc : Placed(p, job[p])

\* A step of p takes a switch to work with the lock or after a late failure, keeps
\* a rollback a rollback, and does not begin the script anew.
Keeps(p, r) ==
    /\ Placed(p, r)
    /\ r.pc \in {"read", "lock"} => job[p].pc = "read"
    /\ p \in Switch /\ r.pc \notin Outside /\ job[p].pc \in Outside => lock' = p \/ late'[p]
    /\ job[p].rolling \/ job[p].pc \in {"restore", "done"}
       => r.rolling \/ r.pc \in {"restore", "done"}

KeepsOrder(p) == \E r : Keeps(p, r) /\ job' = [job EXCEPT ![p] = r]

LEMMA Names ==
    /\ All \notin Agent /\ Free \notin Switch /\ "sup" \notin Switch
    /\ FirstProfile \in Profile /\ Inherit \notin Profile
BY NameAssumption

LEMMA FirstRowIsTyped == FirstRow \in Row
BY NameAssumption DEF FirstRow, Row

LEMMA NoJobIsTyped ==
    ASSUME NEW label \in Label
    PROVE  NoJob(label) \in Job
BY NameAssumption, FirstRowIsTyped DEF NoJob, Job

\* Goto and GoOn keep the job sound where the label fits.
LEMMA GotoKeeps ==
    ASSUME JobsAreSound, NEW p \in Proc, NEW label \in Label, Goto(p, label),
           label \in OfAnAgent => job[p].agent \in Agent,
           label \in {"read", "lock"} => job[p].pc = "read",
           p \in Switch /\ label \notin Outside /\ job[p].pc \in Outside
               => lock' = p \/ late'[p],
           job[p].rolling => label \in OfRollback,
           job[p].pc \notin {"restore", "done"}
    PROVE  KeepsOrder(p)
<1> DEFINE r == [job[p] EXCEPT !.pc = label]
<1>1. job[p] \in Job /\ Placed(p, job[p])
  BY DEF JobsAreSound
<1>2. r \in Job /\ r.pc = label /\ r.agent = job[p].agent /\ r.rolling = job[p].rolling
  BY <1>1 DEF Job
<1>3. job' = [job EXCEPT ![p] = r]
  BY DEF Goto, JobsAreSound
<1> HIDE DEF r
<1> QED
  BY <1>1, <1>2, <1>3 DEF KeepsOrder, Keeps, Placed

LEMMA GoOnKeeps ==
    ASSUME JobsAreSound, NEW p \in Proc, NEW label \in Label, NEW left \in SUBSET Agent,
           GoOn(p, label, left), label \notin OfAnAgent \cup {"read", "lock"},
           p \in Switch /\ label \notin Outside /\ job[p].pc \in Outside
               => lock' = p \/ late'[p],
           job[p].rolling => label \in OfRollback,
           job[p].pc \notin {"restore", "done"}
    PROVE  KeepsOrder(p)
<1> DEFINE n == NoJob(label)
           r == [n EXCEPT !.left = left, !.copy = job[p].copy, !.rolling = job[p].rolling]
<1>1. job[p] \in Job /\ Placed(p, job[p])
  BY DEF JobsAreSound
<1>2. n \in Job /\ n.pc = label
  BY NoJobIsTyped DEF NoJob
<1>3. job' = [job EXCEPT ![p] = r]
  BY DEF GoOn, JobsAreSound
<1> HIDE DEF n
<1>4. r \in Job /\ r.pc = label /\ r.rolling = job[p].rolling
  BY <1>1, <1>2 DEF Job
<1> HIDE DEF r
<1> QED
  BY <1>1, <1>3, <1>4 DEF KeepsOrder, Keeps, Placed

\* A process that begins anew with a label of its own.
LEMMA AnewKeeps ==
    ASSUME JobsAreSound, NEW p \in Proc, NEW label \in Label \ (OfAnAgent \cup {"read", "lock"}),
           job' = [job EXCEPT ![p] = NoJob(label)],
           p \in Switch /\ label \notin Outside /\ job[p].pc \in Outside
               => lock' = p \/ late'[p],
           job[p].rolling \/ job[p].pc \in {"restore", "done"} => label \in {"restore", "done"}
    PROVE  KeepsOrder(p)
<1> DEFINE r == NoJob(label)
<1>1. r \in Job /\ r.pc = label /\ ~r.rolling
  BY NoJobIsTyped DEF NoJob
<1> HIDE DEF r
<1>2. Keeps(p, r)
  BY <1>1 DEF Keeps, Placed
<1> QED
  BY <1>2 DEF KeepsOrder, r

LEMMA RollingKeeps ==
    ASSUME JobsAreSound, NEW p \in Switch, NEW label \in OfRollback \ OfAnAgent,
           NEW left \in SUBSET Agent, NEW n, n = NoJob(label),
           job' = [job EXCEPT ![p] = [n EXCEPT !.left = left, !.rolling = TRUE]],
           job[p].pc \notin Outside
    PROVE  KeepsOrder(p)
<1> DEFINE r == [n EXCEPT !.left = left, !.rolling = TRUE]
<1>1. n \in Job /\ n.pc = label
  BY NoJobIsTyped DEF NoJob, OfRollback, Label, InPhase
<1>2. r \in Job /\ r.pc = label /\ r.rolling
  BY <1>1 DEF Job
<1> HIDE DEF r
<1>3. Keeps(p, r)
  BY <1>2 DEF Keeps, Placed, OfRollback, RollingBack, Killing, Reviving, Spawning
<1> QED
  BY <1>3 DEF KeepsOrder, r

LEMMA FirstIsIn ==
    ASSUME NEW left \in SUBSET Agent, left # {}
    PROVE  FirstOf(left) \in left
BY DEF FirstOf

-----------------------------------------------------------------------------
(* The job after each step                                                 *)

LEMMA SwitchIsProc ==
    Switch \subseteq Proc /\ "sup" \in Proc
BY DEF Proc

LEMMA ScriptKeeps ==
    ASSUME JobsAreSound, TypeOK, NEW s \in Switch,
           \/ Read(s) \/ Lock(s) \/ Save(s) \/ Prepared(s) \/ Copy(s) \/ Activate(s)
           \/ Bind(s) \/ Restore(s)
    PROVE  KeepsOrder(s)
<1> USE SwitchIsProc DEF At, Look, OfRollback, RollingBack, Killing, Reviving, Spawning,
                         Outside, OfAnAgent, Label, InPhase, Forward
<1>0. Placed(s, job[s]) /\ job[s] \in Job
  BY DEF JobsAreSound, Placed
<1>a. job[s].rolling => job[s].pc \in OfRollback
  BY <1>0 DEF Placed
<1>b. file[s].active \in SUBSET Agent /\ job[s].left \in SUBSET Agent
  BY <1>0 DEF TypeOK, File, Job
<1>1. CASE Read(s)
  BY <1>0, <1>a, <1>b, <1>1, GotoKeeps DEF Read
<1>2. CASE Lock(s)
  <2>1. CASE Goto(s, "done")
    BY <1>0, <1>a, <1>2, <2>1, GotoKeeps DEF Lock
  <2>2. CASE lock' = s /\ Goto(s, "save")
    BY <1>0, <1>a, <1>2, <2>2, GotoKeeps DEF Lock
  <2> QED
    BY <1>2, <2>1, <2>2 DEF Lock
<1>3. CASE Save(s)
  BY <1>0, <1>a, <1>b, <1>3, GotoKeeps DEF Save
<1>4. CASE Prepared(s)
  BY <1>0, <1>a, <1>b, <1>4, GotoKeeps DEF Prepared
<1>5. CASE Copy(s)
  BY <1>0, <1>a, <1>b, <1>5, GoOnKeeps DEF Copy
<1>6. CASE Activate(s)
  BY <1>0, <1>a, <1>b, <1>6, GotoKeeps DEF Activate
<1>7. CASE Bind(s)
  BY <1>0, <1>a, <1>b, <1>7, GoOnKeeps DEF Bind, GoTo
<1>8. CASE Restore(s)
  <2> DEFINE n == NoJob("roll_read")
             r == [n EXCEPT !.rolling = TRUE]
  <2>1. n \in Job /\ n.pc = "roll_read"
    BY NoJobIsTyped DEF NoJob
  <2>2. job' = [job EXCEPT ![s] = r] /\ job[s].pc = "restore"
    BY <1>8 DEF Restore
  <2> HIDE DEF n
  <2>3. r \in Job /\ r.pc = "roll_read" /\ r.rolling
    BY <2>1 DEF Job
  <2> HIDE DEF r
  <2> QED
    BY <2>2, <2>3 DEF KeepsOrder, Keeps, Placed
<1> QED
  BY <1>1, <1>2, <1>3, <1>4, <1>5, <1>6, <1>7, <1>8

LEMMA KillingKeeps ==
    ASSUME JobsAreSound, TypeOK, NEW s \in Switch,
           \/ Stop(s) \/ KillRow(s) \/ KillWindow(s) \/ KillFinal(s) \/ Stopped(s)
    PROVE  KeepsOrder(s)
<1> USE SwitchIsProc DEF At, Look, OfRollback, RollingBack, Killing, Reviving, Spawning,
                         Outside, OfAnAgent, Label, InPhase, Forward
<1>0. Placed(s, job[s]) /\ job[s] \in Job
  BY DEF JobsAreSound, Placed
<1>a. job[s].rolling => job[s].pc \in OfRollback
  BY <1>0 DEF Placed
<1>b. file[s].active \in SUBSET Agent /\ job[s].left \in SUBSET Agent
  BY <1>0 DEF TypeOK, File, Job
<1>1. CASE Stop(s)
  <2> DEFINE a == FirstOf(job[s].left)
             r == [job[s] EXCEPT !.pc = "kill_row", !.agent = a, !.left = @ \ {a}]
  <2>1. a \in Agent
    BY <1>b, <1>1, FirstIsIn DEF Stop
  <2>2. job' = [job EXCEPT ![s] = r]
    BY <1>1 DEF Stop, JobsAreSound
  <2> HIDE DEF a
  <2>3. r \in Job /\ r.pc = "kill_row" /\ r.agent \in Agent /\ r.rolling = job[s].rolling
    BY <1>0, <2>1 DEF Job
  <2> HIDE DEF r
  <2> QED
    BY <1>0, <1>1, <2>2, <2>3 DEF KeepsOrder, Keeps, Placed, Stop
<1>2. CASE KillRow(s)
  <2> DEFINE stopping == [roster[job[s].agent] EXCEPT !.retired = TRUE, !.alive = FALSE]
             r == [job[s] EXCEPT !.pc = "kill_window", !.held = stopping]
  <2>1. job[s].agent \in Agent
    BY <1>0, <1>2 DEF Placed, KillRow
  <2>2. stopping \in Row
    <3>1. roster[job[s].agent] \in Row
      BY <2>1 DEF TypeOK
    <3> QED
      BY <3>1 DEF Row
  <2>3. job' = [job EXCEPT ![s] = r]
    BY <1>2 DEF KillRow, JobsAreSound
  <2> HIDE DEF stopping
  <2>4. r \in Job /\ r.pc = "kill_window" /\ r.agent \in Agent /\ r.rolling = job[s].rolling
    BY <1>0, <2>1, <2>2 DEF Job
  <2> HIDE DEF r
  <2> QED
    BY <1>0, <1>2, <2>3, <2>4 DEF KeepsOrder, Keeps, Placed, KillRow
<1>3. CASE KillWindow(s)
  BY <1>0, <1>a, <1>b, <1>3, GotoKeeps DEF KillWindow, Placed
<1>4. CASE KillFinal(s)
  BY <1>0, <1>a, <1>b, <1>4, GoOnKeeps DEF KillFinal, GoTo
<1>5. CASE Stopped(s)
  BY <1>0, <1>a, <1>b, <1>5, GoOnKeeps DEF Stopped, WritePhase
<1> QED
  BY <1>1, <1>2, <1>3, <1>4, <1>5

LEMMA RevivalKeeps ==
    ASSUME JobsAreSound, TypeOK, NEW s \in Switch,
           \/ Revive(s) \/ Authorize(s) \/ Revived(s) \/ VerifyRows(s) \/ VerifyWindows(s)
           \/ Commit(s) \/ Abort(s) \/ Unlock(s) \/ Exit(s)
    PROVE  KeepsOrder(s)
<1> USE SwitchIsProc DEF At, Look, OfRollback, RollingBack, Killing, Reviving, Spawning,
                         Outside, OfAnAgent, Label, InPhase, Forward
<1>0. Placed(s, job[s]) /\ job[s] \in Job
  BY DEF JobsAreSound, Placed
<1>a. job[s].rolling => job[s].pc \in OfRollback
  BY <1>0 DEF Placed
<1>b. file[s].active \in SUBSET Agent /\ job[s].left \in SUBSET Agent
  BY <1>0 DEF TypeOK, File, Job
<1>1. CASE Revive(s)
  <2> DEFINE a == FirstOf(job[s].left)
             r == [job[s] EXCEPT !.pc = "authorize", !.agent = a]
  <2>1. a \in Agent
    BY <1>b, <1>1, FirstIsIn DEF Revive
  <2>2. job' = [job EXCEPT ![s] = r]
    BY <1>1 DEF Revive, JobsAreSound
  <2> HIDE DEF a
  <2>3. r \in Job /\ r.pc = "authorize" /\ r.agent \in Agent /\ r.rolling = job[s].rolling
    BY <1>0, <2>1 DEF Job
  <2> HIDE DEF r
  <2> QED
    BY <1>0, <1>a, <1>1, <2>2, <2>3 DEF KeepsOrder, Keeps, Placed, Revive
<1>2. CASE Authorize(s)
  BY <1>0, <1>a, <1>b, <1>2, GotoKeeps DEF Authorize, Placed
<1>3. CASE Revived(s)
  BY <1>0, <1>a, <1>b, <1>3, GoOnKeeps DEF Revived, WritePhase
<1>4. CASE VerifyRows(s)
  BY <1>0, <1>a, <1>b, <1>4, GotoKeeps DEF VerifyRows
<1>5. CASE VerifyWindows(s)
  BY <1>0, <1>a, <1>b, <1>5, GotoKeeps, GoOnKeeps DEF VerifyWindows, WritePhase
<1>6. CASE Commit(s)
  BY <1>0, <1>a, <1>b, <1>6, GoOnKeeps DEF Commit, WritePhase
<1>7. CASE Abort(s)
  BY <1>0, <1>a, <1>b, <1>7, GoOnKeeps DEF Abort, WritePhase
<1>8. CASE Unlock(s)
  BY <1>0, <1>a, <1>b, <1>8, GoOnKeeps DEF Unlock, GoTo
<1>9. CASE Exit(s)
  BY <1>0, <1>a, <1>9, AnewKeeps DEF Exit
<1> QED
  BY <1>1, <1>2, <1>3, <1>4, <1>5, <1>6, <1>7, <1>8, <1>9

LEMMA RollbackKeeps ==
    ASSUME JobsAreSound, TypeOK, NEW s \in Switch,
           \/ RollRead(s) \/ RollStopped(s) \/ RollBind(s) \/ RollSave(s)
           \/ RollRevive(s) \/ RollDone(s)
    PROVE  KeepsOrder(s)
<1> USE SwitchIsProc DEF At, Look, OfRollback, RollingBack, Killing, Reviving, Spawning,
                         Outside, OfAnAgent, Label, InPhase, Forward
<1>0. Placed(s, job[s]) /\ job[s] \in Job
  BY DEF JobsAreSound, Placed
<1>a. job[s].rolling => job[s].pc \in OfRollback
  BY <1>0 DEF Placed
<1>b. file[s].active \in SUBSET Agent /\ job[s].left \in SUBSET Agent
  BY <1>0 DEF TypeOK, File, Job
<1>1. CASE RollRead(s)
  <2> DEFINE r == [job[s] EXCEPT !.pc = "roll_stop", !.copy = roster,
                                 !.left = file[s].active]
  <2>1. job' = [job EXCEPT ![s] = r]
    BY <1>1 DEF RollRead, JobsAreSound
  <2>2. r \in Job /\ r.pc = "roll_stop" /\ r.rolling = job[s].rolling
    BY <1>0, <1>b DEF Job, TypeOK
  <2> HIDE DEF r
  <2> QED
    BY <1>1, <2>1, <2>2 DEF KeepsOrder, Keeps, Placed, RollRead
<1>2. CASE RollStopped(s)
  BY <1>0, <1>a, <1>b, <1>2, GotoKeeps DEF RollStopped
<1>3. CASE RollBind(s)
  BY <1>0, <1>a, <1>b, <1>3, GotoKeeps DEF RollBind
<1>4. CASE RollSave(s)
  <2> DEFINE n == NoJob("roll_revive")
  <2>1. job' = [job EXCEPT ![s] = [n EXCEPT !.left = file[s].active, !.rolling = TRUE]]
        /\ job[s].pc = "roll_save"
    BY <1>4 DEF RollSave
  <2> HIDE DEF n
  <2>2. n = NoJob("roll_revive")
    BY DEF n
  <2> QED
    BY <1>b, <2>1, <2>2, RollingKeeps
<1>5. CASE RollRevive(s)
  <2> DEFINE a == FirstOf(job[s].left)
             r == [job[s] EXCEPT !.pc = "load", !.agent = a]
  <2>1. a \in Agent
    BY <1>b, <1>5, FirstIsIn DEF RollRevive
  <2>2. job' = [job EXCEPT ![s] = r]
    BY <1>5 DEF RollRevive, JobsAreSound
  <2> HIDE DEF a
  <2>3. r \in Job /\ r.pc = "load" /\ r.agent \in Agent /\ r.rolling = job[s].rolling
    BY <1>0, <2>1 DEF Job
  <2> HIDE DEF r
  <2> QED
    BY <1>0, <1>a, <1>5, <2>2, <2>3 DEF KeepsOrder, Keeps, Placed, RollRevive
<1>6. CASE RollDone(s)
  BY <1>0, <1>a, <1>b, <1>6, GoOnKeeps DEF RollDone, WritePhase
<1> QED
  BY <1>1, <1>2, <1>3, <1>4, <1>5, <1>6

LEMMA InterruptedKeeps ==
    ASSUME JobsAreSound, NEW s \in Switch, NEW label \in {"done", "restore", "unlock"},
           Interrupted(s, label),
           label = "restore" /\ job[s].pc \in Outside => late'[s],
           label = "unlock" => job[s].pc \notin Outside,
           job[s].pc \notin {"restore", "done"},
           job[s].rolling => label # "restore"
    PROVE  KeepsOrder(s)
<1> DEFINE n == NoJob(label)
           r == [n EXCEPT !.rolling = label = "unlock"]
<1>1. n \in Job /\ n.pc = label
  BY NoJobIsTyped DEF NoJob, Label, InPhase
<1>2. job' = [job EXCEPT ![s] = r]
  BY DEF Interrupted
<1> HIDE DEF n
<1>3. r \in Job /\ r.pc = label /\ (r.rolling <=> label = "unlock")
  BY <1>1 DEF Job
<1> HIDE DEF r
<1>4. Keeps(s, r)
  BY <1>3 DEF Keeps, Placed, OfAnAgent, Spawning, Killing, Reviving, OfRollback, Outside
<1> QED
  BY <1>2, <1>4 DEF KeepsOrder

LEMMA TermKeeps ==
    ASSUME JobsAreSound, TypeOK, NEW s \in Switch, Term(s)
    PROVE  KeepsOrder(s)
<1> USE SwitchIsProc DEF At, Look, OfRollback, RollingBack, Killing, Reviving, Spawning,
                         Outside, OfAnAgent, Label, InPhase, Forward
<1>0. Placed(s, job[s]) /\ job[s] \in Job
  BY DEF JobsAreSound, Placed
<1>a. job[s].rolling => job[s].pc \in OfRollback
  BY <1>0 DEF Placed
<1>b. file[s].active \in SUBSET Agent /\ job[s].left \in SUBSET Agent
  BY <1>0 DEF TypeOK, File, Job
<1>1. CASE TermPrepare(s)
  BY <1>0, <1>1, InterruptedKeeps DEF TermPrepare
<1>2. CASE TermLast(s)
  <2>1. Interrupted(s, "done") /\ job[s].pc \notin {"restore", "done"}
    BY <1>2 DEF TermLast
  <2> QED
    BY <2>1, InterruptedKeeps
<1>3. CASE TermForward(s)
  <2>1. job[s].pc \in Outside => job[s].pc = "exit"
    BY <1>3 DEF TermForward
  <2>2. job[s].pc \in Outside => late'[s]
    BY <1>3, <2>1 DEF TermForward, TypeOK
  <2> QED
    BY <1>0, <1>3, <2>2, InterruptedKeeps DEF TermForward
<1>4. CASE TermRollback(s)
  <2>1. /\ Interrupted(s, "unlock") /\ job[s].pc \notin Outside
        /\ job[s].pc \notin {"restore", "done"}
    BY <1>a, <1>4 DEF TermRollback
  <2> QED
    BY <2>1, InterruptedKeeps
<1> QED
  BY <1>1, <1>2, <1>3, <1>4 DEF Term

LEMMA MpReviveKeeps ==
    ASSUME JobsAreSound, TypeOK, NEW p \in Proc, MpRevive(p)
    PROVE  KeepsOrder(p)
<1> USE SwitchIsProc DEF At, Look, OfRollback, RollingBack, Killing, Reviving, Spawning,
                         Outside, OfAnAgent, Label, InPhase, Forward
<1>0. Placed(p, job[p]) /\ job[p] \in Job
  BY DEF JobsAreSound, Placed
<1>a. job[p].rolling => job[p].pc \in OfRollback
  BY <1>0 DEF Placed
<1>b. job[p].left \in SUBSET Agent
  BY <1>0 DEF Job
<1>c. job[p].pc \in OfAnAgent => job[p].agent \in Agent
  BY <1>0 DEF Placed
<1>d. p = "sup" => ~job[p].rolling
  BY <1>0, Names DEF Placed
<1>1. CASE SpawnTarget(p)
  <2>0. job[p].agent \in Agent /\ job[p].pc = "target"
    BY <1>c, <1>1 DEF SpawnTarget
  <2>1. ASSUME Goto(p, IF Resumes(p) THEN "put_back" ELSE Failed(p))
        PROVE  KeepsOrder(p)
    BY <1>0, <1>a, <1>d, <2>0, <2>1, GotoKeeps DEF Resumes, Failed
  <2>2. CASE ~Goto(p, IF Resumes(p) THEN "put_back" ELSE Failed(p))
    <3> DEFINE a == job[p].agent
               held == IF Resumes(p) THEN job[p].held ELSE roster[a]
               using == Effective(bindings, a)
               pc == IF Found(a) THEN "row" ELSE "window"
               r == [job[p] EXCEPT !.pc = pc, !.held = held, !.using = using]
    <3>1. held \in Row /\ using \in Profile /\ pc \in {"row", "window"}
      BY <1>0, <2>0 DEF TypeOK, Job, Bindings, Effective
    <3>2. job' = [job EXCEPT ![p] = r]
      BY <1>1, <2>2 DEF SpawnTarget, JobsAreSound
    <3> HIDE DEF held, using, pc
    <3>3. r \in Job /\ r.pc = pc /\ r.agent = job[p].agent /\ r.rolling = job[p].rolling
      BY <1>0, <3>1 DEF Job
    <3> HIDE DEF r
    <3> QED
      BY <1>0, <2>0, <3>1, <3>2, <3>3 DEF KeepsOrder, Keeps, Placed
  <2> QED
    BY <2>1, <2>2
<1>2. CASE SpawnWindow(p)
  <2>0. job[p].agent \in Agent /\ job[p].pc = "window"
    BY <1>c, <1>2 DEF SpawnWindow
  <2>1. ASSUME Goto(p, IF Resumes(p) THEN "put_back" ELSE Failed(p))
        PROVE  KeepsOrder(p)
    BY <1>0, <1>a, <1>d, <2>0, <2>1, GotoKeeps DEF Resumes, Failed
  <2>2. CASE windows[job[p].agent] = <<>>
    <3> DEFINE n == IF Resumes(p) THEN job[p].held.session ELSE minted[job[p].agent] + 1
               r == [job[p] EXCEPT !.pc = "row", !.made = TRUE, !.new = n]
    <3>1. n \in Nat
      BY <1>0, <2>0 DEF TypeOK, Job, Row
    <3>2. job' = [job EXCEPT ![p] = r]
      BY <1>2, <2>2 DEF SpawnWindow, JobsAreSound
    <3> HIDE DEF n
    <3>3. r \in Job /\ r.pc = "row" /\ r.agent = job[p].agent /\ r.rolling = job[p].rolling
      BY <1>0, <3>1 DEF Job
    <3> HIDE DEF r
    <3> QED
      BY <1>0, <2>0, <3>2, <3>3 DEF KeepsOrder, Keeps, Placed
  <2> QED
    BY <1>2, <2>1, <2>2 DEF SpawnWindow
<1>3. ASSUME Handled(p), job[p].pc \in {"row", "found"}, job[p].rolling => Resumes(p)
      PROVE  KeepsOrder(p)
  BY <1>0, <1>a, <1>b, <1>d, <1>3, GoOnKeeps DEF Handled
<1>4. CASE SpawnFresh(p)
  BY <1>3, <1>4 DEF SpawnFresh, Resumes
<1>5. CASE SpawnResumed(p)
  BY <1>0, <1>a, <1>c, <1>5, GotoKeeps DEF SpawnResumed
<1>6. CASE ReviveLoad(p)
  <2>0. job[p].agent \in Agent /\ job[p].pc = "load"
    BY <1>c, <1>6 DEF ReviveLoad
  <2>1. ASSUME Goto(p, Failed(p))
        PROVE  KeepsOrder(p)
    BY <1>0, <1>a, <1>d, <2>0, <2>1, GotoKeeps DEF Failed
  <2>2. CASE ~Goto(p, Failed(p))
    <3> DEFINE held == roster[job[p].agent]
               r == [job[p] EXCEPT !.pc = "mark", !.held = held]
    <3>1. held \in Row
      BY <2>0 DEF TypeOK
    <3>2. job' = [job EXCEPT ![p] = r]
      BY <1>6, <2>2 DEF ReviveLoad, JobsAreSound
    <3> HIDE DEF held
    <3>3. r \in Job /\ r.pc = "mark" /\ r.agent = job[p].agent /\ r.rolling = job[p].rolling
      BY <1>0, <3>1 DEF Job
    <3> HIDE DEF r
    <3> QED
      BY <1>0, <2>0, <3>2, <3>3 DEF KeepsOrder, Keeps, Placed
  <2> QED
    BY <2>1, <2>2
<1>7. CASE ReviveMark(p)
  BY <1>0, <1>a, <1>c, <1>7, GotoKeeps DEF ReviveMark
<1>8. CASE ReviveFound(p)
  <2>1. CASE Handled(p)
    BY <1>3, <1>8, <2>1 DEF ReviveFound, Resumes
  <2>2. CASE Goto(p, "put_back")
    BY <1>0, <1>a, <1>c, <1>8, <2>2, GotoKeeps DEF ReviveFound
  <2> QED
    BY <1>8, <2>1, <2>2 DEF ReviveFound
<1>9. CASE ReviveFails(p)
  BY <1>0, <1>a, <1>c, <1>d, <1>9, GotoKeeps DEF ReviveFails, Failed
<1> QED
  BY <1>1, <1>2, <1>4, <1>5, <1>6, <1>7, <1>8, <1>9 DEF MpRevive, Spawn

LEMMA SuperviseKeeps ==
    ASSUME JobsAreSound, TypeOK, Supervise
    PROVE  KeepsOrder("sup")
<1> USE SwitchIsProc DEF At, Look, OfRollback, RollingBack, Killing, Reviving, Spawning,
                         Outside, OfAnAgent, Label, InPhase, Forward
<1>0. Placed("sup", job["sup"]) /\ job["sup"] \in Job
  BY DEF JobsAreSound, Placed
<1>a. job["sup"].rolling => job["sup"].pc \in OfRollback
  BY <1>0 DEF Placed
<1>b. job["sup"].left \in SUBSET Agent
  BY <1>0 DEF Job
<1>c. ~job["sup"].rolling /\ "sup" \notin Switch /\ "sup" \in Proc
  BY <1>0, Names DEF Placed
<1>1. CASE SupTurn
  <2> DEFINE n == NoJob("decide")
             r == [n EXCEPT !.left = Agent, !.copy = roster]
  <2>1. n \in Job /\ n.pc = "decide" /\ ~n.rolling
    BY NoJobIsTyped DEF NoJob
  <2>2. job' = [job EXCEPT !["sup"] = r] /\ job["sup"].pc = "idle"
    BY <1>1 DEF SupTurn
  <2> HIDE DEF n
  <2>3. r \in Job /\ r.pc = "decide" /\ ~r.rolling
    BY <2>1 DEF Job, TypeOK
  <2> HIDE DEF r
  <2> QED
    BY <1>c, <2>2, <2>3 DEF KeepsOrder, Keeps, Placed
<1>2. CASE SupPass
  BY <1>0, <1>b, <1>c, <1>2, GoOnKeeps DEF SupPass
<1>3. CASE SupDecide
  <2> DEFINE a == FirstOf(job["sup"].left)
             r == [job["sup"] EXCEPT !.pc = "load", !.agent = a]
  <2>0. a \in Agent /\ job["sup"].pc = "decide"
    BY <1>b, <1>3, FirstIsIn DEF SupDecide
  <2>1. CASE GoOn("sup", "decide", job["sup"].left \ {a})
    BY <1>b, <1>c, <2>0, <2>1, GoOnKeeps
  <2>2. CASE job' = [job EXCEPT !["sup"].pc = "load", !["sup"].agent = a]
    <3>1. job' = [job EXCEPT !["sup"] = r]
      BY <2>2 DEF JobsAreSound
    <3> HIDE DEF a
    <3>2. r \in Job /\ r.pc = "load" /\ r.agent \in Agent /\ r.rolling = job["sup"].rolling
      BY <1>0, <2>0 DEF Job
    <3> HIDE DEF r
    <3> QED
      BY <1>c, <2>0, <3>1, <3>2 DEF KeepsOrder, Keeps, Placed
  <2> QED
    BY <1>3, <2>1, <2>2 DEF SupDecide
<1>4. CASE MpRevive("sup")
  BY <1>c, <1>4, MpReviveKeeps
<1>5. CASE SupFail
  BY <1>0, <1>b, <1>c, <1>5, GoOnKeeps DEF SupFail, Handled
<1>6. CASE SupDone
  BY <1>0, <1>c, <1>6, AnewKeeps DEF SupDone
<1> QED
  BY <1>1, <1>2, <1>3, <1>4, <1>5, <1>6 DEF Supervise

-----------------------------------------------------------------------------
(* The types of everything but the job                                     *)

RestTyped ==
    /\ host \in Bindings /\ bindings \in Bindings
    /\ roster \in [Agent -> Row]
    /\ windows \in [Agent -> Seq(Window)]
    /\ \A a \in Agent : Len(windows[a]) <= MaxWindows
    /\ minted \in [Agent -> Nat]
    /\ lock \in Switch \cup {Free}
    /\ phase \in [Switch -> Phase] /\ file \in [Switch -> File]
    /\ late \in [Switch -> BOOLEAN] /\ cut \in [Switch -> BOOLEAN]
    /\ alone \in [Switch -> BOOLEAN] /\ single \in [Switch -> BOOLEAN]
    /\ terms \in Nat /\ deaths \in Nat /\ turns \in Nat
    /\ terms + deaths + turns <= MaxEvents

LEMMA TypeOKSplits == TypeOK <=> RestTyped /\ job \in [Proc -> Job]
BY DEF TypeOK, RestTyped

LEMMA PutRowIsTyped ==
    ASSUME RestTyped, NEW p, NEW new, PutRow(p, new), job[p].agent \in Agent => new \in Row
    PROVE  RestTyped'
<1>1. roster' \in [Agent -> Row]
  BY DEF RestTyped, PutRow
<1> QED
  BY <1>1 DEF RestTyped, PutRow, history, bounds

LEMMA WritePhaseIsTyped ==
    ASSUME RestTyped, NEW s \in Switch, NEW label, NEW to \in Phase, NEW next,
           WritePhase(s, label, to, next)
    PROVE  RestTyped'
BY DEF RestTyped, WritePhase, agents, history, bounds

\* A step that changes no more than the job.
Quiet == UNCHANGED <<host, bindings, agents, lock, phase, file, history, bounds>>

LEMMA QuietIsTyped ==
    ASSUME RestTyped, Quiet
    PROVE  RestTyped'
BY DEF RestTyped, Quiet, agents, history, bounds

LEMMA OneWindowListIsTyped ==
    ASSUME RestTyped, NEW a, NEW w, a \in Agent => w \in Seq(Window) /\ Len(w) <= MaxWindows,
           windows' = [windows EXCEPT ![a] = w]
    PROVE  /\ windows' \in [Agent -> Seq(Window)]
           /\ \A b \in Agent : Len(windows'[b]) <= MaxWindows
BY DEF RestTyped

\* kill-window: the window goes if the name finds it.
LEMMA ClosedIsTyped ==
    ASSUME RestTyped, NEW a,
           windows' = [windows EXCEPT ![a] = IF Len(@) = 1 THEN <<>> ELSE @]
    PROVE  /\ windows' \in [Agent -> Seq(Window)]
           /\ \A b \in Agent : Len(windows'[b]) <= MaxWindows
<1> DEFINE w == IF Len(windows[a]) = 1 THEN <<>> ELSE windows[a]
<1>1. a \in Agent => w \in Seq(Window) /\ Len(w) <= MaxWindows
  BY BoundAssumption DEF RestTyped
<1>2. windows' = [windows EXCEPT ![a] = w]
  OBVIOUS
<1> HIDE DEF w
<1> QED
  BY <1>1, <1>2, OneWindowListIsTyped

LEMMA ReboundIsTyped ==
    ASSUME NEW b \in Bindings, NEW q \in Requests
    PROVE  Rebound(b, q) \in Bindings
<1>1. q \in [agent : Agent \cup {All}, profile : Profile \cup {Inherit}]
      /\ (q.agent = All => q.profile # Inherit)
  BY RequestAssumption
<1>2. CASE q.agent # All
  BY <1>1, <1>2 DEF Rebound, Bindings
<1>3. CASE q.agent = All
  BY <1>1, <1>3 DEF Rebound, Bindings
<1> QED
  BY <1>2, <1>3

LEMMA ScriptTypes ==
    ASSUME TypeOK, RestTyped, NEW s \in Switch,
           \/ Read(s) \/ Lock(s) \/ Save(s) \/ Prepared(s) \/ Copy(s) \/ Activate(s)
           \/ Bind(s) \/ Restore(s)
    PROVE  RestTyped'
<1>0. file[s] \in File /\ file[s].asked \in Requests /\ file[s].prev \in Bindings
  BY DEF RestTyped, File
<1>1. CASE Read(s)
  <2> DEFINE r == [file[s] EXCEPT !.prev = host]
  <2>1. r \in File
    BY <1>0 DEF RestTyped, File
  <2>2. file' = [file EXCEPT ![s] = r]
    BY <1>1 DEF RestTyped, Read
  <2> HIDE DEF r
  <2>3. file' \in [Switch -> File]
    BY <2>1, <2>2 DEF RestTyped
  <2> QED
    BY <1>1, <2>3 DEF RestTyped, Read, agents, history, bounds
<1>2. CASE Lock(s)
  <2>1. /\ lock' \in Switch \cup {Free} /\ alone' \in [Switch -> BOOLEAN]
        /\ single' \in [Switch -> BOOLEAN]
    BY <1>2 DEF RestTyped, Lock, At
  <2> QED
    BY <1>2, <2>1 DEF RestTyped, Lock, agents, bounds
<1>3. CASE Save(s)
  <2>1. Selected(s) \in SUBSET Agent
    BY DEF Selected
  <2> DEFINE f == [file EXCEPT ![s].saved = bindings, ![s].snap = roster,
                               ![s].active = Selected(s)]
  <2>2. f \in [Switch -> File]
    <3> DEFINE r == [file[s] EXCEPT !.saved = bindings, !.snap = roster, !.active = Selected(s)]
    <3>1. r \in File
      BY <1>0, <2>1 DEF RestTyped, File
    <3>2. f = [file EXCEPT ![s] = r]
      BY DEF RestTyped
    <3> HIDE DEF r, f
    <3> QED
      BY <3>1, <3>2 DEF RestTyped
  <2>3. file' \in {file, f} /\ lock' \in {lock, Free}
        /\ phase' \in {phase, [phase EXCEPT ![s] = "prepared"]}
    BY <1>3 DEF Save
  <2> HIDE DEF f
  <2>4. file' \in [Switch -> File] /\ lock' \in Switch \cup {Free}
        /\ phase' \in [Switch -> Phase]
    BY <2>2, <2>3 DEF RestTyped, Phase
  <2>5. UNCHANGED <<host, bindings, agents, history, bounds>>
    BY <1>3 DEF Save
  <2> QED
    BY <2>4, <2>5 DEF RestTyped, agents, history, bounds
<1>4. CASE Prepared(s) \/ Copy(s) \/ Activate(s)
  BY <1>4, QuietIsTyped DEF Prepared, Copy, Activate, Look, Quiet
<1>5. CASE Bind(s)
  <2>1. host' \in Bindings /\ bindings' \in Bindings
    BY <1>0, <1>5, ReboundIsTyped DEF RestTyped, Bind
  <2> QED
    BY <1>5, <2>1 DEF RestTyped, Bind, agents, history, bounds
<1>6. CASE Restore(s)
  BY <1>0, <1>6 DEF RestTyped, Restore, agents, history, bounds
<1> QED
  BY <1>1, <1>2, <1>3, <1>4, <1>5, <1>6

LEMMA KillingTypes ==
    ASSUME TypeOK, RestTyped, JobsAreSound, NEW s \in Switch,
           \/ Stop(s) \/ KillRow(s) \/ KillWindow(s) \/ KillFinal(s) \/ Stopped(s)
    PROVE  RestTyped'
<1>0. job[s] \in Job
  BY SwitchIsProc DEF JobsAreSound
<1>1. CASE Stop(s)
  BY <1>1, QuietIsTyped DEF Stop, Quiet
<1>2. CASE KillRow(s)
  BY <1>2, PutRowIsTyped DEF KillRow, RestTyped, Row
<1>3. CASE KillWindow(s)
  <2>1. windows' \in [Agent -> Seq(Window)] /\ \A a \in Agent : Len(windows'[a]) <= MaxWindows
    BY <1>3, ClosedIsTyped DEF KillWindow
  <2> QED
    BY <1>3, <2>1 DEF RestTyped, KillWindow, history, bounds
<1>4. CASE KillFinal(s)
  BY <1>0, <1>4, PutRowIsTyped DEF KillFinal, Job
<1>5. CASE Stopped(s)
  BY <1>5, WritePhaseIsTyped DEF Stopped, Phase
<1> QED
  BY <1>1, <1>2, <1>3, <1>4, <1>5

LEMMA RevivalTypes ==
    ASSUME TypeOK, RestTyped, NEW s \in Switch,
           \/ Revive(s) \/ Authorize(s) \/ Revived(s) \/ VerifyRows(s) \/ VerifyWindows(s)
           \/ Commit(s) \/ Abort(s) \/ Unlock(s) \/ Exit(s)
    PROVE  RestTyped'
<1>1. CASE Revive(s) \/ Authorize(s) \/ VerifyRows(s) \/ Exit(s)
  BY <1>1, QuietIsTyped DEF Revive, Authorize, VerifyRows, Exit, Look, Quiet
<1>2. CASE VerifyWindows(s)
  <2>1. CASE Look(s, "restore")
    BY <2>1, QuietIsTyped DEF Look, Quiet
  <2>2. CASE WritePhase(s, "verify_windows", "verified", "commit")
    BY <2>2, WritePhaseIsTyped DEF Phase
  <2> QED
    BY <1>2, <2>1, <2>2 DEF VerifyWindows
<1>3. CASE Revived(s)
  BY <1>3, WritePhaseIsTyped DEF Revived, Phase
<1>4. CASE Commit(s)
  BY <1>4, WritePhaseIsTyped DEF Commit, Phase
<1>5. CASE Abort(s)
  BY <1>5, WritePhaseIsTyped DEF Abort, Phase
<1>6. CASE Unlock(s)
  BY <1>6 DEF RestTyped, Unlock, agents, history, bounds
<1> QED
  BY <1>1, <1>2, <1>3, <1>4, <1>5, <1>6

LEMMA RollbackTypes ==
    ASSUME TypeOK, RestTyped, JobsAreSound, NEW s \in Switch,
           \/ RollRead(s) \/ RollStopped(s) \/ RollBind(s) \/ RollSave(s)
           \/ RollRevive(s) \/ RollDone(s)
    PROVE  RestTyped'
<1>0. job[s] \in Job /\ file[s] \in File
  BY SwitchIsProc DEF JobsAreSound, RestTyped
<1>1. CASE RollRead(s) \/ RollStopped(s) \/ RollRevive(s)
  BY <1>1, QuietIsTyped DEF RollRead, RollStopped, RollRevive, Quiet
<1>2. CASE RollBind(s)
  BY <1>0, <1>2 DEF RestTyped, RollBind, File, agents, history, bounds
<1>3. CASE RollSave(s)
  <2>1. roster' \in [Agent -> Row]
    BY <1>0, <1>3 DEF RollSave, File, Job
  <2> QED
    BY <1>3, <2>1 DEF RestTyped, RollSave, history, bounds
<1>4. CASE RollDone(s)
  BY <1>4, WritePhaseIsTyped DEF RollDone, Phase
<1> QED
  BY <1>1, <1>2, <1>3, <1>4

LEMMA TermTypes ==
    ASSUME TypeOK, RestTyped, NEW s \in Switch, Term(s)
    PROVE  RestTyped'
<1>1. terms' \in Nat /\ terms' + deaths + turns <= MaxEvents
  BY BoundAssumption DEF RestTyped, Term, TermPrepare, TermLast, TermForward, TermRollback,
                         Interrupted, MayHappen
<1>2. UNCHANGED <<host, bindings, agents, phase, file, deaths, turns>>
  BY DEF Term, TermPrepare, TermLast, TermForward, TermRollback, Interrupted
<1>3. lock' \in {lock, Free} /\ UNCHANGED <<alone, single>>
      /\ late' \in {late, [late EXCEPT ![s] = At(s, "exit")]}
      /\ cut' \in {cut, [cut EXCEPT ![s] = lock = s]}
  BY DEF Term, TermPrepare, TermLast, TermForward, TermRollback, history
<1>4. At(s, "exit") \in BOOLEAN /\ (lock = s) \in BOOLEAN
  BY DEF At
<1>5. late' \in [Switch -> BOOLEAN] /\ cut' \in [Switch -> BOOLEAN]
  BY <1>3, <1>4 DEF RestTyped
<1> QED
  BY <1>1, <1>2, <1>3, <1>5 DEF RestTyped, agents

LEMMA WindowDiesTypes ==
    ASSUME RestTyped, NEW a \in Agent, WindowDies(a)
    PROVE  RestTyped'
<1>1. PICK i \in DOMAIN windows[a] :
          windows' = [windows EXCEPT ![a] = SubSeq(@, 1, i - 1) \o SubSeq(@, i + 1, Len(@))]
  BY DEF WindowDies
<1> DEFINE ws == windows[a]
           before == SubSeq(ws, 1, i - 1)
           after == SubSeq(ws, i + 1, Len(ws))
<1>2. ws \in Seq(Window) /\ i \in 1 .. Len(ws) /\ Len(ws) \in Nat /\ Len(ws) <= MaxWindows
  BY DEF RestTyped
<1> HIDE DEF ws
<1>3. before \in Seq(Window) /\ Len(before) = i - 1
  BY <1>2, SubSeqProperties
<1>4. after \in Seq(Window) /\ Len(after) = Len(ws) - i
  BY <1>2, SubSeqProperties
<1> HIDE DEF before, after
<1>5. before \o after \in Seq(Window) /\ Len(before \o after) = Len(ws) - 1
  BY <1>2, <1>3, <1>4, ConcatProperties
<1>6. windows' = [windows EXCEPT ![a] = before \o after]
  BY <1>1 DEF before, after, ws
<1>7. Len(before \o after) <= MaxWindows
  BY <1>2, <1>5, BoundAssumption
<1>8. /\ windows' \in [Agent -> Seq(Window)]
      /\ \A b \in Agent : Len(windows'[b]) <= MaxWindows
  BY <1>5, <1>6, <1>7, OneWindowListIsTyped
<1>9. deaths' \in Nat /\ terms + deaths' + turns <= MaxEvents
  BY BoundAssumption DEF RestTyped, WindowDies, MayHappen
<1> QED
  BY <1>8, <1>9 DEF RestTyped, WindowDies, history

LEMMA MpReviveTypes ==
    ASSUME RestTyped, JobsAreSound, NEW p \in Proc, MpRevive(p)
    PROVE  RestTyped'
<1>0. /\ job[p] \in Job /\ job[p].held \in Row /\ job[p].using \in Profile /\ job[p].new \in Nat
      /\ job[p].pc \in OfAnAgent => job[p].agent \in Agent
  BY DEF JobsAreSound, Placed, Job
<1>1. CASE SpawnTarget(p) \/ ReviveLoad(p) \/ ReviveFound(p)
  BY <1>1, QuietIsTyped DEF SpawnTarget, ReviveLoad, ReviveFound, Quiet
<1>2. CASE SpawnWindow(p)
  <2> DEFINE a == job[p].agent
             n == IF Resumes(p) THEN job[p].held.session ELSE minted[a] + 1
             w == IF Len(windows[a]) < MaxWindows
                  THEN Append(windows[a], [profile |-> job[p].using, session |-> n])
                  ELSE windows[a]
  <2>1. a \in Agent
    BY <1>0, <1>2 DEF SpawnWindow, At, OfAnAgent, Spawning
  <2>2. n \in Nat
    <3>1. job[p].held.session \in Nat
      BY <1>0 DEF Row
    <3>2. minted[a] + 1 \in Nat
      BY <2>1 DEF RestTyped
    <3> QED
      BY <3>1, <3>2
  <2>3. /\ windows' = [windows EXCEPT ![a] = w]
        /\ minted' = [minted EXCEPT ![a] = IF Resumes(p) THEN @ ELSE n]
        /\ UNCHANGED <<host, bindings, roster, lock, phase, file, history, bounds>>
    BY <1>2 DEF SpawnWindow
  <2> HIDE DEF n
  <2>4. minted' \in [Agent -> Nat]
    BY <2>1, <2>2, <2>3 DEF RestTyped
  <2>5. w \in Seq(Window) /\ Len(w) <= MaxWindows
    <3>1. [profile |-> job[p].using, session |-> n] \in Window
      BY <1>0, <2>2 DEF Window
    <3>2. windows[a] \in Seq(Window) /\ Len(windows[a]) <= MaxWindows
          /\ Len(windows[a]) \in Nat
      BY <2>1 DEF RestTyped
    <3> HIDE DEF a
    <3> QED
      BY <3>1, <3>2, AppendProperties, BoundAssumption
  <2> HIDE DEF w
  <2>6. /\ windows' \in [Agent -> Seq(Window)]
        /\ \A b \in Agent : Len(windows'[b]) <= MaxWindows
    BY <2>3, <2>5, OneWindowListIsTyped
  <2> QED
    BY <2>3, <2>4, <2>6 DEF RestTyped, history, bounds
<1>3. CASE SpawnFresh(p)
  <2> DEFINE new(n) == [alive |-> TRUE, retired |-> FALSE, profile |-> job[p].using, session |-> n,
                       home |-> IF job[p].made THEN job[p].using ELSE job[p].held.home]
  <2>0. \A n \in Nat : new(n) \in Row
    BY <1>0 DEF Row
  <2>1. PICK n \in {0, job[p].new, job[p].held.session} : PutRow(p, new(n))
    BY <1>3 DEF SpawnFresh
  <2>2. n \in Nat
    BY <1>0 DEF Row
  <2> HIDE DEF new
  <2> QED
    BY <2>0, <2>1, <2>2, PutRowIsTyped
<1>4. CASE SpawnResumed(p)
  <2>1. CASE \E new \in Row : PutRow(p, new)
    BY <2>1, PutRowIsTyped
  <2>2. CASE /\ windows' = [windows EXCEPT ![job[p].agent] = IF Len(@) = 1 THEN <<>> ELSE @]
             /\ UNCHANGED <<host, bindings, roster, minted, lock, phase, file, history, bounds>>
    BY <2>2, ClosedIsTyped DEF RestTyped, history, bounds
  <2>3. [alive |-> TRUE, retired |-> FALSE, profile |-> job[p].using,
         home |-> job[p].using, session |-> job[p].held.session] \in Row
    BY <1>0 DEF Row
  <2> QED
    BY <1>4, <2>1, <2>2, <2>3 DEF SpawnResumed
<1>5. CASE ReviveMark(p)
  <2>1. [job[p].held EXCEPT !.alive = FALSE] \in Row
    BY <1>0 DEF Row
  <2> QED
    BY <1>5, <2>1, PutRowIsTyped DEF ReviveMark
<1>6. CASE ReviveFails(p)
  BY <1>0, <1>6, PutRowIsTyped DEF ReviveFails
<1> QED
  BY <1>1, <1>2, <1>3, <1>4, <1>5, <1>6 DEF MpRevive, Spawn

LEMMA SuperviseTypes ==
    ASSUME RestTyped, JobsAreSound, Supervise
    PROVE  RestTyped'
<1>0. /\ "sup" \in Proc /\ job["sup"] \in Job /\ job["sup"].left \in SUBSET Agent
      /\ job["sup"].copy \in [Agent -> Row]
  BY SwitchIsProc DEF JobsAreSound, Job
<1>1. CASE SupTurn
  <2>1. turns' \in Nat /\ terms + deaths + turns' <= MaxEvents
    BY <1>1, BoundAssumption DEF RestTyped, SupTurn, MayHappen
  <2> QED
    BY <1>1, <2>1 DEF RestTyped, SupTurn, agents, history
<1>2. CASE SupPass \/ SupDone
  BY <1>2, QuietIsTyped DEF SupPass, SupDone, Quiet
<1>3. CASE SupDecide
  <2> DEFINE a == FirstOf(job["sup"].left)
             row == [job["sup"].copy[a] EXCEPT !.alive = Found(a)]
  <2>1. a \in Agent
    BY <1>0, <1>3, FirstIsIn DEF SupDecide
  <2>2. row \in Row
    BY <1>0, <2>1 DEF Row, Found
  <2>3. roster' = [roster EXCEPT ![a] = row]
    BY <1>3 DEF SupDecide
  <2> HIDE DEF a, row
  <2>4. roster' \in [Agent -> Row]
    BY <2>2, <2>3 DEF RestTyped
  <2> QED
    BY <1>3, <2>4 DEF RestTyped, SupDecide, history, bounds
<1>4. CASE MpRevive("sup")
  BY <1>0, <1>4, MpReviveTypes
<1>5. CASE SupFail
  <2>1. job["sup"].agent \in Agent => [job["sup"].copy[job["sup"].agent] EXCEPT !.alive = FALSE] \in Row
    BY <1>0 DEF Row
  <2> QED
    BY <1>5, <2>1, PutRowIsTyped DEF SupFail
<1> QED
  BY <1>1, <1>2, <1>3, <1>4, <1>5 DEF Supervise

-----------------------------------------------------------------------------
(* The lock                                                                *)

\* A commit that released the lock and was reported failed is rolled back.
LateIsOver ==
    \A s \in Switch : late[s] => job[s].rolling \/ job[s].pc \in {"restore", "done"}

Inv == TypeOK /\ JobsAreSound /\ WorksUnderLock /\ LateIsOver

\* What a step of s may do to the lock: take a free one, give back its own, or
\* leave it; and the restore after a commit is the only late one.
LocksWell(s) ==
    \/ UNCHANGED <<lock, late>>
    \/ lock = Free /\ lock' = s /\ UNCHANGED late
    \/ lock = s /\ lock' = Free /\ UNCHANGED late /\ job'[s].pc \in Outside
    \/ /\ UNCHANGED lock /\ late' = [late EXCEPT ![s] = At(s, "exit")]
       /\ job'[s].pc = "restore" /\ ~late[s]
       /\ job[s].pc \in Outside => At(s, "exit")

LEMMA SaveHasTheLock ==
    ASSUME Inv, NEW s \in Switch, job[s].pc = "save"
    PROVE  lock = s
<1>1. ~job[s].rolling
  BY SwitchIsProc DEF Inv, JobsAreSound, Placed, OfRollback, RollingBack, Killing, Reviving,
                      Spawning
<1> QED
  BY <1>1 DEF Inv, WorksUnderLock, LateIsOver

LEMMA RunLocksWell ==
    ASSUME Inv, NEW s \in Switch, Run(s)
    PROVE  KeepsOrder(s) /\ RestTyped' /\ LocksWell(s)
<1> USE DEF Inv
<1>0. TypeOK /\ RestTyped /\ JobsAreSound /\ s \in Proc /\ job \in [Proc -> Job]
  BY TypeOKSplits, SwitchIsProc
<1>1. CASE \/ Read(s) \/ Lock(s) \/ Save(s) \/ Prepared(s) \/ Copy(s) \/ Activate(s)
           \/ Bind(s) \/ Restore(s)
  <2>1. ASSUME Lock(s) PROVE LocksWell(s)
    BY <2>1 DEF Lock, LocksWell
  <2>2. ASSUME Save(s) PROVE LocksWell(s)
    <3>1. lock = s
      BY <2>2, SaveHasTheLock DEF Save, At
    <3>2. UNCHANGED lock \/ (lock' = Free /\ Goto(s, "done"))
      BY <2>2 DEF Save
    <3>3. Goto(s, "done") => job'[s].pc \in Outside
      BY <1>0 DEF Goto, Outside, Job
    <3> QED
      BY <2>2, <3>1, <3>2, <3>3 DEF Save, history, LocksWell
  <2>3. ASSUME \/ Read(s) \/ Prepared(s) \/ Copy(s) \/ Activate(s) \/ Bind(s) \/ Restore(s)
        PROVE  LocksWell(s)
    BY <2>3 DEF Read, Prepared, Copy, Activate, Bind, Restore, Look, history, LocksWell
  <2>4. LocksWell(s)
    BY <1>1, <2>1, <2>2, <2>3
  <2>5. KeepsOrder(s)
    BY <1>0, <1>1, ScriptKeeps
  <2>6. RestTyped'
    BY <1>0, <1>1, ScriptTypes
  <2> QED
    BY <2>4, <2>5, <2>6
<1>2. CASE \/ Stop(s) \/ KillRow(s) \/ KillWindow(s) \/ KillFinal(s) \/ Stopped(s)
  <2>1. LocksWell(s)
    BY <1>2 DEF Stop, KillRow, KillWindow, KillFinal, Stopped, PutRow, WritePhase, history,
                LocksWell
  <2>2. KeepsOrder(s)
    BY <1>0, <1>2, KillingKeeps
  <2>3. RestTyped'
    BY <1>0, <1>2, KillingTypes
  <2> QED
    BY <2>1, <2>2, <2>3
<1>3. CASE \/ Revive(s) \/ Authorize(s) \/ Revived(s) \/ VerifyRows(s) \/ VerifyWindows(s)
           \/ Commit(s) \/ Abort(s) \/ Unlock(s) \/ Exit(s)
  <2>1. ASSUME Unlock(s) PROVE LocksWell(s)
    <3>1. GoTo(s, "exit") => job'[s].pc \in Outside
      BY <1>0 DEF GoTo, GoOn, NoJob, Outside
    <3> QED
      BY <2>1, <3>1 DEF Unlock, history, LocksWell
  <2>2. ASSUME \/ Revive(s) \/ Authorize(s) \/ Revived(s) \/ VerifyRows(s)
               \/ VerifyWindows(s) \/ Commit(s) \/ Abort(s) \/ Exit(s)
        PROVE  LocksWell(s)
    BY <2>2 DEF Revive, Authorize, Revived, VerifyRows, VerifyWindows, Commit, Abort, Exit,
                Look, WritePhase, history, LocksWell
  <2>3. LocksWell(s)
    BY <1>3, <2>1, <2>2
  <2>4. KeepsOrder(s)
    BY <1>0, <1>3, RevivalKeeps
  <2>5. RestTyped'
    BY <1>0, <1>3, RevivalTypes
  <2> QED
    BY <2>3, <2>4, <2>5
<1>4. CASE \/ RollRead(s) \/ RollStopped(s) \/ RollBind(s) \/ RollSave(s)
           \/ RollRevive(s) \/ RollDone(s)
  <2>1. LocksWell(s)
    BY <1>4 DEF RollRead, RollStopped, RollBind, RollSave, RollRevive, RollDone, WritePhase,
                history, LocksWell
  <2>2. KeepsOrder(s)
    BY <1>0, <1>4, RollbackKeeps
  <2>3. RestTyped'
    BY <1>0, <1>4, RollbackTypes
  <2> QED
    BY <2>1, <2>2, <2>3
<1>5. CASE MpRevive(s)
  <2>1. LocksWell(s)
    BY <1>5 DEF MpRevive, Spawn, SpawnTarget, SpawnWindow, SpawnFresh, SpawnResumed, ReviveLoad,
                ReviveMark, ReviveFound, ReviveFails, PutRow, history, LocksWell
  <2>2. KeepsOrder(s)
    BY <1>0, <1>5, MpReviveKeeps
  <2>3. RestTyped'
    BY <1>0, <1>5, MpReviveTypes
  <2> QED
    BY <2>1, <2>2, <2>3
<1> QED
  BY <1>1, <1>2, <1>3, <1>4, <1>5 DEF Run

LEMMA TermLocksWell ==
    ASSUME Inv, NEW s \in Switch, Term(s)
    PROVE  KeepsOrder(s) /\ RestTyped' /\ LocksWell(s)
<1> USE DEF Inv
<1>0. TypeOK /\ RestTyped /\ JobsAreSound /\ s \in Proc /\ job \in [Proc -> Job]
  BY TypeOKSplits, SwitchIsProc
<1>a. ASSUME NEW label, Interrupted(s, label)
      PROVE  job'[s].pc = label
  BY <1>0, <1>a DEF Interrupted, NoJob
<1>1. ASSUME TermPrepare(s) PROVE LocksWell(s)
  <2>1. lock = s
    BY <1>1, SaveHasTheLock DEF TermPrepare, At
  <2>2. job'[s].pc = "done" /\ lock' = Free /\ UNCHANGED late
    BY <1>1, <1>a DEF TermPrepare, history
  <2> QED
    BY <2>1, <2>2 DEF LocksWell, Outside
<1>2. ASSUME TermLast(s) \/ TermRollback(s) PROVE LocksWell(s)
  BY <1>2 DEF TermLast, TermRollback, history, LocksWell
<1>3. ASSUME TermForward(s) PROVE LocksWell(s)
  <2>1. job'[s].pc = "restore" /\ UNCHANGED lock /\ late' = [late EXCEPT ![s] = At(s, "exit")]
    BY <1>3, <1>a DEF TermForward
  <2>2. ~late[s]
    BY <1>3 DEF TermForward, LateIsOver, InPhase, Spawning, Killing, Reviving, RollingBack,
                Forward
  <2>3. job[s].pc \in Outside => At(s, "exit")
    BY <1>3 DEF TermForward, Outside, InPhase, Spawning, Killing, Reviving, RollingBack,
                Forward, At
  <2> QED
    BY <2>1, <2>2, <2>3 DEF LocksWell
<1>4. LocksWell(s)
  BY <1>1, <1>2, <1>3 DEF Term
<1>5. KeepsOrder(s)
  BY <1>0, TermKeeps
<1>6. RestTyped'
  BY <1>0, TermTypes
<1> QED
  BY <1>4, <1>5, <1>6

\* A step of one switch leaves every switch that works with the lock.
LEMMA SwitchStep ==
    ASSUME Inv, NEW s \in Switch, KeepsOrder(s), RestTyped', LocksWell(s)
    PROVE  Inv'
<1> USE DEF Inv
<1>0. job \in [Proc -> Job] /\ s \in Proc /\ \A k \in Proc : Placed(k, job[k])
  BY SwitchIsProc DEF JobsAreSound
<1>1. PICK r : Keeps(s, r) /\ job' = [job EXCEPT ![s] = r]
  BY DEF KeepsOrder
<1>2. job'[s] = r /\ \A k \in Proc : k # s => job'[k] = job[k]
  BY <1>0, <1>1
<1>3. r \in Job /\ Placed(s, r)
  BY <1>1 DEF Keeps, Placed
<1>4. JobsAreSound'
  <2>1. job' \in [Proc -> Job]
    BY <1>0, <1>1, <1>3
  <2>2. \A k \in Proc : Placed(k, job'[k])
    BY <1>0, <1>2, <1>3
  <2> QED
    BY <2>1, <2>2 DEF JobsAreSound, Placed
<1>5. TypeOK'
  BY <1>4 DEF TypeOK, RestTyped, JobsAreSound
<1>6. late \in [Switch -> BOOLEAN]
  BY DEF TypeOK
<1>7. ASSUME NEW k \in Switch, late'[k]
      PROVE  job'[k].rolling \/ job'[k].pc \in {"restore", "done"}
  <2>1. CASE k # s
    <3>1. late[k]
      BY <1>6, <1>7, <2>1 DEF LocksWell
    <3> QED
      BY <1>2, <2>1, <3>1, SwitchIsProc DEF LateIsOver
  <2>2. CASE k = s
    <3>1. late[s] => r.rolling \/ r.pc \in {"restore", "done"}
      BY <1>1 DEF LateIsOver, Keeps
    <3>2. late[s] \/ job'[s].pc = "restore"
      BY <1>7, <2>2 DEF LocksWell
    <3> QED
      BY <1>2, <2>2, <3>1, <3>2
  <2> QED
    BY <2>1, <2>2
<1>8. ASSUME NEW k \in Switch, ~late'[k], job'[k].pc \notin Outside
      PROVE  lock' = k
  <2>1. CASE k # s
    <3>1. ~late[k] /\ job[k].pc \notin Outside
      BY <1>2, <1>6, <1>8, <2>1, SwitchIsProc DEF LocksWell
    <3>2. lock = k
      BY <3>1 DEF WorksUnderLock, Outside
    <3> QED
      BY <2>1, <3>2, Names DEF LocksWell
  <2>2. CASE k = s
    <3>1. CASE job[s].pc \in Outside
      <4>1. lock' = s \/ late'[s]
        BY <1>1, <1>2, <1>8, <2>2, <3>1 DEF Keeps
      <4> QED
        BY <1>8, <2>2, <4>1
    <3>2. CASE job[s].pc \notin Outside
      <4>1. ~late[s]
        BY <1>8, <2>2 DEF LocksWell
      <4>2. lock = s
        BY <3>2, <4>1 DEF WorksUnderLock, Outside
      <4> QED
        BY <1>8, <2>2, <4>2, Names DEF LocksWell
    <3> QED
      BY <3>1, <3>2
  <2> QED
    BY <2>1, <2>2
<1>9. LateIsOver' /\ WorksUnderLock'
  BY <1>7, <1>8 DEF LateIsOver, WorksUnderLock, Outside
<1> QED
  BY <1>4, <1>5, <1>9

LEMMA SupervisorStep ==
    ASSUME Inv, Supervise
    PROVE  Inv'
<1> USE DEF Inv
<1>0. job \in [Proc -> Job] /\ "sup" \in Proc /\ RestTyped
  BY SwitchIsProc, TypeOKSplits
<1>1. UNCHANGED <<lock, late>>
  BY DEF Supervise, SupTurn, SupPass, SupDecide, SupFail, SupDone, MpRevive, Spawn, SpawnTarget,
         SpawnWindow, SpawnFresh, SpawnResumed, ReviveLoad, ReviveMark, ReviveFound, ReviveFails,
         PutRow, history
<1>2. RestTyped'
  BY <1>0, SuperviseTypes
<1>3. PICK r : Keeps("sup", r) /\ job' = [job EXCEPT !["sup"] = r]
  BY SuperviseKeeps DEF KeepsOrder
<1>4. job'["sup"] = r /\ \A k \in Proc : k # "sup" => job'[k] = job[k]
  BY <1>0, <1>3
<1>5. r \in Job /\ Placed("sup", r)
  BY <1>3 DEF Keeps, Placed
<1>6. JobsAreSound'
  <2>1. job' \in [Proc -> Job]
    BY <1>0, <1>3, <1>5
  <2>2. \A k \in Proc : Placed(k, job'[k])
    BY <1>4, <1>5 DEF JobsAreSound
  <2> QED
    BY <2>1, <2>2 DEF JobsAreSound, Placed
<1>7. TypeOK'
  BY <1>2, <1>6 DEF TypeOK, RestTyped, JobsAreSound
<1>8. \A k \in Switch : job'[k] = job[k]
  BY <1>4, Names, SwitchIsProc
<1>9. LateIsOver' /\ WorksUnderLock'
  BY <1>1, <1>8 DEF LateIsOver, WorksUnderLock
<1> QED
  BY <1>6, <1>7, <1>9

LEMMA InvInductive ==
    ASSUME Inv, [Next]_vars
    PROVE  Inv'
<1>1. ASSUME NEW s \in Switch, Run(s) \/ Term(s)
      PROVE  Inv'
  BY <1>1, RunLocksWell, TermLocksWell, SwitchStep
<1>2. CASE Supervise
  BY <1>2, SupervisorStep
<1>3. CASE UNCHANGED <<lock, late, job>> /\ RestTyped'
  <2>1. TypeOK'
    BY <1>3 DEF Inv, TypeOK, RestTyped
  <2> QED
    BY <1>3, <2>1 DEF Inv, JobsAreSound, Placed, LateIsOver, WorksUnderLock
<1>4. ASSUME NEW a \in Agent, WindowDies(a)
      PROVE  UNCHANGED <<lock, late, job>> /\ RestTyped'
  BY <1>4, WindowDiesTypes, TypeOKSplits DEF Inv, WindowDies, history
<1>5. ASSUME UNCHANGED vars
      PROVE  UNCHANGED <<lock, late, job>> /\ RestTyped'
  BY <1>5, TypeOKSplits DEF Inv, RestTyped, vars, agents, history, bounds
<1> QED
  BY <1>1, <1>2, <1>3, <1>4, <1>5 DEF Next

LEMMA InvInitially == Init => Inv
<1> SUFFICES ASSUME Init PROVE Inv
  OBVIOUS
<1>1. FirstBindings \in Bindings
  BY NameAssumption DEF FirstBindings, Bindings
<1>2. [a \in Agent |-> FirstRow] \in [Agent -> Row]
  BY FirstRowIsTyped
<1>3. [profile |-> FirstProfile, session |-> 1] \in Window
  BY Names DEF Window
<1>4. /\ windows \in [Agent -> Seq(Window)]
      /\ \A a \in Agent : Len(windows[a]) <= MaxWindows
  BY <1>3, BoundAssumption DEF Init
<1>5. file \in [Switch -> File]
  BY <1>1, <1>2 DEF Init, File
<1>6. RestTyped
  BY <1>1, <1>2, <1>4, <1>5, BoundAssumption DEF Init, RestTyped, Phase
<1>7. \A p \in Proc : job[p] = NoJob(IF p = "sup" THEN "idle" ELSE "read")
  BY DEF Init
<1>a. \A label \in {"idle", "read"} :
          NoJob(label) \in Job /\ ~NoJob(label).rolling /\ NoJob(label).pc = label
  BY NoJobIsTyped DEF NoJob, Label
<1>8. \A p \in Proc : /\ job[p] \in Job /\ ~job[p].rolling
                      /\ job[p].pc = IF p = "sup" THEN "idle" ELSE "read"
  BY <1>7, <1>a
<1>9. JobsAreSound
  BY <1>8 DEF Init, JobsAreSound, Placed, OfAnAgent, Spawning, Killing, Reviving
<1>10. LateIsOver /\ WorksUnderLock
  BY <1>8, Names, SwitchIsProc DEF Init, LateIsOver, WorksUnderLock
<1> QED
  BY <1>6, <1>9, <1>10, TypeOKSplits DEF Inv, JobsAreSound

\* The inductive invariant holds in every behaviour.
THEOREM InvAlways == Spec => []Inv
BY InvInitially, InvInductive, PTL DEF Spec

\* Every variable keeps its type, for any number of switches and supervisor's turns.
THEOREM TypeCorrect == Spec => []TypeOK
<1>1. Inv => TypeOK
  BY DEF Inv
<1> QED
  BY <1>1, InvAlways, PTL

\* From its snapshot to its end a transaction has the lock, whatever the other
\* switches do and wherever a timeout ends their phases.
THEOREM WorksUnderLockAlways == Spec => []WorksUnderLock
<1>1. Inv => WorksUnderLock
  BY DEF Inv
<1> QED
  BY <1>1, InvAlways, PTL

-----------------------------------------------------------------------------
(***************************************************************************)
(* A switch is whole.  While a switch has the lock, and took it when no    *)
(* turn of the supervisor was under way and no name had two windows, it is *)
(* the only one that opens windows, so it opens one per name and none is   *)
(* taken over.  Part(s) follows the agents of the switch: those that are   *)
(* down have no window; those brought up again, forward or back, have the  *)
(* window and the row they should have, or their window died.              *)
(***************************************************************************)
\* What SwitchIsWhole asks of the past: s has the lock, and when it took it no
\* turn of the supervisor was under way and no name had two windows.
Undisturbed(s) ==
    lock = s /\ alone[s] /\ single[s] /\ \A o \in Switch : ~late[o]

\* The agents of s that have no window: those already stopped, and those not yet
\* brought up again.
Windowless(s) ==
    LET j == job[s] IN
    IF j.pc \in {"stop", "roll_stop", "kill_final"} THEN file[s].active \ j.left
    ELSE IF j.pc \in {"kill_row", "kill_window"} THEN file[s].active \ (j.left \cup {j.agent})
    ELSE IF j.pc \in {"activate", "bind", "roll_bind", "roll_save"} THEN file[s].active
    ELSE IF j.pc \in {"revive", "authorize", "roll_revive", "load", "mark", "target", "window"}
         THEN j.left
    ELSE IF j.pc \in {"row", "found"} THEN j.left \ {j.agent}
    ELSE {}

ForAnAgent == {"authorize", "load", "mark", "target", "window", "row", "found"}
Upward == ForAnAgent \cup {"revive", "roll_revive"}

\* A fresh agent: its window, if any, runs the target, and its row names the
\* window's session or none.
Fresh(s, a) ==
    windows[a] # <<>> => /\ windows[a][1].profile = Target(s, a)
                         /\ roster[a].session \in {0, windows[a][1].session}

\* A restored one: its row and, if any, its window.
Former(s, a) == [profile |-> file[s].snap[a].home, session |-> file[s].snap[a].session]
FormerWindow(s, a) == windows[a] = <<>> \/ windows[a] = <<Former(s, a)>>
FormerRow(s, a) ==
    roster[a] = [file[s].snap[a] EXCEPT !.profile = file[s].snap[a].home]

BringsUp(s) ==
    LET j == job[s]  a == job[s].agent IN
    j.pc \in Upward =>
        /\ j.left \subseteq file[s].active
        /\ j.pc \in ForAnAgent => a \in j.left

GoesForward(s) ==
    LET j == job[s]  a == job[s].agent IN
    /\ j.pc \in Upward /\ ~j.rolling => \A b \in file[s].active \ j.left : Fresh(s, b)
    /\ j.pc \in {"verify_rows", "verify_windows"} => \A b \in file[s].active : Fresh(s, b)
    /\ j.pc = "verify_windows" => \A b \in file[s].active :
          roster[b].session # 0 /\ roster[b].session # file[s].snap[b].session
    /\ j.pc = "target" /\ ~j.rolling => Effective(bindings, a) = Target(s, a)
    /\ j.pc \in {"window", "row"} /\ ~j.rolling => j.using = Target(s, a)
    /\ j.pc = "row" /\ ~j.rolling =>
          /\ j.made
          /\ windows[a] \in {<<>>, <<[profile |-> j.using, session |-> j.new]>>}

GoesBack(s) ==
    LET j == job[s]  a == job[s].agent IN
    /\ j.pc \in {"load", "mark", "found", "put_back"} \cup RollingBack => j.rolling
    /\ j.pc \in Upward \cup {"roll_save"} /\ j.rolling => bindings = file[s].saved
    /\ j.pc \in Upward /\ j.rolling =>
          /\ \A b \in file[s].active \ j.left : FormerWindow(s, b) /\ FormerRow(s, b)
          /\ \A b \in j.left : b # a \/ j.pc \in {"roll_revive", "load"} => roster[b] = file[s].snap[b]
    /\ j.pc \in {"mark", "target", "window", "row", "found"} /\ j.rolling =>
          /\ j.held = file[s].snap[a]
          /\ Effective(bindings, a) = file[s].snap[a].home
    /\ j.pc \in {"window", "row", "found"} /\ j.rolling => j.using = file[s].snap[a].home
    /\ j.pc \in {"row", "found"} /\ j.rolling => FormerWindow(s, a)
    /\ j.pc = "row" /\ j.rolling => j.made
    /\ j.pc = "found" /\ j.rolling => FormerRow(s, a)

Part(s) ==
    /\ At("sup", "idle")
    /\ \A a \in Agent : Len(windows[a]) <= 1
    /\ \A a \in Windowless(s) : windows[a] = <<>>
    /\ BringsUp(s) /\ GoesForward(s) /\ GoesBack(s)

Whole == \A s \in Switch : Undisturbed(s) => Part(s)

\* The rows of the snapshot are of agents that ran, and the lock is not held by a
\* switch that has not asked for it.
Snapped ==
    \A s \in Switch :
        /\ \A a \in file[s].active : file[s].snap[a].alive /\ ~file[s].snap[a].retired
        /\ job[s].pc \in {"read", "lock"} => lock # s

\* The job of s after a step, in its parts.
Onto(s, l) ==
    /\ job'[s].pc = l
    /\ \A q \in Proc : q # s => job'[q] = job[q]

LEMMA GotoFields ==
    ASSUME JobsAreSound, NEW p \in Proc, NEW l, Goto(p, l)
    PROVE  /\ Onto(p, l)
           /\ job'[p].agent = job[p].agent /\ job'[p].left = job[p].left
           /\ job'[p].held = job[p].held /\ job'[p].using = job[p].using
           /\ job'[p].new = job[p].new /\ job'[p].made = job[p].made
           /\ job'[p].rolling = job[p].rolling
<1> DEFINE r == [job[p] EXCEPT !.pc = l]
<1>1. job' = [job EXCEPT ![p] = r] /\ job \in [Proc -> Job] /\ job[p] \in Job
  BY DEF Goto, JobsAreSound
<1>2. /\ r.pc = l /\ r.agent = job[p].agent /\ r.left = job[p].left
      /\ r.held = job[p].held /\ r.using = job[p].using
      /\ r.new = job[p].new /\ r.made = job[p].made /\ r.rolling = job[p].rolling
  BY <1>1 DEF Job
<1> HIDE DEF r
<1>3. job'[p] = r /\ \A q \in Proc : q # p => job'[q] = job[q]
  BY <1>1
<1> QED
  BY <1>2, <1>3 DEF Onto

LEMMA GoOnFields ==
    ASSUME JobsAreSound, NEW p \in Proc, NEW l, NEW left, GoOn(p, l, left)
    PROVE  /\ Onto(p, l)
           /\ job'[p].agent = All /\ job'[p].left = left
           /\ job'[p].rolling = job[p].rolling
<1> DEFINE r == [NoJob(l) EXCEPT !.left = left, !.copy = job[p].copy, !.rolling = job[p].rolling]
<1>1. job' = [job EXCEPT ![p] = r] /\ job \in [Proc -> Job]
  BY DEF GoOn, JobsAreSound
<1>2. r.pc = l /\ r.agent = All /\ r.left = left /\ r.rolling = job[p].rolling
  BY DEF NoJob
<1> HIDE DEF r
<1>3. job'[p] = r /\ \A q \in Proc : q # p => job'[q] = job[q]
  BY <1>1
<1> QED
  BY <1>2, <1>3 DEF Onto

LEMMA AnewFields ==
    ASSUME JobsAreSound, NEW p \in Proc, NEW l, job' = [job EXCEPT ![p] = NoJob(l)]
    PROVE  Onto(p, l)
<1>1. job'[p] = NoJob(l) /\ \A q \in Proc : q # p => job'[q] = job[q]
  BY DEF JobsAreSound
<1> QED
  BY <1>1 DEF Onto, NoJob

\* What the types and Part(s) say before a step of s.
LEMMA Facts ==
    ASSUME Inv, Snapped, NEW s \in Switch, Undisturbed(s), Part(s)
    PROVE  /\ s \in Proc /\ "sup" \in Proc /\ s # "sup" /\ job["sup"].pc = "idle"
           /\ JobsAreSound /\ RestTyped
           /\ job[s] \in Job /\ job[s].left \in SUBSET Agent
           /\ file[s].active \in SUBSET Agent /\ file[s].snap \in [Agent -> Row]
           /\ job[s].pc \in OfAnAgent => job[s].agent \in Agent
           /\ job[s].rolling => job[s].pc \in OfRollback
           /\ \A a \in Agent : windows[a] \in Seq(Window) /\ Len(windows[a]) <= 1
           /\ roster \in [Agent -> Row] /\ windows \in [Agent -> Seq(Window)]
<1>1. s \in Proc /\ "sup" \in Proc /\ s # "sup"
  BY Names, SwitchIsProc
<1>2. JobsAreSound /\ RestTyped
  BY TypeOKSplits DEF Inv
<1>3. job[s] \in Job /\ Placed(s, job[s]) /\ file[s] \in File
  BY <1>1, <1>2 DEF JobsAreSound, RestTyped
<1> QED
  BY <1>1, <1>2, <1>3 DEF Placed, Job, File, RestTyped, Part, At

\* What a step that changes no row, window or record leaves of an agent.
LEMMA Unmoved ==
    ASSUME UNCHANGED <<roster, windows, file>>, NEW s \in Switch
    PROVE  \A a : /\ Fresh(s, a) => Fresh(s, a)'
                  /\ FormerWindow(s, a) => FormerWindow(s, a)'
                  /\ FormerRow(s, a) => FormerRow(s, a)'
BY DEF Fresh, Target, FormerWindow, FormerRow, Former

\* A row is its five fields.
LEMMA RowsAgree ==
    ASSUME NEW r \in Row, NEW q \in Row, r.alive = q.alive, r.retired = q.retired,
           r.profile = q.profile, r.home = q.home, r.session = q.session
    PROVE  r = q
<1>1. r = [alive |-> r.alive, retired |-> r.retired, profile |-> r.profile,
           home |-> r.home, session |-> r.session]
  BY DEF Row
<1>2. q = [alive |-> q.alive, retired |-> q.retired, profile |-> q.profile,
           home |-> q.home, session |-> q.session]
  BY DEF Row
<1> QED
  BY <1>1, <1>2

LEMMA OneIsThere ==
    ASSUME NEW w, Len(w) = 1
    PROVE  w # <<>>
<1>1. Len(<<>>) = 0
  OBVIOUS
<1> QED
  BY <1>1

LEMMA NoneOrOne ==
    ASSUME NEW w \in Seq(Window), Len(w) <= 1
    PROVE  w = <<>> \/ Len(w) = 1
<1>1. Len(w) \in Nat /\ (Len(w) = 0 => w = <<>>)
  BY EmptySeq, LenProperties
<1>2. \A n \in Nat : n <= 1 => n = 0 \/ n = 1
  OBVIOUS
<1>3. Len(w) = 0 \/ Len(w) = 1
  BY <1>1, <1>2, Zenon
<1> QED
  BY <1>1, <1>3

\* A step to a label at which Part(s) asks nothing of rows.
LEMMA Lowers ==
    ASSUME Inv, Snapped, NEW s \in Switch, Undisturbed(s), Part(s),
           NEW l, Onto(s, l),
           l \notin Upward \cup {"verify_rows", "verify_windows", "roll_save"},
           l \in {"put_back"} \cup RollingBack => job'[s].rolling,
           \A a \in Agent : Len(windows'[a]) <= 1,
           \A a \in Windowless(s)' : windows'[a] = <<>>
    PROVE  Part(s)'
<1>1. At("sup", "idle")'
  BY Facts DEF Onto, At
<1>2. BringsUp(s)'
  BY DEF BringsUp, Onto
<1>3. GoesForward(s)'
  BY DEF GoesForward, Onto, Upward, ForAnAgent
<1>4. GoesBack(s)'
  BY DEF GoesBack, Onto, Upward, ForAnAgent
<1> QED
  BY <1>1, <1>2, <1>3, <1>4 DEF Part

Resting == {"save", "prepared", "copy", "abort", "restore", "commit", "unlock", "exit", "done",
            "put_back", "roll_read"}

LEMMA Rests ==
    ASSUME Inv, Snapped, NEW s \in Switch, Undisturbed(s), Part(s),
           NEW l \in Resting, Onto(s, l), l \in {"put_back", "roll_read"} => job'[s].rolling,
           \A a \in Agent : Len(windows'[a]) <= 1
    PROVE  Part(s)'
<1>1. Windowless(s)' = {}
  BY DEF Windowless, Onto, Resting
<1>2. l \notin Upward \cup {"verify_rows", "verify_windows", "roll_save"}
  BY DEF Resting, Upward, ForAnAgent
<1>3. l \in {"put_back"} \cup RollingBack => job'[s].rolling
  BY DEF Resting, RollingBack
<1> QED
  BY <1>1, <1>2, <1>3, Lowers

\* A window may die, and another process may do what does not concern s.
LEMMA Steady ==
    ASSUME Inv, Snapped, NEW s \in Switch, Undisturbed(s), Part(s),
           UNCHANGED <<bindings, roster>>, file'[s] = file[s],
           job'[s] = job[s], job'["sup"] = job["sup"],
           \A a \in Agent : windows'[a] \in {windows[a], <<>>}
    PROVE  Part(s)'
<1>0. /\ Windowless(s) \subseteq Agent /\ file[s].active \subseteq Agent
      /\ job[s].pc \in Upward => job[s].left \subseteq Agent /\ job[s].left \subseteq file[s].active
      /\ job[s].pc \in ForAnAgent => job[s].agent \in Agent
  BY Facts DEF Part, Windowless, BringsUp, OfAnAgent, Spawning, Reviving, ForAnAgent
<1>1. At("sup", "idle")' /\ \A a \in Agent : Len(windows'[a]) <= 1
  BY DEF Part, At
<1>2. \A a \in Windowless(s)' : windows'[a] = <<>>
  BY <1>0 DEF Part, Windowless
<1>3. BringsUp(s)'
  BY DEF Part, BringsUp
<1>4. GoesForward(s)'
  <2>1. \A a \in Agent : Fresh(s, a) => Fresh(s, a)'
    BY DEF Fresh, Target
  <2> DEFINE a == job[s].agent
             w == [profile |-> job[s].using, session |-> job[s].new]
  <2>2. a \in Agent /\ windows[a] \in {<<>>, <<w>>} => windows'[a] \in {<<>>, <<w>>}
    OBVIOUS
  <2>3. GoesForward(s)
    BY DEF Part
  <2> QED
    BY <1>0, <2>1, <2>2, <2>3 DEF GoesForward, Effective, Target, Upward, ForAnAgent
<1>5. GoesBack(s)'
  <2>1. \A a \in Agent : (FormerWindow(s, a) => FormerWindow(s, a)')
                         /\ (FormerRow(s, a) => FormerRow(s, a)')
    BY DEF FormerWindow, FormerRow, Former
  <2>2. job[s].agent \in Agent =>
          /\ FormerWindow(s, job[s].agent) => FormerWindow(s, job[s].agent)'
          /\ FormerRow(s, job[s].agent) => FormerRow(s, job[s].agent)'
    BY DEF FormerWindow, FormerRow, Former
  <2>3. GoesBack(s)
    BY DEF Part
  <2> QED
    BY <1>0, <2>1, <2>2, <2>3 DEF GoesBack, Effective, Upward, ForAnAgent
<1> QED
  BY <1>1, <1>2, <1>3, <1>4, <1>5 DEF Part

\* The script's own steps.
LEMMA ScriptPart ==
    ASSUME Inv, Snapped, NEW s \in Switch, Undisturbed(s), Part(s),
           \/ Read(s) \/ Lock(s) \/ Save(s) \/ Prepared(s) \/ Copy(s) \/ Activate(s)
           \/ Bind(s) \/ Restore(s)
    PROVE  Part(s)'
<1> USE Facts
<1>0. \A a \in Agent : Len(windows[a]) <= 1
  OBVIOUS
<1>1. CASE Read(s) \/ Lock(s)
  BY <1>1 DEF Read, Lock, At, Snapped, Undisturbed
<1>2. CASE Save(s)
  <2>1. PICK l \in {"prepared", "done"} : Goto(s, l)
    BY <1>2 DEF Save
  <2>2. Onto(s, l) /\ UNCHANGED windows
    BY <1>2, <2>1, GotoFields DEF Save, agents
  <2> QED
    BY <2>2, Rests DEF Resting
<1>3. CASE Prepared(s)
  <2>1. Onto(s, "copy") /\ UNCHANGED windows
    BY <1>3, GotoFields DEF Prepared, Look, agents
  <2> QED
    BY <2>1, Rests DEF Resting
<1>4. CASE Copy(s)
  <2>1. UNCHANGED <<windows, file>>
    BY <1>4 DEF Copy, agents
  <2>2. CASE GoOn(s, "abort", {})
    <3>1. Onto(s, "abort")
      BY <2>2, GoOnFields
    <3> QED
      BY <2>1, <3>1, Rests DEF Resting
  <2>3. CASE GoOn(s, "stop", file[s].active)
    <3>1. Onto(s, "stop") /\ job'[s].left = file[s].active
      BY <2>3, GoOnFields
    <3>2. Windowless(s)' = {}
      BY <2>1, <3>1 DEF Windowless, Onto
    <3> QED
      BY <2>1, <3>1, <3>2, Lowers DEF Upward, ForAnAgent, RollingBack
  <2> QED
    BY <1>4, <2>2, <2>3 DEF Copy
<1>5. CASE Activate(s)
  <2>1. UNCHANGED <<windows, file>> /\ job[s].pc = "activate"
    BY <1>5 DEF Activate, Look, agents, At
  <2>2. CASE Goto(s, "restore")
    <3>1. Onto(s, "restore")
      BY <2>2, GotoFields
    <3> QED
      BY <2>1, <3>1, Rests DEF Resting
  <2>3. CASE Goto(s, "bind")
    <3>1. Onto(s, "bind")
      BY <2>3, GotoFields
    <3>2. Windowless(s)' = Windowless(s)
      BY <2>1, <3>1 DEF Windowless, Onto
    <3>3. \A a \in Windowless(s)' : windows'[a] = <<>>
      BY <2>1, <3>2 DEF Part
    <3> QED
      BY <2>1, <3>1, <3>3, Lowers DEF Upward, ForAnAgent, RollingBack
  <2> QED
    BY <1>5, <2>2, <2>3 DEF Activate, Look
<1>6. CASE Bind(s)
  <2>1. UNCHANGED <<windows, roster, file>> /\ job[s].pc = "bind"
    BY <1>6 DEF Bind, agents, At
  <2>2. ~job[s].rolling
    BY <2>1 DEF OfRollback, RollingBack, Killing, Reviving, Spawning
  <2>3. CASE GoTo(s, "restore")
    <3>1. Onto(s, "restore")
      BY <2>3, GoOnFields DEF GoTo
    <3> QED
      BY <2>1, <3>1, Rests DEF Resting
  <2>4. CASE GoOn(s, "revive", file[s].active)
    <3>1. Onto(s, "revive") /\ job'[s].left = file[s].active /\ ~job'[s].rolling
      BY <2>2, <2>4, GoOnFields
    <3>2. \A a \in Windowless(s)' : windows'[a] = <<>>
      BY <2>1, <3>1 DEF Part, Windowless, Onto
    <3> QED
      BY <2>1, <3>1, <3>2
         DEF Part, At, Onto, BringsUp, GoesForward, GoesBack, Upward, ForAnAgent, RollingBack
  <2> QED
    BY <1>6, <2>3, <2>4 DEF Bind
<1>7. CASE Restore(s)
  <2> DEFINE r == [NoJob("roll_read") EXCEPT !.rolling = TRUE]
  <2>1. job' = [job EXCEPT ![s] = r] /\ UNCHANGED windows
    BY <1>7 DEF Restore, agents
  <2>2. r.pc = "roll_read" /\ r.rolling
    BY DEF NoJob
  <2> HIDE DEF r
  <2>3. Onto(s, "roll_read") /\ job'[s].rolling
    BY <2>1, <2>2 DEF Onto, JobsAreSound
  <2> QED
    BY <2>1, <2>3, Rests DEF Resting
<1> QED
  BY <1>1, <1>2, <1>3, <1>4, <1>5, <1>6, <1>7

\* An agent that was stopped has no window.
LEMMA KillingPart ==
    ASSUME Inv, Snapped, NEW s \in Switch, Undisturbed(s), Part(s),
           \/ Stop(s) \/ KillRow(s) \/ KillWindow(s) \/ KillFinal(s) \/ Stopped(s)
    PROVE  Part(s)'
<1> USE Facts DEF Upward, ForAnAgent
<1>1. CASE Stop(s)
  <2> DEFINE a == FirstOf(job[s].left)
             r == [job[s] EXCEPT !.pc = "kill_row", !.agent = a, !.left = @ \ {a}]
  <2>1. job' = [job EXCEPT ![s] = r] /\ UNCHANGED <<windows, file>>
        /\ job[s].pc \in {"stop", "roll_stop"}
    BY <1>1 DEF Stop, JobsAreSound, agents, At
  <2> HIDE DEF a
  <2>2. r.pc = "kill_row" /\ r.agent = a /\ r.left = job[s].left \ {a}
    BY DEF Job
  <2> HIDE DEF r
  <2>3. Onto(s, "kill_row") /\ job'[s].agent = a /\ job'[s].left = job[s].left \ {a}
    BY <2>1, <2>2 DEF Onto, JobsAreSound
  <2>4. Windowless(s)' \subseteq Windowless(s)
    BY <2>1, <2>3 DEF Windowless, Onto
  <2>5. \A b \in Windowless(s)' : windows'[b] = <<>>
    BY <2>1, <2>4 DEF Part
  <2> QED
    BY <2>1, <2>3, <2>5, Lowers DEF RollingBack
<1>2. CASE KillRow(s)
  <2> DEFINE stopping == [roster[job[s].agent] EXCEPT !.retired = TRUE, !.alive = FALSE]
             r == [job[s] EXCEPT !.pc = "kill_window", !.held = stopping]
  <2>1. job' = [job EXCEPT ![s] = r] /\ UNCHANGED <<windows, file>> /\ job[s].pc = "kill_row"
    BY <1>2 DEF KillRow, PutRow, JobsAreSound, At
  <2> HIDE DEF stopping
  <2>2. r.pc = "kill_window" /\ r.agent = job[s].agent /\ r.left = job[s].left
    BY DEF Job
  <2> HIDE DEF r
  <2>3. Onto(s, "kill_window") /\ job'[s].agent = job[s].agent /\ job'[s].left = job[s].left
    BY <2>1, <2>2 DEF Onto, JobsAreSound
  <2>4. Windowless(s)' = Windowless(s)
    BY <2>1, <2>3 DEF Windowless, Onto
  <2>5. \A b \in Windowless(s)' : windows'[b] = <<>>
    BY <2>1, <2>4 DEF Part
  <2> QED
    BY <2>1, <2>3, <2>5, Lowers DEF RollingBack
<1>3. CASE KillWindow(s)
  <2> DEFINE a == job[s].agent
  <2>1. /\ windows' = [windows EXCEPT ![a] = IF Len(@) = 1 THEN <<>> ELSE @]
        /\ file' = file /\ job[s].pc = "kill_window"
    BY <1>3 DEF KillWindow, At
  <2>2. Onto(s, "kill_final") /\ job'[s].left = job[s].left
    BY <1>3, GotoFields DEF KillWindow
  <2>3. a \in Agent
    BY <2>1 DEF OfAnAgent, Killing
  <2>4. windows'[a] = <<>> /\ \A b \in Agent : b # a => windows'[b] = windows[b]
    <3>1. Len(windows[a]) \in Nat /\ Len(windows[a]) <= 1 /\ windows[a] \in Seq(Window)
      BY <2>3
    <3>3. windows[a] = <<>> \/ Len(windows[a]) = 1
      BY <3>1, NoneOrOne
    <3>4. (IF Len(windows[a]) = 1 THEN <<>> ELSE windows[a]) = <<>>
      BY <3>3
    <3>5. windows' = [windows EXCEPT ![a] = <<>>]
      BY <2>1, <3>4
    <3> QED
      BY <2>3, <3>5
  <2>5. Windowless(s) = file[s].active \ (job[s].left \cup {a})
        /\ Windowless(s)' = file[s].active \ job[s].left
    BY <2>1, <2>2 DEF Windowless, Onto
  <2>6. \A b \in Windowless(s)' : windows'[b] = <<>>
    BY <2>4, <2>5 DEF Part
  <2>7. \A b \in Agent : Len(windows'[b]) <= 1
    BY <2>4
  <2> QED
    BY <2>2, <2>6, <2>7, Lowers DEF RollingBack
<1>4. CASE KillFinal(s)
  <2>1. PICK l \in {"stop", "roll_stop"} :
          GoTo(s, l) /\ (l = "roll_stop" => job[s].rolling)
    BY <1>4 DEF KillFinal
  <2>2. Onto(s, l) /\ job'[s].left = job[s].left /\ job'[s].rolling = job[s].rolling
    BY <2>1, GoOnFields DEF GoTo
  <2>3. UNCHANGED <<windows, file>> /\ job[s].pc = "kill_final"
    BY <1>4 DEF KillFinal, PutRow, At
  <2>4. Windowless(s)' = Windowless(s)
    BY <2>2, <2>3 DEF Windowless, Onto
  <2>5. \A b \in Windowless(s)' : windows'[b] = <<>>
    BY <2>3, <2>4 DEF Part
  <2> QED
    BY <2>1, <2>2, <2>3, <2>5, Lowers DEF RollingBack
<1>5. CASE Stopped(s)
  <2>1. Onto(s, "activate") /\ UNCHANGED <<windows, file>>
        /\ job[s].pc = "stop" /\ job[s].left = {}
    BY <1>5, GoOnFields DEF Stopped, WritePhase, agents, At
  <2>2. Windowless(s)' = Windowless(s)
    BY <2>1 DEF Windowless, Onto
  <2>3. \A b \in Windowless(s)' : windows'[b] = <<>>
    BY <2>1, <2>2 DEF Part
  <2> QED
    BY <2>1, <2>3, Lowers DEF RollingBack
<1> QED
  BY <1>1, <1>2, <1>3, <1>4, <1>5

\* The way forward, to the commit.
LEMMA RevivalPart ==
    ASSUME Inv, Snapped, NEW s \in Switch, Undisturbed(s), Part(s),
           \/ Revive(s) \/ Authorize(s) \/ Revived(s) \/ VerifyRows(s) \/ VerifyWindows(s)
           \/ Commit(s) \/ Abort(s) \/ Unlock(s) \/ Exit(s)
    PROVE  Part(s)'
<1> USE Facts DEF Upward, ForAnAgent
<1>0. job[s].pc \in {"revive", "authorize", "verify_rows", "verify_windows"} => ~job[s].rolling
  BY DEF OfRollback, RollingBack, Killing, Reviving, Spawning
<1>1. CASE Revive(s)
  <2> DEFINE a == FirstOf(job[s].left)
             r == [job[s] EXCEPT !.pc = "authorize", !.agent = a]
  <2>1. /\ job' = [job EXCEPT ![s] = r] /\ UNCHANGED <<bindings, roster, windows, file>>
        /\ job[s].pc = "revive" /\ a \in job[s].left
    BY <1>1, FirstIsIn DEF Revive, JobsAreSound, agents, At
  <2> HIDE DEF a
  <2>2. r.pc = "authorize" /\ r.agent = a /\ r.left = job[s].left /\ r.rolling = job[s].rolling
    BY DEF Job
  <2> HIDE DEF r
  <2>3. Onto(s, "authorize") /\ job'[s].agent = a /\ job'[s].left = job[s].left
        /\ ~job'[s].rolling
    BY <1>0, <2>1, <2>2 DEF Onto, JobsAreSound
  <2>4. Windowless(s)' = Windowless(s)
    BY <2>1, <2>3 DEF Windowless, Onto
  <2>5. GoesForward(s)'
    BY <1>0, <2>1, <2>3, Unmoved DEF Part, GoesForward, Onto
  <2> QED
    BY <2>1, <2>3, <2>4, <2>5 DEF Part, At, Onto, BringsUp, GoesBack, RollingBack
<1>2. CASE Authorize(s)
  <2> DEFINE a == job[s].agent
  <2>1. UNCHANGED <<bindings, roster, windows, file>> /\ job[s].pc = "authorize"
    BY <1>2 DEF Authorize, Look, agents, At
  <2>2. CASE Goto(s, "restore")
    <3>1. Onto(s, "restore")
      BY <2>2, GotoFields
    <3> QED
      BY <2>1, <3>1, Rests DEF Resting
  <2>3. CASE Goto(s, "target") /\ Effective(bindings, a) = Target(s, a)
    <3>1. Onto(s, "target") /\ job'[s].agent = a /\ job'[s].left = job[s].left
          /\ ~job'[s].rolling
      BY <1>0, <2>1, <2>3, GotoFields
    <3>2. Windowless(s)' = Windowless(s)
      BY <2>1, <3>1 DEF Windowless, Onto
    <3>3. GoesForward(s)'
      BY <1>0, <2>1, <2>3, <3>1, Unmoved DEF Part, GoesForward, Onto, Target, Effective
    <3> QED
      BY <2>1, <3>1, <3>2, <3>3 DEF Part, At, Onto, BringsUp, GoesBack, RollingBack
  <2> QED
    BY <1>2, <2>2, <2>3 DEF Authorize, Look
<1>3. CASE Revived(s)
  <2>1. /\ Onto(s, "verify_rows") /\ UNCHANGED <<bindings, roster, windows, file>>
        /\ job[s].pc = "revive" /\ job[s].left = {}
    BY <1>3, GoOnFields DEF Revived, WritePhase, agents, At
  <2>2. GoesForward(s)'
    BY <1>0, <2>1, Unmoved DEF Part, GoesForward, Onto
  <2>3. Windowless(s)' = {}
    BY <2>1 DEF Windowless, Onto
  <2> QED
    BY <2>1, <2>2, <2>3 DEF Part, At, Onto, BringsUp, GoesBack, RollingBack
<1>4. CASE VerifyRows(s)
  <2>1. UNCHANGED <<bindings, roster, windows, file>> /\ job[s].pc = "verify_rows"
    BY <1>4 DEF VerifyRows, Look, agents, At
  <2>2. CASE Goto(s, "restore")
    <3>1. Onto(s, "restore")
      BY <2>2, GotoFields
    <3> QED
      BY <2>1, <3>1, Rests DEF Resting
  <2>3. CASE /\ Goto(s, "verify_windows")
             /\ \A a \in file[s].active :
                  roster[a].session # 0 /\ roster[a].session # file[s].snap[a].session
    <3>1. Onto(s, "verify_windows")
      BY <2>3, GotoFields
    <3>2. Windowless(s)' = {}
      BY <2>1, <3>1 DEF Windowless, Onto
    <3>3. GoesForward(s)'
      BY <2>1, <2>3, <3>1, Unmoved DEF Part, GoesForward, Onto
    <3> QED
      BY <2>1, <3>1, <3>2, <3>3 DEF Part, At, Onto, BringsUp, GoesBack, RollingBack
  <2> QED
    BY <1>4, <2>2, <2>3 DEF VerifyRows, Look
<1>5. CASE VerifyWindows(s)
  <2>1. PICK l \in {"commit", "restore"} : Goto(s, l) \/ GoOn(s, l, {})
    BY <1>5 DEF VerifyWindows, WritePhase, Look
  <2>2. Onto(s, l) /\ UNCHANGED windows
    BY <1>5, <2>1, GotoFields, GoOnFields DEF VerifyWindows, WritePhase, Look, agents
  <2> QED
    BY <2>2, Rests DEF Resting
<1>6. CASE Commit(s) \/ Abort(s)
  <2>1. Onto(s, "unlock") /\ UNCHANGED windows
    BY <1>6, GoOnFields DEF Commit, Abort, WritePhase, agents
  <2> QED
    BY <2>1, Rests DEF Resting
<1>7. CASE Unlock(s)
  <2>1. Onto(s, "exit") /\ UNCHANGED windows
    BY <1>7, GoOnFields DEF Unlock, GoTo, agents
  <2> QED
    BY <2>1, Rests DEF Resting
<1>8. CASE Exit(s)
  <2>1. Onto(s, "done") /\ UNCHANGED windows
    BY <1>8, AnewFields DEF Exit, agents
  <2> QED
    BY <2>1, Rests DEF Resting
<1> QED
  BY <1>1, <1>2, <1>3, <1>4, <1>5, <1>6, <1>7, <1>8

\* The way back.
LEMMA RollbackPart ==
    ASSUME Inv, Snapped, NEW s \in Switch, Undisturbed(s), Part(s),
           \/ RollRead(s) \/ RollStopped(s) \/ RollBind(s) \/ RollSave(s)
           \/ RollRevive(s) \/ RollDone(s)
    PROVE  Part(s)'
<1> USE Facts DEF Upward, ForAnAgent
<1>0. job[s].pc \in RollingBack => job[s].rolling
  BY DEF Part, GoesBack
<1>1. CASE RollRead(s)
  <2> DEFINE r == [job[s] EXCEPT !.pc = "roll_stop", !.copy = roster, !.left = file[s].active]
  <2>1. /\ job' = [job EXCEPT ![s] = r] /\ UNCHANGED <<windows, file>>
        /\ job[s].pc = "roll_read"
    BY <1>1 DEF RollRead, JobsAreSound, agents, At
  <2>2. r.pc = "roll_stop" /\ r.left = file[s].active /\ r.rolling
    BY <1>0, <2>1 DEF Job, RollingBack
  <2> HIDE DEF r
  <2>3. Onto(s, "roll_stop") /\ job'[s].left = file[s].active /\ job'[s].rolling
    BY <2>1, <2>2 DEF Onto, JobsAreSound
  <2>4. Windowless(s)' = {}
    BY <2>1, <2>3 DEF Windowless, Onto
  <2> QED
    BY <2>1, <2>3, <2>4, Lowers
<1>2. CASE RollStopped(s)
  <2>1. /\ Onto(s, "roll_bind") /\ job'[s].rolling /\ UNCHANGED <<windows, file>>
        /\ job[s].pc = "roll_stop" /\ job[s].left = {}
    BY <1>0, <1>2, GotoFields DEF RollStopped, agents, At, RollingBack
  <2>2. Windowless(s)' = Windowless(s)
    BY <2>1 DEF Windowless, Onto
  <2>3. \A b \in Windowless(s)' : windows'[b] = <<>>
    BY <2>1, <2>2 DEF Part
  <2> QED
    BY <2>1, <2>3, Lowers
<1>3. CASE RollBind(s)
  <2>1. /\ Onto(s, "roll_save") /\ job'[s].rolling /\ UNCHANGED <<windows, roster, file>>
        /\ job[s].pc = "roll_bind" /\ bindings' = file[s].saved
    BY <1>0, <1>3, GotoFields DEF RollBind, agents, At, RollingBack
  <2>2. Windowless(s)' = Windowless(s)
    BY <2>1 DEF Windowless, Onto
  <2>3. GoesBack(s)'
    BY <2>1 DEF GoesBack, Onto
  <2> QED
    BY <2>1, <2>2, <2>3 DEF Part, At, Onto, BringsUp, GoesForward
<1>4. CASE RollSave(s)
  <2> DEFINE r == [NoJob("roll_revive") EXCEPT !.left = file[s].active, !.rolling = TRUE]
  <2>1. /\ job' = [job EXCEPT ![s] = r] /\ UNCHANGED <<bindings, windows, file>>
        /\ job[s].pc = "roll_save"
        /\ \A a \in file[s].active : roster'[a] = file[s].snap[a]
    BY <1>4 DEF RollSave, At
  <2>2. r.pc = "roll_revive" /\ r.left = file[s].active /\ r.rolling /\ r.agent = All
    BY DEF NoJob
  <2> HIDE DEF r
  <2>3. /\ Onto(s, "roll_revive") /\ job'[s].left = file[s].active /\ job'[s].rolling
        /\ job'[s].agent = All
    BY <2>1, <2>2 DEF Onto, JobsAreSound
  <2>4. Windowless(s)' = Windowless(s)
    BY <2>1, <2>3 DEF Windowless, Onto
  <2>5. bindings' = file'[s].saved
    BY <1>0, <2>1 DEF Part, GoesBack, RollingBack
  <2>6. GoesBack(s)'
    BY <2>1, <2>3, <2>5 DEF GoesBack, Onto
  <2> QED
    BY <2>1, <2>3, <2>4, <2>6 DEF Part, At, Onto, BringsUp, GoesForward
<1>5. CASE RollRevive(s)
  <2> DEFINE a == FirstOf(job[s].left)
             r == [job[s] EXCEPT !.pc = "load", !.agent = a]
  <2>1. /\ job' = [job EXCEPT ![s] = r] /\ UNCHANGED <<bindings, roster, windows, file>>
        /\ job[s].pc = "roll_revive" /\ a \in job[s].left
    BY <1>5, FirstIsIn DEF RollRevive, JobsAreSound, agents, At
  <2> HIDE DEF a
  <2>2. r.pc = "load" /\ r.agent = a /\ r.left = job[s].left /\ r.rolling = job[s].rolling
    BY DEF Job
  <2> HIDE DEF r
  <2>3. /\ Onto(s, "load") /\ job'[s].agent = a /\ job'[s].left = job[s].left
        /\ job'[s].rolling /\ job[s].rolling
    BY <1>0, <2>1, <2>2 DEF Onto, JobsAreSound, RollingBack
  <2>4. Windowless(s)' = Windowless(s)
    BY <2>1, <2>3 DEF Windowless, Onto
  <2>5. GoesBack(s)'
    BY <2>1, <2>3, Unmoved DEF Part, GoesBack, Onto
  <2> QED
    BY <2>1, <2>3, <2>4, <2>5 DEF Part, At, Onto, BringsUp, GoesForward
<1>6. CASE RollDone(s)
  <2>1. Onto(s, "unlock") /\ UNCHANGED windows
    BY <1>6, GoOnFields DEF RollDone, WritePhase, agents
  <2> QED
    BY <2>1, Rests DEF Resting
<1> QED
  BY <1>1, <1>2, <1>3, <1>4, <1>5, <1>6

\* A phase that is ended leaves the windows and rows as they are.
LEMMA TermPart ==
    ASSUME Inv, Snapped, NEW s \in Switch, Undisturbed(s), Part(s), Term(s)
    PROVE  Part(s)'
<1> USE Facts
<1>1. PICK l \in {"done", "restore", "unlock"} : Interrupted(s, l)
  BY DEF Term, TermPrepare, TermLast, TermForward, TermRollback
<1> DEFINE r == [NoJob(l) EXCEPT !.rolling = l = "unlock"]
<1>2. job' = [job EXCEPT ![s] = r] /\ UNCHANGED windows
  BY <1>1 DEF Interrupted, agents
<1>3. r.pc = l
  BY DEF NoJob
<1> HIDE DEF r
<1>4. Onto(s, l)
  BY <1>2, <1>3 DEF Onto, JobsAreSound
<1> QED
  BY <1>2, <1>4, Rests DEF Resting

\* mp for one agent of s: it is among those that have no window yet.
LEMMA ForAnAgentFacts ==
    ASSUME Inv, Snapped, NEW s \in Switch, Undisturbed(s), Part(s), job[s].pc \in ForAnAgent
    PROVE  /\ job[s].agent \in job[s].left /\ job[s].agent \in Agent
           /\ job[s].left \subseteq file[s].active
           /\ file[s].snap[job[s].agent] \in Row
           /\ job[s].pc \in {"load", "mark", "target", "window"} => windows[job[s].agent] = <<>>
           /\ job[s].pc \in {"load", "mark", "found"} => job[s].rolling
           /\ Resumes(s) <=> job[s].rolling
           /\ Failed(s) = IF job[s].rolling THEN "unlock" ELSE "restore"
<1>1. job[s].agent \in job[s].left /\ job[s].left \subseteq file[s].active
  BY DEF Part, BringsUp, Upward
<1> QED
  BY <1>1, Facts DEF Part, Windowless, GoesBack, Resumes, Failed, ForAnAgent

\* What a step for agent a of s leaves alone: the agents that are up again, and
\* the rows of those that are not.
LEMMA OthersKeep ==
    ASSUME Inv, Snapped, NEW s \in Switch, Undisturbed(s), Part(s),
           job[s].pc \in ForAnAgent, file'[s] = file[s],
           \A b \in Agent : b # job[s].agent =>
               windows'[b] = windows[b] /\ roster'[b] = roster[b]
    PROVE  /\ file[s].active \subseteq Agent /\ job[s].agent \in job[s].left
           /\ job[s].rolling => \A b \in file[s].active \ job[s].left :
                 FormerWindow(s, b)' /\ FormerRow(s, b)'
           /\ job[s].rolling => \A b \in job[s].left :
                 b # job[s].agent => roster'[b] = file[s].snap[b]
           /\ ~job[s].rolling => \A b \in file[s].active \ job[s].left : Fresh(s, b)'
<1>1. /\ file[s].active \subseteq Agent /\ job[s].agent \in job[s].left
      /\ job[s].left \subseteq file[s].active
  BY Facts, ForAnAgentFacts
<1>2. \A b \in file[s].active \ job[s].left :
         b \in Agent /\ windows'[b] = windows[b] /\ roster'[b] = roster[b]
  BY <1>1
<1>3. job[s].pc \in Upward
  BY DEF Upward
<1>4. ASSUME job[s].rolling
      PROVE  \A b \in file[s].active \ job[s].left : FormerWindow(s, b)' /\ FormerRow(s, b)'
  <2>1. \A b \in file[s].active \ job[s].left : FormerWindow(s, b) /\ FormerRow(s, b)
    BY <1>3, <1>4 DEF Part, GoesBack
  <2> QED
    BY <1>2, <2>1 DEF FormerWindow, FormerRow, Former
<1>5. ASSUME job[s].rolling
      PROVE  \A b \in job[s].left : b # job[s].agent => roster'[b] = file[s].snap[b]
  <2>1. \A b \in job[s].left : b # job[s].agent => roster[b] = file[s].snap[b]
    BY <1>3, <1>5 DEF Part, GoesBack
  <2> QED
    BY <1>1, <2>1
<1>6. ASSUME ~job[s].rolling
      PROVE  \A b \in file[s].active \ job[s].left : Fresh(s, b)'
  <2>1. \A b \in file[s].active \ job[s].left : Fresh(s, b)
    BY <1>3, <1>6 DEF Part, GoesForward
  <2> QED
    BY <1>2, <2>1 DEF Fresh, Target
<1> QED
  BY <1>1, <1>4, <1>5, <1>6

\* The profile that spawn resolves is the one that is bound.
LEMMA TargetPart ==
    ASSUME Inv, Snapped, NEW s \in Switch, Undisturbed(s), Part(s), SpawnTarget(s)
    PROVE  Part(s)'
<1> USE Facts DEF Upward, ForAnAgent
<1>0. PICK a \in Agent : a = job[s].agent
  BY ForAnAgentFacts DEF SpawnTarget, At
<1> USE <1>0
<1> DEFINE j == job[s]
           held == IF Resumes(s) THEN j.held ELSE roster[a]
           r == [j EXCEPT !.pc = "window", !.held = held, !.using = Effective(bindings, a)]
<1>1. job[s].pc = "target" /\ UNCHANGED <<bindings, roster, windows, file>>
  BY DEF SpawnTarget, At, agents
<1>2. a \in j.left /\ windows[a] = <<>> /\ (Resumes(s) <=> j.rolling)
      /\ Failed(s) = IF j.rolling THEN "unlock" ELSE "restore"
  BY <1>1, ForAnAgentFacts
<1>3. ~Found(a)
  BY <1>2 DEF Found
<1>4. CASE Goto(s, IF Resumes(s) THEN "put_back" ELSE Failed(s))
  <2>1. PICK l \in {"put_back", "restore"} : Goto(s, l) /\ (l = "put_back" => j.rolling)
    BY <1>2, <1>4
  <2>2. Onto(s, l) /\ job'[s].rolling = j.rolling
    BY <2>1, GotoFields
  <2> QED
    BY <1>1, <2>1, <2>2, Rests DEF Resting
<1>5. CASE job' = [job EXCEPT ![s] = r]
  <2>1. /\ r.pc = "window" /\ r.agent = a /\ r.left = j.left /\ r.rolling = j.rolling
        /\ r.held = held /\ r.using = Effective(bindings, a)
    BY DEF Job
  <2> HIDE DEF r
  <2>2. /\ Onto(s, "window") /\ job'[s].agent = a /\ job'[s].left = j.left
        /\ job'[s].rolling = j.rolling /\ job'[s].held = held
        /\ job'[s].using = Effective(bindings, a)
    BY <1>5, <2>1 DEF Onto, JobsAreSound
  <2> HIDE DEF held
  <2>3. j.rolling => held = j.held
    BY <1>2 DEF held
  <2>4. Windowless(s)' = Windowless(s)
    BY <1>1, <2>2 DEF Windowless, Onto
  <2>5. BringsUp(s)'
    BY <1>1, <2>2 DEF Part, BringsUp, Onto
  <2>6. GoesForward(s)'
    <3>1. ~j.rolling => Effective(bindings, a) = Target(s, a)
      BY <1>1 DEF Part, GoesForward
    <3>2. ~j.rolling => \A b \in file[s].active \ j.left : Fresh(s, b)'
      BY <1>1, OthersKeep
    <3>3. ~j.rolling => job'[s].using = Target(s, a)'
      BY <1>1, <2>2, <3>1 DEF Target
    <3> QED
      BY <1>1, <2>2, <3>2, <3>3 DEF GoesForward, Onto
  <2>7. GoesBack(s)'
    <3>1. j.rolling => /\ bindings = file[s].saved /\ j.held = file[s].snap[a]
                       /\ Effective(bindings, a) = file[s].snap[a].home
      BY <1>1 DEF Part, GoesBack
    <3>2. Effective(bindings, a)' = Effective(bindings, a)
      BY <1>1 DEF Effective
    <3>3. j.rolling =>
            /\ \A b \in file[s].active \ j.left : FormerWindow(s, b)' /\ FormerRow(s, b)'
            /\ \A b \in j.left : b # a => roster'[b] = file[s].snap[b]
      BY <1>1, OthersKeep
    <3> QED
      BY <1>1, <2>2, <2>3, <3>1, <3>2, <3>3 DEF GoesBack, Onto, RollingBack
  <2> QED
    BY <1>1, <2>2, <2>4, <2>5, <2>6, <2>7 DEF Part, At, Onto
<1> QED
  <2>1. ASSUME ~Goto(s, IF Resumes(s) THEN "put_back" ELSE Failed(s))
        PROVE  job' = [job EXCEPT ![s].pc = IF Found(a) THEN "row" ELSE "window",
                                  ![s].held = IF Resumes(s) THEN @ ELSE roster[a],
                                  ![s].using = Effective(bindings, a)]
    BY <2>1 DEF SpawnTarget
  <2>2. ASSUME ~Goto(s, IF Resumes(s) THEN "put_back" ELSE Failed(s))
        PROVE  job' = [job EXCEPT ![s] = r]
    BY <1>3, <2>1, <2>2 DEF JobsAreSound
  <2> QED
    BY <1>4, <1>5, <2>2

\* No window is there, so spawn opens one of its own.
LEMMA WindowPart ==
    ASSUME Inv, Snapped, NEW s \in Switch, Undisturbed(s), Part(s), SpawnWindow(s)
    PROVE  Part(s)'
<1> USE Facts DEF Upward, ForAnAgent
<1>0. PICK a \in Agent : a = job[s].agent
  BY ForAnAgentFacts DEF SpawnWindow, At
<1> USE <1>0
<1> DEFINE j == job[s]
           n == IF Resumes(s) THEN j.held.session ELSE minted[a] + 1
           w == [profile |-> j.using, session |-> n]
           r == [j EXCEPT !.pc = "row", !.made = TRUE, !.new = n]
<1>1. j.pc = "window" /\ UNCHANGED <<bindings, roster, file>>
  BY DEF SpawnWindow, At
<1>2. a \in j.left /\ a \in Agent /\ windows[a] = <<>> /\ (Resumes(s) <=> j.rolling)
      /\ j.left \subseteq file[s].active
  BY <1>1, ForAnAgentFacts
<1>3. job' = [job EXCEPT ![s] = r]
  BY <1>2 DEF SpawnWindow, JobsAreSound
<1>4. windows' = [windows EXCEPT ![a] = IF Len(windows[a]) < MaxWindows THEN Append(windows[a], w)
                                        ELSE windows[a]]
  BY DEF SpawnWindow
<1>5. j.rolling => n = j.held.session
  BY <1>2
<1> HIDE DEF n
<1>6. w.profile = j.using /\ w.session = n
  OBVIOUS
<1>7. /\ r.pc = "row" /\ r.agent = a /\ r.left = j.left /\ r.rolling = j.rolling
      /\ r.held = j.held /\ r.using = j.using /\ r.made /\ r.new = n
  BY DEF Job
<1> HIDE DEF r
<1>8. /\ Onto(s, "row") /\ job'[s].agent = a /\ job'[s].left = j.left
      /\ job'[s].rolling = j.rolling /\ job'[s].held = j.held
      /\ job'[s].using = j.using /\ job'[s].made /\ job'[s].new = n
  BY <1>3, <1>7 DEF Onto, JobsAreSound
<1>9. windows'[a] = <<w>> /\ \A b \in Agent : b # a => windows'[b] = windows[b]
  <2> HIDE DEF w
  <2>1. Len(<<>>) < MaxWindows /\ Append(<<>>, w) = <<w>>
    BY BoundAssumption
  <2> QED
    BY <1>2, <1>4, <2>1
<1>10. \A b \in Agent : Len(windows'[b]) <= 1
  <2> HIDE DEF w
  <2>1. Len(<<w>>) = 1
    OBVIOUS
  <2>2. \A b \in Agent : b # a => Len(windows'[b]) <= 1
    BY <1>9
  <2>3. Len(windows'[a]) <= 1
    BY <1>9, <2>1
  <2> QED
    BY <2>2, <2>3
<1>11. \A b \in Windowless(s)' : windows'[b] = <<>>
  <2>1. Windowless(s) = j.left /\ Windowless(s)' = j.left \ {a}
    BY <1>1, <1>8 DEF Windowless, Onto
  <2> QED
    BY <1>9, <2>1 DEF Part
<1>12. BringsUp(s)'
  BY <1>1, <1>2, <1>8 DEF BringsUp, Onto
<1>13. GoesForward(s)'
  <2>1. windows'[a] = <<[profile |-> j.using, session |-> n]>>
    BY <1>9
  <2> HIDE DEF w
  <2>2. ~j.rolling => j.using = Target(s, a) /\ Target(s, a)' = Target(s, a)
    BY <1>1 DEF Part, GoesForward, Target
  <2>3. ~j.rolling => \A b \in file[s].active \ j.left : Fresh(s, b)'
    BY <1>1, <1>9, OthersKeep
  <2>4. ~j.rolling => windows'[a] \in {<<>>, <<[profile |-> job'[s].using, session |-> job'[s].new]>>}
    BY <1>8, <2>1
  <2> QED
    BY <1>1, <1>8, <2>2, <2>3, <2>4 DEF GoesForward, Onto
<1>14. GoesBack(s)'
  <2>1. j.rolling => /\ bindings = file[s].saved /\ j.held = file[s].snap[a]
                     /\ Effective(bindings, a) = file[s].snap[a].home
                     /\ j.using = file[s].snap[a].home
    BY <1>1 DEF Part, GoesBack
  <2>2. j.rolling => w = Former(s, a)
    BY <1>5, <2>1 DEF Former
  <2> HIDE DEF w
  <2>3. j.rolling => FormerWindow(s, a)'
    BY <1>1, <1>9, <2>2 DEF FormerWindow, Former
  <2>4. Effective(bindings, a)' = Effective(bindings, a)
    BY <1>1 DEF Effective
  <2>5. j.rolling => /\ \A b \in file[s].active \ j.left : FormerWindow(s, b)' /\ FormerRow(s, b)'
                     /\ \A b \in j.left : b # a => roster'[b] = file[s].snap[b]
    BY <1>1, <1>9, OthersKeep
  <2> QED
    BY <1>1, <1>8, <2>1, <2>3, <2>4, <2>5 DEF GoesBack, Onto, RollingBack
<1> QED
  BY <1>8, <1>10, <1>11, <1>12, <1>13, <1>14 DEF Part, At, Onto

\* A fresh row names the session of the window or none.
LEMMA FreshPart ==
    ASSUME Inv, Snapped, NEW s \in Switch, Undisturbed(s), Part(s), SpawnFresh(s)
    PROVE  Part(s)'
<1> USE Facts DEF Upward, ForAnAgent
<1>0. PICK a \in Agent : a = job[s].agent
  BY ForAnAgentFacts DEF SpawnFresh, At
<1> USE <1>0
<1> DEFINE j == job[s]
<1>1. j.pc = "row" /\ UNCHANGED <<bindings, windows, file>> /\ ~Resumes(s)
  BY DEF SpawnFresh, PutRow, At
<1>2. a \in j.left /\ a \in Agent /\ ~j.rolling /\ j.left \subseteq file[s].active
  BY <1>1, ForAnAgentFacts
<1>3. j.made /\ windows[a] \in {<<>>, <<[profile |-> j.using, session |-> j.new]>>}
      /\ j.using = Target(s, a)
  BY <1>1, <1>2 DEF Part, GoesForward
<1>4. /\ roster'[a].session \in {0, j.new}
      /\ \A b \in Agent : b # a => roster'[b] = roster[b]
  <2>1. PICK n \in {0, j.new} :
          roster' = [roster EXCEPT ![a] =
              [alive |-> TRUE, retired |-> FALSE, profile |-> j.using, session |-> n,
               home |-> IF j.made THEN j.using ELSE j.held.home]]
    BY <1>3 DEF SpawnFresh, PutRow
  <2> QED
    BY <1>2, <2>1
<1>5. Onto(s, "revive") /\ job'[s].left = j.left \ {a} /\ ~job'[s].rolling
  BY <1>2, GoOnFields DEF SpawnFresh, Handled
<1>6. Windowless(s)' = Windowless(s)
  BY <1>1, <1>5 DEF Windowless, Onto
<1>7. BringsUp(s)'
  BY <1>1, <1>2, <1>5 DEF BringsUp, Onto
<1>8. GoesForward(s)'
  <2>1. Fresh(s, a)'
    <3> DEFINE rec == [profile |-> j.using, session |-> j.new]
    <3>1. rec.profile = j.using /\ rec.session = j.new
      OBVIOUS
    <3>2. windows'[a] = <<>> \/ windows'[a] = <<rec>>
      BY <1>1, <1>3
    <3> HIDE DEF rec
    <3>3. windows'[a] # <<>> => windows'[a][1] = rec
      BY <3>2
    <3>4. Target(s, a)' = Target(s, a)
      BY <1>1 DEF Target
    <3> QED
      BY <1>3, <1>4, <3>1, <3>3, <3>4 DEF Fresh
  <2>2. \A b \in file[s].active \ j.left : Fresh(s, b)'
    BY <1>1, <1>2, <1>4, OthersKeep
  <2>3. file'[s] = file[s] /\ \A b \in file[s].active \ (j.left \ {a}) : Fresh(s, b)'
    BY <1>1, <2>1, <2>2
  <2> QED
    BY <1>5, <2>3 DEF GoesForward, Onto
<1>9. GoesBack(s)'
  BY <1>5 DEF GoesBack, Onto, RollingBack
<1> QED
  BY <1>1, <1>5, <1>6, <1>7, <1>8, <1>9 DEF Part, At, Onto

\* A resumed row is the snapshot's, with the profile of its session.
LEMMA ResumedPart ==
    ASSUME Inv, Snapped, NEW s \in Switch, Undisturbed(s), Part(s), SpawnResumed(s)
    PROVE  Part(s)'
<1> USE Facts DEF Upward, ForAnAgent
<1>0. PICK a \in Agent : a = job[s].agent
  BY ForAnAgentFacts DEF SpawnResumed, At
<1> USE <1>0
<1> DEFINE j == job[s]
           was == file[s].snap[a]
           new == [alive |-> TRUE, retired |-> FALSE, profile |-> j.using, home |-> j.using,
                   session |-> j.held.session]
<1>1. j.pc = "row" /\ UNCHANGED <<bindings, file>> /\ Resumes(s)
  BY DEF SpawnResumed, PutRow, At
<1>2. /\ a \in j.left /\ a \in Agent /\ j.rolling /\ j.left \subseteq file[s].active
      /\ was \in Row
  BY <1>1, ForAnAgentFacts
<1>3. j.held = was /\ j.using = was.home /\ Effective(bindings, a) = was.home
  BY <1>1, <1>2 DEF Part, GoesBack
<1>4. CASE PutRow(s, new) /\ Goto(s, "found")
  <2>1. new = [was EXCEPT !.profile = was.home]
    <3>1. was.alive = TRUE /\ was.retired = FALSE
      BY <1>2 DEF Snapped, Row
    <3> DEFINE back == [was EXCEPT !.profile = was.home]
    <3>2. /\ back \in Row /\ back.alive = was.alive /\ back.retired = was.retired
          /\ back.profile = was.home /\ back.home = was.home /\ back.session = was.session
      BY <1>2 DEF Row
    <3>3. /\ new \in Row /\ new.alive = was.alive /\ new.retired = was.retired
          /\ new.profile = was.home /\ new.home = was.home /\ new.session = was.session
      BY <1>2, <1>3, <3>1 DEF Row
    <3> HIDE DEF new, back, was
    <3>4. new = back
      BY <3>2, <3>3, RowsAgree
    <3> QED
      BY <3>4 DEF back
  <2> HIDE DEF new
  <2>2. /\ roster'[a] = new /\ UNCHANGED windows
        /\ \A b \in Agent : b # a => roster'[b] = roster[b]
    BY <1>2, <1>4 DEF PutRow
  <2>3. /\ Onto(s, "found") /\ job'[s].agent = a /\ job'[s].left = j.left
        /\ job'[s].rolling /\ job'[s].held = j.held /\ job'[s].using = j.using
    BY <1>2, <1>4, GotoFields
  <2>4. Windowless(s)' = Windowless(s)
    BY <1>1, <2>3 DEF Windowless, Onto
  <2>5. BringsUp(s)'
    BY <1>1, <1>2, <2>3 DEF BringsUp, Onto
  <2>6. GoesForward(s)'
    BY <2>3 DEF GoesForward, Onto
  <2>7. GoesBack(s)'
    <3>1. FormerRow(s, a)'
      BY <1>1, <2>1, <2>2 DEF FormerRow
    <3>2. FormerWindow(s, a)'
      BY <1>1, <1>2, <2>2 DEF Part, GoesBack, FormerWindow, Former
    <3>3. Effective(bindings, a)' = was.home
      BY <1>1, <1>3 DEF Effective
    <3>4. /\ \A b \in file[s].active \ j.left : FormerWindow(s, b)' /\ FormerRow(s, b)'
          /\ \A b \in j.left : b # a => roster'[b] = file[s].snap[b]
      BY <1>1, <1>2, <2>2, OthersKeep
    <3>5. bindings = file[s].saved
      BY <1>1, <1>2 DEF Part, GoesBack
    <3> QED
      BY <1>1, <1>3, <2>3, <3>1, <3>2, <3>3, <3>4, <3>5 DEF GoesBack, Onto, RollingBack
  <2> QED
    BY <1>1, <2>2, <2>3, <2>4, <2>5, <2>6, <2>7 DEF Part, At, Onto
<1>5. CASE /\ windows' = [windows EXCEPT ![a] = IF Len(@) = 1 THEN <<>> ELSE @]
           /\ Goto(s, "put_back")
  <2>1. Onto(s, "put_back") /\ job'[s].rolling
    BY <1>2, <1>5, GotoFields
  <2>2. \A b \in Agent : windows'[b] \in {windows[b], <<>>}
    BY <1>5
  <2>3. \A b \in Agent : Len(windows'[b]) <= 1
    BY <2>2
  <2> QED
    BY <2>1, <2>3, Rests DEF Resting
<1> QED
  BY <1>4, <1>5 DEF SpawnResumed

\* Any step of mp for an agent of s.
LEMMA MpRevivePart ==
    ASSUME Inv, Snapped, NEW s \in Switch, Undisturbed(s), Part(s), MpRevive(s)
    PROVE  Part(s)'
<1> USE Facts DEF Upward, ForAnAgent
<1> DEFINE j == job[s]
<1>1. CASE ReviveLoad(s)
  <2>1. j.pc = "load" /\ UNCHANGED <<bindings, roster, windows, file>>
    BY <1>1 DEF ReviveLoad, At, agents
  <2>0. PICK a \in Agent : a = job[s].agent
    BY <2>1, ForAnAgentFacts
  <2> USE <2>0
  <2> DEFINE was == file[s].snap[a]
  <2>2. a \in j.left /\ j.rolling /\ Failed(s) = "unlock" /\ j.left \subseteq file[s].active
    BY <2>1, ForAnAgentFacts
  <2>3. CASE Goto(s, Failed(s))
    <3>1. Onto(s, "unlock")
      BY <2>2, <2>3, GotoFields
    <3> QED
      BY <2>1, <3>1, Rests DEF Resting
  <2>4. CASE ~Goto(s, Failed(s))
    <3> DEFINE held == roster[a]
               r == [j EXCEPT !.pc = "mark", !.held = held]
    <3>1. job' = [job EXCEPT ![s] = r] /\ held.home = Effective(bindings, a)
      BY <1>1, <2>4 DEF ReviveLoad, JobsAreSound
    <3>2. held = was
      BY <2>1, <2>2 DEF Part, GoesBack
    <3> HIDE DEF held
    <3>3. /\ r.pc = "mark" /\ r.agent = a /\ r.left = j.left /\ r.rolling = j.rolling
          /\ r.held = held
      BY DEF Job
    <3> HIDE DEF r
    <3>4. /\ Onto(s, "mark") /\ job'[s].agent = a /\ job'[s].left = j.left
          /\ job'[s].rolling /\ job'[s].held = was
      BY <2>2, <3>1, <3>2, <3>3 DEF Onto, JobsAreSound
    <3>5. Windowless(s)' = Windowless(s)
      BY <2>1, <3>4 DEF Windowless, Onto
    <3>6. BringsUp(s)'
      BY <2>1, <2>2, <3>4 DEF BringsUp, Onto
    <3>7. GoesForward(s)'
      BY <3>4 DEF GoesForward, Onto
    <3>8. GoesBack(s)'
      <4>1. /\ \A b \in file[s].active \ j.left : FormerWindow(s, b)' /\ FormerRow(s, b)'
            /\ \A b \in j.left : b # a => roster'[b] = file[s].snap[b]
        BY <2>1, <2>2, OthersKeep
      <4>2. bindings = file[s].saved
        BY <2>1, <2>2 DEF Part, GoesBack
      <4>3. Effective(bindings, a)' = was.home
        BY <2>1, <3>1, <3>2 DEF Effective
      <4> QED
        BY <2>1, <3>4, <4>1, <4>2, <4>3 DEF GoesBack, Onto, RollingBack
    <3> QED
      BY <2>1, <3>4, <3>5, <3>6, <3>7, <3>8 DEF Part, At, Onto
  <2> QED
    BY <2>3, <2>4
<1>2. CASE ReviveMark(s)
  <2>1. j.pc = "mark" /\ UNCHANGED <<bindings, windows, file>>
    BY <1>2 DEF ReviveMark, PutRow, At
  <2>0. PICK a \in Agent : a = job[s].agent
    BY <2>1, ForAnAgentFacts
  <2> USE <2>0
  <2> DEFINE was == file[s].snap[a]
  <2>2. a \in j.left /\ j.rolling /\ j.left \subseteq file[s].active
    BY <2>1, ForAnAgentFacts
  <2>3. \A b \in Agent : b # a => roster'[b] = roster[b]
    BY <1>2 DEF ReviveMark, PutRow
  <2>4. /\ Onto(s, "target") /\ job'[s].agent = a /\ job'[s].left = j.left
        /\ job'[s].rolling /\ job'[s].held = j.held
    BY <1>2, <2>2, GotoFields DEF ReviveMark
  <2>5. Windowless(s)' = Windowless(s)
    BY <2>1, <2>4 DEF Windowless, Onto
  <2>6. BringsUp(s)'
    BY <2>1, <2>2, <2>4 DEF BringsUp, Onto
  <2>7. GoesForward(s)'
    BY <2>4 DEF GoesForward, Onto
  <2>8. GoesBack(s)'
    <3>1. /\ \A b \in file[s].active \ j.left : FormerWindow(s, b)' /\ FormerRow(s, b)'
          /\ \A b \in j.left : b # a => roster'[b] = file[s].snap[b]
      BY <2>1, <2>2, <2>3, OthersKeep
    <3>2. /\ bindings = file[s].saved /\ j.held = was /\ Effective(bindings, a) = was.home
      BY <2>1, <2>2 DEF Part, GoesBack
    <3>3. Effective(bindings, a)' = Effective(bindings, a)
      BY <2>1 DEF Effective
    <3> QED
      BY <2>1, <2>4, <3>1, <3>2, <3>3 DEF GoesBack, Onto, RollingBack
  <2> QED
    BY <2>1, <2>4, <2>5, <2>6, <2>7, <2>8 DEF Part, At, Onto
<1>3. CASE ReviveFound(s)
  <2>1. j.pc = "found" /\ UNCHANGED <<bindings, roster, windows, file>>
    BY <1>3 DEF ReviveFound, At, agents
  <2>0. PICK a \in Agent : a = job[s].agent
    BY <2>1, ForAnAgentFacts
  <2> USE <2>0
  <2> DEFINE was == file[s].snap[a]
  <2>2. a \in j.left /\ j.rolling /\ j.left \subseteq file[s].active
    BY <2>1, ForAnAgentFacts
  <2>3. CASE Goto(s, "put_back")
    <3>1. Onto(s, "put_back") /\ job'[s].rolling
      BY <2>2, <2>3, GotoFields
    <3> QED
      BY <2>1, <3>1, Rests DEF Resting
  <2>4. CASE Handled(s)
    <3>1. /\ Onto(s, "roll_revive") /\ job'[s].left = j.left \ {a} /\ job'[s].rolling
          /\ job'[s].agent = All
      BY <2>2, <2>4, GoOnFields DEF Handled
    <3>2. Windowless(s)' = Windowless(s)
      BY <2>1, <3>1 DEF Windowless, Onto
    <3>3. BringsUp(s)'
      BY <2>1, <2>2, <3>1 DEF BringsUp, Onto
    <3>4. GoesForward(s)'
      BY <3>1 DEF GoesForward, Onto
    <3>5. GoesBack(s)'
      <4>1. /\ \A b \in file[s].active \ j.left : FormerWindow(s, b)' /\ FormerRow(s, b)'
            /\ \A b \in j.left : b # a => roster'[b] = file[s].snap[b]
        BY <2>1, <2>2, OthersKeep
      <4>2. FormerWindow(s, a) /\ FormerRow(s, a) /\ bindings = file[s].saved
        BY <2>1, <2>2 DEF Part, GoesBack
      <4>3. FormerWindow(s, a)' /\ FormerRow(s, a)'
        BY <2>1, <4>2 DEF FormerWindow, FormerRow, Former
      <4>4. \A b \in file[s].active \ (j.left \ {a}) : FormerWindow(s, b)' /\ FormerRow(s, b)'
        BY <4>1, <4>3
      <4>5. \A b \in j.left \ {a} : roster'[b] = file[s].snap[b]
        BY <4>1
      <4> QED
        BY <2>1, <3>1, <4>2, <4>4, <4>5 DEF GoesBack, Onto, RollingBack
    <3> QED
      BY <2>1, <3>1, <3>2, <3>3, <3>4, <3>5 DEF Part, At, Onto
  <2> QED
    BY <1>3, <2>3, <2>4 DEF ReviveFound
<1>4. CASE ReviveFails(s)
  <2>1. j.pc = "put_back" /\ UNCHANGED windows
    BY <1>4 DEF ReviveFails, PutRow, At
  <2>2. Failed(s) = "unlock"
    BY <2>1 DEF Part, GoesBack, Failed
  <2>3. Onto(s, "unlock")
    BY <1>4, <2>2, GotoFields DEF ReviveFails
  <2> QED
    BY <2>1, <2>3, Rests DEF Resting
<1> QED
  BY <1>1, <1>2, <1>3, <1>4, TargetPart, WindowPart, FreshPart, ResumedPart DEF MpRevive, Spawn

\* Only the step Lock takes the lock, and only it records how things were then.
LEMMA OnlyLock ==
    ASSUME NEW o \in Switch, Run(o) \/ Term(o), ~Lock(o)
    PROVE  UNCHANGED <<alone, single>> /\ lock' \in {lock, Free}
<1>1. CASE Term(o)
  BY <1>1 DEF Term, TermPrepare, TermLast, TermForward, TermRollback, Interrupted, history
<1>2. CASE MpRevive(o)
  BY <1>2 DEF MpRevive, Spawn, SpawnTarget, SpawnWindow, SpawnFresh, SpawnResumed, ReviveLoad,
              ReviveMark, ReviveFound, ReviveFails, PutRow, history
<1>3. CASE Run(o) /\ ~MpRevive(o)
  BY <1>3 DEF Run, Read, Save, Prepared, Copy, Stop, KillRow, KillWindow, KillFinal, Stopped,
              Activate, Bind, Revive, Authorize, Revived, VerifyRows, VerifyWindows, Commit,
              Abort, Unlock, Exit, Restore, RollRead, RollStopped, RollBind, RollSave,
              RollRevive, RollDone, Look, PutRow, WritePhase, history
<1> QED
  BY <1>1, <1>2, <1>3

\* A commit that was late is never forgotten.
LEMMA LateGrows ==
    ASSUME Inv, [Next]_vars, NEW o \in Switch, late[o]
    PROVE  late'[o]
<1>1. ASSUME NEW k \in Switch, Run(k) \/ Term(k)
      PROVE  late'[o]
  <2>1. LocksWell(k)
    BY <1>1, RunLocksWell, TermLocksWell
  <2> QED
    BY <2>1 DEF LocksWell, Inv, TypeOK
<1>2. CASE Supervise
  BY <1>2 DEF Supervise, SupTurn, SupPass, SupDecide, SupFail, SupDone, MpRevive, Spawn,
         SpawnTarget, SpawnWindow, SpawnFresh, SpawnResumed, ReviveLoad, ReviveMark,
         ReviveFound, ReviveFails, PutRow, history
<1>3. ASSUME NEW a \in Agent, WindowDies(a)
      PROVE  late'[o]
  BY <1>3 DEF WindowDies, history
<1>4. CASE UNCHANGED vars
  BY <1>4 DEF vars, history
<1> QED
  BY <1>1, <1>2, <1>3, <1>4 DEF Next

\* Only by taking the free lock does s come to work undisturbed.
LEMMA Enters ==
    ASSUME Inv, Snapped, [Next]_vars, NEW s \in Switch, Undisturbed(s)', ~Undisturbed(s)
    PROVE  Lock(s) /\ lock = Free
<1>1. \A o \in Switch : ~late[o]
  BY LateGrows DEF Undisturbed
<1>2. /\ alone \in [Switch -> BOOLEAN] /\ single \in [Switch -> BOOLEAN]
      /\ lock' = s /\ alone'[s] /\ single'[s]
  BY DEF Inv, TypeOK, Undisturbed
<1>3. ~(alone'[s] = alone[s] /\ single'[s] = single[s] /\ lock = s)
  BY <1>1, <1>2 DEF Undisturbed
<1>4. PICK o \in Switch : Run(o) \/ Term(o)
  <2>1. ~Supervise
    BY <1>2, <1>3 DEF Supervise, SupTurn, SupPass, SupDecide, SupFail, SupDone, MpRevive, Spawn,
         SpawnTarget, SpawnWindow, SpawnFresh, SpawnResumed, ReviveLoad, ReviveMark,
         ReviveFound, ReviveFails, PutRow, history
  <2>2. ~\E a \in Agent : WindowDies(a)
    BY <1>2, <1>3 DEF WindowDies, history
  <2>3. ~UNCHANGED vars
    BY <1>2, <1>3 DEF vars, history
  <2> QED
    BY <2>1, <2>2, <2>3 DEF Next
<1>5. Lock(o)
  BY <1>2, <1>3, <1>4, OnlyLock, Names
<1>6. o = s
  BY <1>2, <1>3, <1>5 DEF Lock
<1>7. lock # s
  BY <1>5, <1>6 DEF Lock, At, Snapped
<1> QED
  BY <1>2, <1>5, <1>6, <1>7 DEF Lock

\* When it takes the lock, its part holds.
LEMMA EnterPart ==
    ASSUME Inv, NEW s \in Switch, Lock(s), lock = Free, Undisturbed(s)'
    PROVE  Part(s)'
<1>1. s \in Proc /\ "sup" \in Proc /\ s # "sup" /\ JobsAreSound
  BY Names, SwitchIsProc DEF Inv
<1>2. /\ alone \in [Switch -> BOOLEAN] /\ single \in [Switch -> BOOLEAN]
      /\ alone'[s] /\ single'[s]
  BY DEF Inv, TypeOK, Undisturbed
<1>3. At("sup", "idle") /\ \A a \in Agent : Len(windows[a]) <= 1
  BY <1>2 DEF Lock
<1>4. Goto(s, "save") /\ UNCHANGED windows
  BY DEF Lock, agents
<1>5. Onto(s, "save")
  BY <1>1, <1>4, GotoFields
<1>6. At("sup", "idle")' /\ \A a \in Agent : Len(windows'[a]) <= 1
  BY <1>1, <1>3, <1>4, <1>5 DEF At, Onto
<1>7. Windowless(s)' = {}
  BY <1>5 DEF Windowless, Onto
<1>8. BringsUp(s)'
  BY <1>5 DEF BringsUp, Onto, Upward, ForAnAgent
<1>9. GoesForward(s)'
  BY <1>5 DEF GoesForward, Onto, Upward, ForAnAgent
<1>10. GoesBack(s)'
  BY <1>5 DEF GoesBack, Onto, Upward, ForAnAgent, RollingBack
<1> QED
  BY <1>6, <1>7, <1>8, <1>9, <1>10 DEF Part

\* What the script does before it has the lock and after it gave it back.
LEMMA OutsideSteps ==
    ASSUME NEW o \in Switch, Run(o), job[o].pc \in Outside
    PROVE  Read(o) \/ Lock(o) \/ Exit(o)
<1>1. ~MpRevive(o)
  BY DEF MpRevive, Spawn, SpawnTarget, SpawnWindow, SpawnFresh, SpawnResumed, ReviveLoad,
         ReviveMark, ReviveFound, ReviveFails, At, Outside
<1>2. ~(\/ Save(o) \/ Prepared(o) \/ Copy(o) \/ Stop(o) \/ KillRow(o) \/ KillWindow(o)
        \/ KillFinal(o) \/ Stopped(o) \/ Activate(o) \/ Bind(o) \/ Restore(o))
  BY DEF Save, Prepared, Copy, Stop, KillRow, KillWindow, KillFinal, Stopped, Activate, Bind,
         Restore, WritePhase, At, Outside
<1>3. ~(\/ Revive(o) \/ Authorize(o) \/ Revived(o) \/ VerifyRows(o) \/ VerifyWindows(o)
        \/ Commit(o) \/ Abort(o) \/ Unlock(o))
  BY DEF Revive, Authorize, Revived, VerifyRows, VerifyWindows, Commit, Abort, Unlock,
         WritePhase, At, Outside
<1>4. ~(\/ RollRead(o) \/ RollStopped(o) \/ RollBind(o) \/ RollSave(o) \/ RollRevive(o)
        \/ RollDone(o))
  BY DEF RollRead, RollStopped, RollBind, RollSave, RollRevive, RollDone, WritePhase, At,
         Outside
<1> QED
  BY <1>1, <1>2, <1>3, <1>4 DEF Run

\* Without the lock another switch touches nothing of s.
LEMMA OtherSwitchPart ==
    ASSUME Inv, Snapped, NEW s \in Switch, Undisturbed(s), Part(s),
           NEW o \in Switch, o # s, Run(o) \/ Term(o)
    PROVE  Part(s)'
<1>1. job[o].pc \in Outside
  BY DEF Inv, WorksUnderLock, Undisturbed, Outside
<1>2. UNCHANGED <<bindings, roster, windows>> /\ file'[s] = file[s]
  <2>1. CASE Term(o)
    BY <2>1 DEF Term, TermPrepare, TermLast, TermForward, TermRollback, Interrupted, agents
  <2>2. CASE Run(o)
    <3>1. Read(o) \/ Lock(o) \/ Exit(o)
      BY <1>1, <2>2, OutsideSteps
    <3> QED
      BY <3>1 DEF Read, Lock, Exit, agents, Inv, TypeOK
  <2> QED
    BY <2>1, <2>2
<1>3. job'[s] = job[s] /\ job'["sup"] = job["sup"]
  <2>1. KeepsOrder(o)
    BY RunLocksWell, TermLocksWell
  <2> QED
    BY <2>1, Facts, Names, SwitchIsProc DEF KeepsOrder, JobsAreSound
<1> QED
  BY <1>2, <1>3, Steady

\* When the only window of a name dies none is left.
LEMMA OneDies ==
    ASSUME NEW w \in Seq(Window), Len(w) <= 1, NEW i \in DOMAIN w
    PROVE  SubSeq(w, 1, i - 1) \o SubSeq(w, i + 1, Len(w)) = <<>>
<1>1. i = 1 /\ Len(w) = 1
  <2>1. i \in 1 .. Len(w) /\ Len(w) \in Nat
    BY LenProperties
  <2>2. \A n \in Nat : n <= 1 => \A k \in 1 .. n : k = 1 /\ n = 1
    OBVIOUS
  <2> QED
    BY <2>1, <2>2, Zenon
<1>2. SubSeq(w, 1, 0) = <<>> /\ SubSeq(w, 2, 1) = <<>>
  BY SubSeqEmpty
<1>3. <<>> \o <<>> = <<>>
  OBVIOUS
<1>4. i - 1 = 0 /\ i + 1 = 2
  BY <1>1
<1> QED
  BY <1>1, <1>2, <1>3, <1>4

LEMMA WindowDiesPart ==
    ASSUME Inv, Snapped, NEW s \in Switch, Undisturbed(s), Part(s),
           NEW a \in Agent, WindowDies(a)
    PROVE  Part(s)'
<1>1. windows \in [Agent -> Seq(Window)] /\ Len(windows[a]) <= 1
  BY Facts
<1>2. windows' = [windows EXCEPT ![a] = <<>>]
  <2>1. PICK i \in DOMAIN windows[a] :
          windows' = [windows EXCEPT ![a] =
              SubSeq(windows[a], 1, i - 1) \o SubSeq(windows[a], i + 1, Len(windows[a]))]
    BY DEF WindowDies
  <2> QED
    BY <1>1, <2>1, OneDies
<1>3. \A b \in Agent : windows'[b] \in {windows[b], <<>>}
  BY <1>1, <1>2
<1> QED
  BY <1>3, Steady DEF WindowDies

\* Whoever makes the step.
LEMMA WholeInductive ==
    ASSUME Inv, Snapped, Whole, [Next]_vars
    PROVE  Whole'
<1> SUFFICES ASSUME NEW s \in Switch, Undisturbed(s)'
             PROVE  Part(s)'
  BY DEF Whole
<1>1. CASE ~Undisturbed(s)
  BY <1>1, Enters, EnterPart
<1>2. CASE Undisturbed(s)
  <2>0. Part(s)
    BY <1>2 DEF Whole
  <2>1. CASE Run(s)
    BY <1>2, <2>0, <2>1, ScriptPart, KillingPart, RevivalPart, RollbackPart, MpRevivePart DEF Run
  <2>2. CASE Term(s)
    BY <1>2, <2>0, <2>2, TermPart
  <2>3. ASSUME NEW o \in Switch, o # s, Run(o) \/ Term(o)
        PROVE  Part(s)'
    BY <1>2, <2>0, <2>3, OtherSwitchPart
  <2>4. ~Supervise
    <3>1. job["sup"].pc = "idle" /\ lock # Free
      BY <1>2, <2>0, Names DEF Part, At, Undisturbed
    <3> QED
      BY <3>1 DEF Supervise, SupTurn, SupPass, SupDecide, SupFail, SupDone, MpRevive, Spawn,
         SpawnTarget, SpawnWindow, SpawnFresh, SpawnResumed, ReviveLoad, ReviveMark,
         ReviveFound, ReviveFails, At
  <2>5. ASSUME NEW a \in Agent, WindowDies(a)
        PROVE  Part(s)'
    BY <1>2, <2>0, <2>5, WindowDiesPart
  <2>6. CASE UNCHANGED vars
    BY <1>2, <2>0, <2>6, Steady DEF vars, agents
  <2> QED
    BY <2>1, <2>2, <2>3, <2>4, <2>5, <2>6 DEF Next
<1> QED
  BY <1>1, <1>2

\* The snapshot is of agents that run, and only the step Lock takes the lock.
LEMMA SnappedInductive ==
    ASSUME Inv, Snapped, [Next]_vars
    PROVE  Snapped'
<1> SUFFICES ASSUME NEW s \in Switch
             PROVE  /\ \A a \in file'[s].active : file'[s].snap[a].alive /\ ~file'[s].snap[a].retired
                    /\ job'[s].pc \in {"read", "lock"} => lock' # s
  BY DEF Snapped
<1> DEFINE Kept == file'[s].active = file[s].active /\ file'[s].snap = file[s].snap
<1>0. file \in [Switch -> File]
  BY DEF Inv, TypeOK
<1>1. ASSUME Kept
      PROVE  \A a \in file'[s].active : file'[s].snap[a].alive /\ ~file'[s].snap[a].retired
  BY <1>1 DEF Snapped
<1>2. CASE UNCHANGED <<file, lock, job>>
  BY <1>2 DEF Snapped
<1>3. ASSUME NEW o \in Switch, Run(o) \/ Term(o)
      PROVE  \A a \in file'[s].active : file'[s].snap[a].alive /\ ~file'[s].snap[a].retired
  <2>1. CASE Read(o)
    <3>1. file' = [file EXCEPT ![o].prev = host]
      BY <2>1 DEF Read
    <3>2. Kept
      BY <1>0, <3>1 DEF File
    <3> QED
      BY <1>1, <3>2
  <2>2. CASE Save(o)
    <3>1. CASE UNCHANGED file
      BY <1>1, <3>1
    <3>2. CASE file' = [file EXCEPT ![o].saved = bindings, ![o].snap = roster,
                                    ![o].active = Selected(o)]
      <4>1. CASE o = s
        <5>1. file'[s].snap = roster /\ file'[s].active = Selected(s)
          BY <1>0, <3>2, <4>1 DEF File
        <5> QED
          BY <5>1 DEF Selected
      <4>2. CASE o # s
        BY <1>0, <1>1, <3>2, <4>2
      <4> QED
        BY <4>1, <4>2
    <3> QED
      BY <2>2, <3>1, <3>2 DEF Save
  <2>3. CASE ~Read(o) /\ ~Save(o)
    <3>1. CASE Term(o)
      BY <1>1, <3>1 DEF Term, TermPrepare, TermLast, TermForward, TermRollback, Interrupted
    <3>2. CASE MpRevive(o)
      BY <1>1, <3>2 DEF MpRevive, Spawn, SpawnTarget, SpawnWindow, SpawnFresh, SpawnResumed,
              ReviveLoad, ReviveMark, ReviveFound, ReviveFails, PutRow
    <3>3. UNCHANGED file \/ Term(o) \/ MpRevive(o)
      BY <1>3, <2>3 DEF Run, Lock, Prepared, Copy, Stop, KillRow, KillWindow, KillFinal, Stopped,
              Activate, Bind, Revive, Authorize, Revived, VerifyRows, VerifyWindows, Commit,
              Abort, Unlock, Exit, Restore, RollRead, RollStopped, RollBind, RollSave,
              RollRevive, RollDone, Look, PutRow, WritePhase
    <3> QED
      BY <1>1, <3>1, <3>2, <3>3
  <2> QED
    BY <2>1, <2>2, <2>3
<1>4. ASSUME NEW o \in Switch, Run(o) \/ Term(o), job'[s].pc \in {"read", "lock"}
      PROVE  lock' # s
  <2>1. KeepsOrder(o) /\ JobsAreSound /\ s \in Proc /\ o \in Proc
    BY <1>4, RunLocksWell, TermLocksWell, SwitchIsProc DEF Inv
  <2>2. PICK r : Keeps(o, r) /\ job' = [job EXCEPT ![o] = r]
    BY <2>1 DEF KeepsOrder
  <2>3. job[s].pc \in {"read", "lock"} /\ (o = s => job[s].pc = "read")
    BY <1>4, <2>1, <2>2 DEF JobsAreSound, Keeps
  <2>4. lock # s
    BY <2>3 DEF Snapped
  <2>5. Lock(o) => o # s
    BY <2>3 DEF Lock, At
  <2>6. CASE Lock(o)
    BY <2>4, <2>5, <2>6 DEF Lock
  <2>7. CASE ~Lock(o)
    BY <1>4, <2>4, <2>7, OnlyLock, Names
  <2> QED
    BY <2>6, <2>7
<1>5. ASSUME Supervise
      PROVE  UNCHANGED <<file, lock>> /\ job'[s] = job[s]
  <2>1. UNCHANGED <<file, lock>>
    BY <1>5 DEF Supervise, SupTurn, SupPass, SupDecide, SupFail, SupDone, MpRevive, Spawn,
         SpawnTarget, SpawnWindow, SpawnFresh, SpawnResumed, ReviveLoad, ReviveMark,
         ReviveFound, ReviveFails, PutRow
  <2>2. KeepsOrder("sup")
    BY <1>5, SuperviseKeeps DEF Inv
  <2> QED
    BY <2>1, <2>2, Names, SwitchIsProc DEF KeepsOrder, Inv, JobsAreSound
<1>6. CASE Supervise
  BY <1>5, <1>6 DEF Snapped
<1>7. ASSUME NEW a \in Agent, WindowDies(a)
      PROVE  UNCHANGED <<file, lock, job>>
  BY <1>7 DEF WindowDies
<1>8. UNCHANGED vars => UNCHANGED <<file, lock, job>>
  BY DEF vars
<1> QED
  BY <1>2, <1>3, <1>4, <1>6, <1>7, <1>8 DEF Next

\* At the beginning nobody has the lock.
LEMMA WholeInitially == Init => Whole /\ Snapped
<1> SUFFICES ASSUME Init PROVE Whole /\ Snapped
  OBVIOUS
<1>1. \A s \in Switch : lock # s
  BY Names DEF Init
<1>2. \A s \in Switch : file[s].active = {}
  BY DEF Init
<1> QED
  BY <1>1, <1>2 DEF Whole, Snapped, Undisturbed

\* A transaction becomes verified or rolled back in one step of its own each.
LEMMA PhaseSteps ==
    ASSUME Inv, [Next]_vars, NEW s \in Switch, phase'[s] # phase[s]
    PROVE  /\ phase'[s] = "verified" =>
                 At(s, "verify_windows") /\ \A a \in file[s].active : Found(a)
           /\ phase'[s] = "rolled-back" => At(s, "roll_revive") /\ job[s].left = {}
<1>0. phase \in [Switch -> Phase]
  BY DEF Inv, TypeOK
<1>1. PICK o \in Switch : Run(o)
  <2>1. UNCHANGED phase \/ \E o \in Switch : Run(o)
    <3>1. Supervise => UNCHANGED phase
      BY DEF Supervise, SupTurn, SupPass, SupDecide, SupFail, SupDone, MpRevive, Spawn,
         SpawnTarget, SpawnWindow, SpawnFresh, SpawnResumed, ReviveLoad, ReviveMark,
         ReviveFound, ReviveFails, PutRow
    <3>2. ASSUME NEW o \in Switch, Term(o) PROVE UNCHANGED phase
      BY <3>2 DEF Term, TermPrepare, TermLast, TermForward, TermRollback, Interrupted
    <3>3. ASSUME NEW a \in Agent, WindowDies(a) PROVE UNCHANGED phase
      BY <3>3 DEF WindowDies
    <3>4. UNCHANGED vars => UNCHANGED phase
      BY DEF vars
    <3> QED
      BY <3>1, <3>2, <3>3, <3>4 DEF Next
  <2> QED
    BY <2>1
<1>2. \/ Save(o) \/ Stopped(o) \/ Revived(o) \/ VerifyWindows(o) \/ Commit(o) \/ Abort(o)
      \/ RollDone(o)
  <2>1. MpRevive(o) => UNCHANGED phase
    BY DEF MpRevive, Spawn, SpawnTarget, SpawnWindow, SpawnFresh, SpawnResumed, ReviveLoad,
           ReviveMark, ReviveFound, ReviveFails, PutRow
  <2> QED
    BY <1>1, <2>1 DEF Run, Read, Lock, Prepared, Copy, Stop, KillRow, KillWindow, KillFinal,
              Activate, Bind, Revive, Authorize, VerifyRows,
              Unlock, Exit, Restore, RollRead, RollStopped, RollBind, RollSave,
              RollRevive, Look, PutRow
<1>3. CASE Save(o)
  <2>1. phase' \in {phase, [phase EXCEPT ![o] = "prepared"]}
    BY <1>3 DEF Save
  <2> QED
    BY <1>0, <2>1
<1>4. CASE Stopped(o)
  BY <1>0, <1>4 DEF Stopped, WritePhase
<1>5. CASE Revived(o)
  BY <1>0, <1>5 DEF Revived, WritePhase
<1>6. CASE VerifyWindows(o)
  BY <1>0, <1>6 DEF VerifyWindows, WritePhase, Look
<1>7. CASE Commit(o) \/ Abort(o)
  BY <1>0, <1>7 DEF Commit, Abort, WritePhase
<1>8. CASE RollDone(o)
  BY <1>0, <1>8 DEF RollDone, WritePhase
<1> QED
  BY <1>2, <1>3, <1>4, <1>5, <1>6, <1>7, <1>8

\* When an undisturbed switch counts as verified.
LEMMA VerifiedIsWhole ==
    ASSUME Inv, Snapped, NEW s \in Switch, Undisturbed(s), Part(s), At(s, "verify_windows"),
           \A a \in file[s].active : Found(a), NEW a \in file[s].active
    PROVE  /\ Found(a) /\ windows[a][1].profile = Target(s, a)
           /\ roster[a].session = windows[a][1].session
           /\ roster[a].session # file[s].snap[a].session
<1>1. Fresh(s, a) /\ roster[a].session # 0 /\ roster[a].session # file[s].snap[a].session
  BY DEF Part, GoesForward, At
<1>2. Len(windows[a]) = 1
  BY DEF Found
<1>3. windows[a] # <<>>
  BY <1>2, OneIsThere
<1> QED
  BY <1>1, <1>2, <1>3 DEF Fresh, Found

\* When it counts as rolled back.
LEMMA RolledBackIsWhole ==
    ASSUME Inv, Snapped, NEW s \in Switch, Undisturbed(s), Part(s), At(s, "roll_revive"),
           job[s].left = {}
    PROVE  /\ bindings = file[s].saved
           /\ \A a \in file[s].active :
                /\ FormerRow(s, a)
                /\ Found(a) => windows[a][1] = Former(s, a)
<1>1. job[s].rolling /\ job[s].pc \in Upward
  BY DEF Part, GoesBack, At, RollingBack, Upward
<1>2. bindings = file[s].saved /\ \A a \in file[s].active : FormerWindow(s, a) /\ FormerRow(s, a)
  BY <1>1 DEF Part, GoesBack
<1>3. ASSUME NEW a \in file[s].active, Found(a)
      PROVE  windows[a][1] = Former(s, a)
  <2>1. windows[a] # <<>>
    BY <1>3, OneIsThere DEF Found
  <2>2. windows[a] = <<Former(s, a)>>
    BY <1>2, <1>3, <2>1 DEF FormerWindow
  <2> QED
    BY <2>2
<1> QED
  BY <1>2, <1>3

\* A switch that nobody disturbs is whole, for any number of agents, scripts,
\* requests and events: a verified one has every agent of it in a new session of
\* the target profile, a rolled-back one has the former bindings, rows and
\* sessions again, though phases are ended half-way and windows die.
THEOREM SwitchIsWholeAlways == Spec => SwitchIsWhole
<1>1. Init => Inv /\ Snapped /\ Whole
  BY InvInitially, WholeInitially
<1>2. Inv /\ Snapped /\ Whole /\ [Next]_vars => (Inv /\ Snapped /\ Whole)'
  BY InvInductive, SnappedInductive, WholeInductive
<1> DEFINE Good(s) ==
         /\ phase'[s] = "verified" => \A a \in file[s].active :
              /\ Found(a) /\ windows[a][1].profile = Target(s, a)
              /\ roster[a].session = windows[a][1].session
              /\ roster[a].session # file[s].snap[a].session
         /\ phase'[s] = "rolled-back" =>
              /\ bindings = file[s].saved
              /\ \A a \in file[s].active :
                   LET was == file[s].snap[a] IN
                   /\ roster[a] = [was EXCEPT !.profile = was.home]
                   /\ Found(a) => windows[a][1] = [profile |-> was.home, session |-> was.session]
<1>3. ASSUME Inv, Snapped, Whole, [Next]_vars, NEW s \in Switch, phase'[s] # phase[s],
             lock = s, alone[s], single[s], \A o \in Switch : ~late[o]
      PROVE  Good(s)
  <2>1. Undisturbed(s) /\ Part(s)
    BY <1>3 DEF Undisturbed, Whole
  <2>2. ASSUME phase'[s] = "verified", NEW a \in file[s].active
        PROVE  /\ Found(a) /\ windows[a][1].profile = Target(s, a)
               /\ roster[a].session = windows[a][1].session
               /\ roster[a].session # file[s].snap[a].session
    BY <1>3, <2>1, <2>2, PhaseSteps, VerifiedIsWhole
  <2>3. ASSUME phase'[s] = "rolled-back"
        PROVE  /\ bindings = file[s].saved
               /\ \A a \in file[s].active :
                    /\ FormerRow(s, a)
                    /\ Found(a) => windows[a][1] = Former(s, a)
    BY <1>3, <2>1, <2>3, PhaseSteps, RolledBackIsWhole
  <2> QED
    BY <2>2, <2>3 DEF FormerRow, Former
<1>4. Inv /\ Snapped /\ Whole /\ [Next]_vars =>
        [\A s \in Switch : phase'[s] # phase[s] /\ lock = s /\ alone[s] /\ single[s]
                            /\ (\A o \in Switch : ~ late[o]) => Good(s)]_vars
  BY <1>3
<1> QED
  BY <1>1, <1>2, <1>4, PTL DEF Spec, SwitchIsWhole
===============================================================================
