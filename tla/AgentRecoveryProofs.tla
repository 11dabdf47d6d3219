------------------------- MODULE AgentRecoveryProofs -------------------------
(***************************************************************************)
(* Theorems about AgentRecovery, for any number of operators, any limits   *)
(* and any number of commands, deaths and sessions.                        *)
(***************************************************************************)
EXTENDS AgentRecovery, TLAPS

(***************************************************************************)
(* A launch that reconcile counted: it read a row below the limit, so the  *)
(* attempt its except clause writes stays within it.                       *)
(***************************************************************************)
Launched ==
    /\ job["sup"].cmd \in {"reconcile", "boss"}
    /\ job["sup"].pc \notin {"idle", "decide", "done"}

JobInv ==
    /\ Launched => own.attempts < RecoveryMax
    /\ At("sup", "fail") => job["sup"].cmd \in {"reconcile", "boss"}

TypeInv == TypeOK /\ JobInv

RecoveryState == {"healthy", "recovering", "cooldown", "blocked", "stopped"}

LEMMA Rows ==
    /\ NoRow \in Row
    /\ \A row \in Row, b \in BOOLEAN : [row EXCEPT !.retired = b] \in Row
    /\ \A row \in Row, r \in RecoveryState : [row EXCEPT !.recovery = r] \in Row
    /\ \A row \in Row, n \in 0 .. RecoveryMax : [row EXCEPT !.attempts = n] \in Row
    /\ \A row \in Row, s \in 0 .. MaxSessions : [row EXCEPT !.session = s] \in Row
<1>1. NoRow \in Row
  BY BoundsAssumption DEF NoRow, Row
<1>2. \A row \in Row, b \in BOOLEAN : [row EXCEPT !.retired = b] \in Row
  BY DEF Row
<1>3. \A row \in Row, r \in RecoveryState : [row EXCEPT !.recovery = r] \in Row
  BY DEF Row, RecoveryState
<1>4. \A row \in Row, n \in 0 .. RecoveryMax : [row EXCEPT !.attempts = n] \in Row
  BY BoundsAssumption DEF Row
<1>5. \A row \in Row, s \in 0 .. MaxSessions : [row EXCEPT !.session = s] \in Row
  BY BoundsAssumption DEF Row
<1> QED
  BY <1>1, <1>2, <1>3, <1>4, <1>5

LEMMA RetiredType == \A row \in Row : Retired(row) \in Row
<1> TAKE row \in Row
<1>1. [row EXCEPT !.retired = TRUE] \in Row
  BY Rows
<1> QED
  BY <1>1, Rows DEF Retired, RecoveryState

LEMMA NoJobType == NoJob \in Job
BY Rows, BoundsAssumption DEF NoJob, Job, Command, Label

LEMMA SpawnedType ==
    ASSUME NEW j \in Job PROVE Spawned(j) \in Row
<1>1. j.held \in Row /\ j.prev \in Row /\ j.got \in 0 .. MaxSessions /\ NoRow \in Row
  BY Rows DEF Job
<1> QED
  BY <1>1 DEF Spawned, Row

LEMMA BecomeType ==
    ASSUME job \in [Proc -> Job], NEW p \in Proc, NEW j \in Job, Become(p, j)
    PROVE  job' \in [Proc -> Job]
BY DEF Become

LEMMA GotoType ==
    ASSUME job \in [Proc -> Job], NEW p \in Proc, NEW l \in Label, Goto(p, l)
    PROVE  job' \in [Proc -> Job]
<1>1. [job[p] EXCEPT !.pc = l] \in Job
  BY DEF Job
<1>2. (IF l = "idle" THEN NoJob ELSE [job[p] EXCEPT !.pc = l]) \in Job
  BY <1>1, NoJobType
<1> QED
  BY <1>2 DEF Goto, Become

LEMMA AfterType ==
    \A p \in Proc : AfterFailure(p) \in Label /\ AfterSuccess(p) \in Label
BY DEF AfterFailure, AfterSuccess, Label

\* A step within a command: a process keeps what its command started from.
LEMMA WithinCommand ==
    ASSUME JobInv, job \in [Proc -> Job], NEW p \in Proc, NEW j \in Job, Become(p, j),
           p = "sup" => \/ j.pc = "idle"
                        \/ /\ j.cmd = job[p].cmd /\ j.own = job[p].own
                           /\ job[p].pc \notin {"idle", "decide", "done"}
                           /\ j.pc = "fail" => j.cmd \in {"reconcile", "boss"}
    PROVE  job' \in [Proc -> Job] /\ JobInv'
<1>1. "sup" \in Proc /\ job' = [job EXCEPT ![p] = j]
  BY DEF Proc, Become
<1>2. CASE p # "sup"
  <2>1. job'["sup"] = job["sup"]
    BY <1>1, <1>2
  <2> QED
    BY <1>1, <2>1 DEF JobInv, Launched, own, At
<1>3. CASE p = "sup"
  <2>1. job'["sup"] = j
    BY <1>1, <1>3
  <2> QED
    BY <1>1, <1>3, <2>1 DEF JobInv, Launched, own, At
<1> QED
  BY <1>2, <1>3

LEMMA GotoWithin ==
    ASSUME JobInv, job \in [Proc -> Job], NEW p \in Proc, NEW l \in Label, Goto(p, l),
           job[p].pc \notin {"idle", "decide", "done"},
           p = "sup" /\ l = "fail" => job[p].cmd \in {"reconcile", "boss"}
    PROVE  job' \in [Proc -> Job] /\ JobInv'
<1> DEFINE j == IF l = "idle" THEN NoJob ELSE [job[p] EXCEPT !.pc = l]
<1>1. job[p] \in Job
  OBVIOUS
<1>2. j \in Job
  BY <1>1, NoJobType DEF Job
<1>3. l = "idle" => j.pc = "idle"
  BY DEF NoJob
<1>4. l # "idle" => j.cmd = job[p].cmd /\ j.own = job[p].own /\ j.pc = l
  BY <1>1 DEF Job
<1>5. Become(p, j)
  BY DEF Goto
<1> HIDE DEF j
<1> QED
  BY <1>2, <1>3, <1>4, <1>5, WithinCommand

\* A failure leads to the except clause of reconcile only from reconcile.
LEMMA FailureWithin ==
    ASSUME JobInv, job \in [Proc -> Job], NEW p \in Proc, Goto(p, AfterFailure(p)),
           job[p].pc \notin {"idle", "decide", "done"}
    PROVE  job' \in [Proc -> Job] /\ JobInv'
<1>1. AfterFailure(p) = "fail" => job[p].cmd \in {"reconcile", "boss"}
  BY DEF AfterFailure
<1> QED
  BY <1>1, AfterType, GotoWithin

-----------------------------------------------------------------------------
LEMMA TypeInvStep == TypeInv /\ [Next]_vars => TypeInv'
<1> SUFFICES ASSUME TypeInv, [Next]_vars PROVE TypeInv'
  OBVIOUS
<1>a. /\ rec \in Row /\ job \in [Proc -> Job] /\ "sup" \in Proc
      /\ windows \in 0 .. MaxWindows /\ minted \in 1 .. MaxSessions
  BY DEF TypeInv, TypeOK, Proc
<1>b. \A p \in Proc : /\ job[p] \in Job /\ job[p].own \in Row /\ job[p].held \in Row
                       /\ job[p].prev \in Row /\ job[p].got \in 0 .. MaxSessions
  BY <1>a DEF Job
<1>c. \A p \in Op : p \in Proc /\ p # "sup"
  BY ProcessAssumption DEF Proc
<1> USE <1>a, <1>b, <1>c
<1>1. CASE WindowDies
  BY BoundsAssumption, <1>1 DEF WindowDies, TypeInv, TypeOK, history, bounds, JobInv, Launched, own, At
<1>2. CASE Heartbeat
  BY <1>2 DEF Heartbeat, TypeInv, TypeOK, history, bounds, JobInv, Launched, own, At
<1>3. CASE UNCHANGED vars
  BY <1>3 DEF vars, TypeInv, TypeOK, history, bounds, JobInv, Launched, own, At

<1>4. CASE SupStart
  <2>1. [NoJob EXCEPT !.cmd = IF IsBoss /\ ~Found THEN "boss" ELSE "reconcile",
                      !.pc = "decide", !.own = rec] \in Job
    BY NoJobType DEF Job, Command, Label
  <2>2. job' \in [Proc -> Job]
    BY <1>4, <2>1, BecomeType DEF SupStart
  <2>3. JobInv'
    BY <1>4 DEF SupStart, Become, NoJob, JobInv, Launched, At
  <2> QED
    BY <1>4, <2>2, <2>3 DEF SupStart, TypeInv, TypeOK, history, bounds
<1>5. CASE ReconcileSkip \/ ReconcileEarly \/ ReconcileHeal \/ ReconcileBlock
  <2>1. Goto("sup", "done") /\ UNCHANGED <<windows, starting, minted, stopAsked, stopAlone, bounds>>
    BY <1>5 DEF ReconcileSkip, ReconcileEarly, ReconcileHeal, ReconcileBlock, history
  <2>2. job' \in [Proc -> Job]
    BY <2>1, GotoType DEF Label
  <2>3. JobInv'
    BY <2>1 DEF Goto, Become, JobInv, Launched, At
  <2>4. rec' \in Row /\ tries' \in Nat
    <3>1. own \in Row
      BY DEF own
    <3>2. CASE ReconcileHeal
      <4>1. 0 \in 0 .. RecoveryMax
        BY BoundsAssumption
      <4>2. [own EXCEPT !.recovery = "healthy"] \in Row
        BY <3>1, Rows DEF RecoveryState
      <4> QED
        BY <3>2, <4>1, <4>2, Rows DEF ReconcileHeal
    <3>3. CASE ReconcileBlock
      BY <3>1, <3>3, Rows DEF ReconcileBlock, RecoveryState, history, TypeInv, TypeOK
    <3>4. CASE ReconcileSkip \/ ReconcileEarly
      BY <3>4 DEF ReconcileSkip, ReconcileEarly, history, TypeInv, TypeOK
    <3> QED
      BY <1>5, <3>2, <3>3, <3>4
  <2> QED
    BY <2>1, <2>2, <2>3, <2>4 DEF TypeInv, TypeOK, bounds
<1>6. CASE ReconcileLaunch
  <2> DEFINE j == [job["sup"] EXCEPT
                      !.pc = IF own.session = 0 THEN "target" ELSE "load",
                      !.fresh = own.session = 0]
  <2>1. own \in Row /\ own.attempts < RecoveryMax
    BY <1>6, BoundsAssumption DEF ReconcileLaunch, GiveUp, own, Row
  <2>2. j \in Job /\ j.own = own
    <3>1. /\ job["sup"] \in Job
          /\ (IF own.session = 0 THEN "target" ELSE "load") \in Label
      BY DEF Label, TypeInv, TypeOK, Proc
    <3> QED
      BY <3>1 DEF Job, own
  <2>3. job' = [job EXCEPT !["sup"] = j]
    BY <1>6 DEF ReconcileLaunch, Become
  <2>4. rec' \in Row
    <3>1. own.attempts + 1 \in 0 .. RecoveryMax
      BY <2>1, BoundsAssumption DEF Row
    <3>2. [own EXCEPT !.recovery = "recovering"] \in Row
      BY <2>1, Rows DEF RecoveryState
    <3> QED
      BY <1>6, <3>1, <3>2, Rows DEF ReconcileLaunch
  <2> HIDE DEF j
  <2>5. job' \in [Proc -> Job] /\ job'["sup"] = j
    BY <2>2, <2>3
  <2>6. JobInv'
    <3>1. j.pc # "fail"
      BY <1>b DEF j, Job
    <3> QED
      BY <2>1, <2>2, <2>5, <3>1 DEF JobInv, Launched, own, At
  <2> QED
    BY <1>6, <2>4, <2>5, <2>6 DEF ReconcileLaunch, TypeInv, TypeOK, bounds
<1>7. CASE ReconcileFail
  <2>1. own \in Row
    BY DEF own
  <2>3. own.attempts < RecoveryMax
    BY <1>7 DEF ReconcileFail, At, TypeInv, JobInv, Launched
  <2>4. rec' \in Row
    <3>1. own.attempts + 1 \in 0 .. RecoveryMax
      BY <2>1, <2>3, BoundsAssumption DEF Row
    <3>2. [own EXCEPT !.attempts = own.attempts + 1] \in Row
      BY <2>1, <3>1, Rows
    <3> QED
      BY <1>7, <3>2, Rows DEF ReconcileFail, RecoveryState
  <2>5. job' \in [Proc -> Job]
    BY <1>7, GotoType DEF ReconcileFail, Label
  <2>6. JobInv'
    BY <1>7 DEF ReconcileFail, Goto, Become, JobInv, Launched, At
  <2> QED
    BY <1>7, <2>4, <2>5, <2>6 DEF ReconcileFail, TypeInv, TypeOK, history, bounds
<1>8. CASE BossBootstrap
  <2>1. [NoJob EXCEPT !.cmd = "bootstrap", !.pc = "target", !.fresh = TRUE] \in Job
    BY NoJobType DEF Job, Command, Label
  <2>2. job' \in [Proc -> Job]
    BY <1>8, <2>1, BecomeType DEF BossBootstrap
  <2>3. JobInv'
    BY <1>8 DEF BossBootstrap, Become, NoJob, JobInv, Launched, At
  <2> QED
    BY <1>8, <2>2, <2>3 DEF BossBootstrap, TypeInv, TypeOK, history, bounds
<1>9. CASE SupDone
  <2>1. job' \in [Proc -> Job]
    BY <1>9, GotoType DEF SupDone, Label
  <2>2. JobInv'
    BY <1>9 DEF SupDone, Goto, Become, NoJob, JobInv, Launched, At
  <2> QED
    BY <1>9, <2>1, <2>2 DEF SupDone, TypeInv, TypeOK, history, bounds
<1>10. ASSUME NEW p \in Proc, Revive(p)
      PROVE  TypeInv'
  <2> USE DEF At
  <2>1. CASE ReviveLoad(p)
    <3>1. [job[p] EXCEPT !.pc = "mark", !.held = rec] \in Job
      BY DEF Job, Label
    <3>2. CASE Become(p, [job[p] EXCEPT !.pc = "mark", !.held = rec])
      BY <2>1, <3>1, <3>2, WithinCommand DEF ReviveLoad, TypeInv, TypeOK, history, bounds, Job
    <3>3. CASE Goto(p, AfterFailure(p))
      BY <2>1, <3>3, FailureWithin DEF ReviveLoad, TypeInv, TypeOK, history, bounds
    <3> QED
      BY <2>1, <3>2, <3>3 DEF ReviveLoad
  <2>2. CASE ReviveMark(p)
    <3>1. rec' \in Row
      BY <2>2, Rows DEF ReviveMark, RecoveryState
    <3> QED
      BY <2>2, <3>1, GotoWithin DEF ReviveMark, TypeInv, TypeOK, Label, history, bounds
  <2>3. CASE ReviveCheck(p)
    <3>1. PICK l \in {AfterSuccess(p), "restore"} : Goto(p, l)
      BY <2>3 DEF ReviveCheck
    <3>2. l \in Label /\ l # "fail"
      BY AfterType DEF Label, AfterSuccess
    <3> QED
      BY <2>3, <3>1, <3>2, GotoWithin DEF ReviveCheck, TypeInv, TypeOK, history, bounds
  <2>4. CASE ReviveRestore(p)
    BY <2>4, FailureWithin DEF ReviveRestore, TypeInv, TypeOK, history, bounds
  <2> QED
    BY <1>10, <2>1, <2>2, <2>3, <2>4 DEF Revive
<1>11. ASSUME NEW p \in Proc, Spawn(p)
      PROVE  TypeInv'
  <2> USE DEF At
  <2>1. CASE SpawnTarget(p)
    <3>1. [job[p] EXCEPT !.pc = "previous", !.made = ~Found] \in Job
      <4>1. job[p] \in Job
        BY DEF TypeInv, TypeOK
      <4>2. "previous" \in Label
        BY DEF Label
      <4>3. Found \in BOOLEAN
        BY DEF Found
      <4> QED
        BY <4>1, <4>2, <4>3 DEF Job
    <3>2. CASE Become(p, [job[p] EXCEPT !.pc = "previous", !.made = ~Found])
      BY <2>1, <3>1, <3>2, WithinCommand DEF SpawnTarget, TypeInv, TypeOK, history, bounds, Job
    <3>3. CASE Goto(p, "restore")
      BY <2>1, <3>3, GotoWithin DEF SpawnTarget, TypeInv, TypeOK, Label, history, bounds
    <3>4. CASE Goto(p, AfterFailure(p))
      BY <2>1, <3>4, FailureWithin DEF SpawnTarget, TypeInv, TypeOK, history, bounds
    <3> QED
      BY <2>1, <3>2, <3>3, <3>4 DEF SpawnTarget
  <2>2. CASE SpawnPrevious(p)
    <3>1. [job[p] EXCEPT !.pc = "window", !.prev = rec] \in Job
      BY DEF Job, Label
    <3> QED
      BY <2>2, <3>1, WithinCommand DEF SpawnPrevious, TypeInv, TypeOK, history, bounds, Job
  <2>3. CASE SpawnWindow(p)
    <3>1. windows' \in 0 .. MaxWindows
      BY <2>3, BoundsAssumption DEF SpawnWindow
    <3>2. CASE Goto(p, AfterFailure(p))
      BY <2>3, <3>1, <3>2, FailureWithin DEF SpawnWindow, TypeInv, TypeOK, history, bounds
    <3>3. ASSUME NEW l \in {"write", "wait", "restore"}, Goto(p, l)
          PROVE  TypeInv'
      <4>1. job[p].pc = "window" /\ UNCHANGED <<rec, starting, minted, history, bounds>>
        BY <2>3 DEF SpawnWindow
      <4>2. job' \in [Proc -> Job] /\ JobInv'
        BY <3>3, <4>1, GotoWithin DEF TypeInv, Label
      <4>3. TypeOK
        BY DEF TypeInv
      <4>4. TypeOK'
        BY <3>1, <4>1, <4>2, <4>3 DEF TypeOK, history, bounds
      <4> QED
        BY <4>2, <4>4 DEF TypeInv
    <3>4. Goto(p, AfterFailure(p)) \/ Goto(p, "write") \/ Goto(p, "wait") \/ Goto(p, "restore")
      BY <2>3 DEF SpawnWindow
    <3> QED
      BY <3>2, <3>3, <3>4
  <2>4. CASE SpawnCapture(p)
    <3>1. CASE Goto(p, "write") /\ UNCHANGED minted
      BY <2>4, <3>1, GotoWithin DEF SpawnCapture, TypeInv, TypeOK, Label, history, bounds
    <3>2. CASE /\ minted < MaxSessions /\ minted' = minted + 1
               /\ Become(p, [job[p] EXCEPT !.pc = "write", !.got = minted + 1])
      <4>1. minted + 1 \in 1 .. MaxSessions
        BY <3>2, BoundsAssumption
      <4>2. [job[p] EXCEPT !.pc = "write"] \in Job
        BY DEF Job, Label
      <4>5. minted + 1 \in 0 .. MaxSessions
        BY <4>1
      <4>3. \A jj \in Job, s \in 0 .. MaxSessions : [jj EXCEPT !.got = s] \in Job
        BY DEF Job
      <4>4. [job[p] EXCEPT !.pc = "write", !.got = minted + 1] \in Job
        BY <4>5, <4>2, <4>3, Zenon
      <4> QED
        BY <2>4, <3>2, <4>1, <4>4, WithinCommand DEF SpawnCapture, TypeInv, TypeOK, history, bounds, Job
    <3> QED
      BY <2>4, <3>1, <3>2 DEF SpawnCapture
  <2>5. CASE SpawnAwait(p)
    <3>1. windows' \in 0 .. MaxWindows
      BY <2>5, BoundsAssumption DEF SpawnAwait
    <3>2. PICK l \in {"write", "restore"} : Goto(p, l)
      BY <2>5 DEF SpawnAwait
    <3> QED
      BY <2>5, <3>1, <3>2, GotoWithin DEF SpawnAwait, TypeInv, TypeOK, Label, history, bounds
  <2>6. CASE SpawnWrite(p)
    BY <2>6, SpawnedType, GotoWithin DEF SpawnWrite, TypeInv, TypeOK, Label, history, bounds
  <2>7. CASE SpawnRecord(p)
    <3>1. PICK l \in {AfterSuccess(p), "check"} : Goto(p, l)
      BY <2>7 DEF SpawnRecord
    <3>2. l \in Label /\ l # "fail"
      BY AfterType DEF Label, AfterSuccess
    <3>3. rec' \in Row
      BY <2>7, SpawnedType DEF SpawnRecord
    <3> QED
      BY <2>7, <3>1, <3>2, <3>3, GotoWithin DEF SpawnRecord, TypeInv, TypeOK, history, bounds
  <2> QED
    BY <1>11, <2>1, <2>2, <2>3, <2>4, <2>5, <2>6, <2>7 DEF Spawn
<1>12. ASSUME NEW p \in Op, Operate(p)
      PROVE  TypeInv'
  <2> USE DEF At
  <2>1. ASSUME NEW j \in Job, Begin(p, j)
        PROVE  /\ job' \in [Proc -> Job] /\ JobInv'
               /\ commands' \in 0 .. MaxCommands
               /\ UNCHANGED <<rec, windows, starting, minted, deaths, agent>>
    BY <2>1, WithinCommand, BoundsAssumption DEF Begin, TypeInv, TypeOK
  <2>2. CASE BeginKill(p)
    <3>1. [NoJob EXCEPT !.cmd = "kill", !.pc = "kill_mark", !.own = rec] \in Job
      BY NoJobType DEF Job, Command, Label
    <3> QED
      BY <2>2, <2>1, <3>1 DEF BeginKill, TypeInv, TypeOK, history
  <2>3. CASE BeginRevive(p)
    <3>1. [NoJob EXCEPT !.cmd = "revive", !.pc = "load"] \in Job
      BY NoJobType DEF Job, Command, Label
    <3> QED
      BY <2>3, <2>1, <3>1 DEF BeginRevive, TypeInv, TypeOK
  <2>4. CASE BeginSwitch(p)
    <3>1. [NoJob EXCEPT !.cmd = "switch", !.pc = "switch_mark", !.own = rec] \in Job
      BY NoJobType DEF Job, Command, Label
    <3> QED
      BY <2>4, <2>1, <3>1 DEF BeginSwitch, TypeInv, TypeOK
  <2>5. CASE KillMark(p)
    BY <2>5, RetiredType, GotoWithin DEF KillMark, TypeInv, TypeOK, Label, bounds
  <2>6. CASE KillWindow(p)
    <3>1. windows' \in 0 .. MaxWindows
      BY <2>6, BoundsAssumption DEF KillWindow
    <3>2. PICK l \in {"kill_final", "load"} : Goto(p, l)
      BY <2>6 DEF KillWindow
    <3> QED
      BY <2>6, <3>1, <3>2, GotoWithin DEF KillWindow, TypeInv, TypeOK, Label, history, bounds
  <2>7. CASE KillFinal(p)
    BY <2>7, RetiredType, GotoWithin DEF KillFinal, TypeInv, TypeOK, Label, bounds
  <2>8. CASE SwitchMark(p)
    <3>1. rec' \in Row
      BY <2>8, Rows DEF SwitchMark
    <3> QED
      BY <2>8, <3>1, GotoWithin DEF SwitchMark, TypeInv, TypeOK, Label, history, bounds
  <2>9. CASE SwitchRestore(p)
    BY <2>9, GotoWithin DEF SwitchRestore, TypeInv, TypeOK, Label, history, bounds
  <2>10. CASE Timeout(p)
    <3>1. Become(p, NoJob) /\ NoJob.pc = "idle"
      BY <2>10 DEF Timeout, Goto, NoJob
    <3> QED
      BY <2>10, <3>1, NoJobType, WithinCommand DEF Timeout, TypeInv, TypeOK, history, bounds
  <2> QED
    BY <1>12, <2>2, <2>3, <2>4, <2>5, <2>6, <2>7, <2>8, <2>9, <2>10 DEF Operate
<1> QED
  BY <1>1, <1>2, <1>3, <1>4, <1>5, <1>6, <1>7, <1>8, <1>9, <1>10, <1>11, <1>12 DEF Next, Reconcile

LEMMA InitTypeInv == Init => TypeInv
<1> SUFFICES ASSUME Init PROVE TypeInv
  OBVIOUS
<1>1. rec \in Row
  BY Rows, BoundsAssumption DEF Init
<1>2. job \in [Proc -> Job] /\ job["sup"] = NoJob
  BY NoJobType DEF Init, Proc
<1>3. JobInv
  BY <1>2 DEF JobInv, Launched, NoJob, At
<1>4. /\ windows \in 0 .. MaxWindows /\ minted \in 1 .. MaxSessions
      /\ tries \in Nat /\ commands \in 0 .. MaxCommands /\ deaths \in 0 .. MaxDeaths
  BY BoundsAssumption DEF Init
<1>5. /\ starting \in BOOLEAN /\ stopAsked \in BOOLEAN /\ stopAlone \in BOOLEAN
      /\ agent \in Agents
  BY DEF Init
<1> QED
  BY <1>1, <1>2, <1>3, <1>4, <1>5 DEF TypeInv, TypeOK

\* The type invariant, for every value of the constants: in particular the
\* attempts of the row never pass RECOVERY_MAX, whoever writes it.
THEOREM TypeCorrect == Spec => []TypeOK
<1>1. TypeInv => TypeOK
  BY DEF TypeInv
<1> QED
  BY <1>1, InitTypeInv, TypeInvStep, PTL DEF Spec

-----------------------------------------------------------------------------
(***************************************************************************)
(* A stop that was recorded alone.  From then on every process is in a     *)
(* state from which it can only skip the agent or stop it once more: the   *)
(* supervisor holds a retired row or none, the operators are stopping it.  *)
(***************************************************************************)
Settled ==
    /\ job["sup"].cmd # "boss"
    /\ stopAlone =>
        /\ rec.retired
        /\ \A p \in Op : job[p].pc \in {"idle", "kill_mark", "kill_window", "kill_final"}
        /\ \/ job["sup"].pc \in {"idle", "done"}
           \/ job["sup"].pc = "decide" /\ own.retired

\* Revive and spawn are not under way after such a stop.
LEMMA NothingUnderWay ==
    ASSUME TypeInv, Settled, NEW p \in Proc, Revive(p) \/ Spawn(p)
    PROVE  ~stopAlone /\ UNCHANGED stopAlone
<1>1. job[p].pc \in {"load", "mark", "check", "restore", "target", "previous",
                     "window", "wait", "write", "record"}
  BY DEF Revive, ReviveLoad, ReviveMark, ReviveCheck, ReviveRestore, Spawn, SpawnTarget,
         SpawnPrevious, SpawnWindow, SpawnCapture, SpawnAwait, SpawnWrite, SpawnRecord, At
<1>2. UNCHANGED stopAlone
  BY DEF Revive, ReviveLoad, ReviveMark, ReviveCheck, ReviveRestore, Spawn, SpawnTarget,
         SpawnPrevious, SpawnWindow, SpawnCapture, SpawnAwait, SpawnWrite, SpawnRecord, history
<1> QED
  BY <1>1, <1>2 DEF Settled, Proc

\* A process goes on with the command it has, or ends it.
SameCommand(p) ==
    \E j \in Job : Become(p, j) /\ j.cmd \in {job[p].cmd, "none"}

LEMMA GotoSame ==
    ASSUME TypeInv, NEW p \in Proc, NEW l \in Label, Goto(p, l)
    PROVE  SameCommand(p)
<1>1. job[p] \in Job
  BY DEF TypeInv, TypeOK
<1>2. [job[p] EXCEPT !.pc = l] \in Job /\ [job[p] EXCEPT !.pc = l].cmd = job[p].cmd
  BY <1>1 DEF Job
<1>3. NoJob.cmd = "none"
  BY DEF NoJob
<1> QED
  BY <1>2, <1>3, NoJobType DEF Goto, SameCommand

LEMMA SameCommandKeeps ==
    ASSUME TypeInv, job["sup"].cmd # "boss", NEW p \in Proc, SameCommand(p)
    PROVE  job'["sup"].cmd # "boss"
BY DEF SameCommand, Become, TypeInv, TypeOK, Proc

LEMMA LaunchSame ==
    ASSUME TypeInv, NEW p \in Proc, Revive(p) \/ Spawn(p)
    PROVE  SameCommand(p)
<1>1. job[p] \in Job /\ rec \in Row
  BY DEF TypeInv, TypeOK
<1>2. ASSUME NEW l \in {"target", "restore", "write", "wait", "record", "check"}, Goto(p, l)
      PROVE  SameCommand(p)
  BY <1>2, GotoSame DEF Label
<1>3. ASSUME Goto(p, AfterFailure(p)) \/ Goto(p, AfterSuccess(p))
      PROVE  SameCommand(p)
  BY <1>3, GotoSame, AfterType
<1>4. CASE ReviveLoad(p)
  <2>1. LET j == [job[p] EXCEPT !.pc = "mark", !.held = rec]
        IN  j \in Job /\ j.cmd = job[p].cmd
    BY <1>1 DEF Job, Label
  <2> QED
    BY <1>3, <1>4, <2>1 DEF ReviveLoad, SameCommand
<1>5. CASE ReviveMark(p) \/ ReviveCheck(p) \/ ReviveRestore(p)
  BY <1>2, <1>3, <1>5 DEF ReviveMark, ReviveCheck, ReviveRestore
<1>6. CASE SpawnTarget(p)
  <2>1. LET j == [job[p] EXCEPT !.pc = "previous", !.made = ~Found]
        IN  j \in Job /\ j.cmd = job[p].cmd
    BY <1>1 DEF Job, Label, Found
  <2> QED
    BY <1>2, <1>3, <1>6, <2>1 DEF SpawnTarget, SameCommand
<1>7. CASE SpawnPrevious(p)
  <2>1. LET j == [job[p] EXCEPT !.pc = "window", !.prev = rec]
        IN  j \in Job /\ j.cmd = job[p].cmd
    BY <1>1 DEF Job, Label
  <2> QED
    BY <1>7, <2>1 DEF SpawnPrevious, SameCommand
<1>8. CASE SpawnCapture(p)
  <2>1. CASE Goto(p, "write")
    BY <1>2, <2>1
  <2>2. CASE /\ minted < MaxSessions
             /\ Become(p, [job[p] EXCEPT !.pc = "write", !.got = minted + 1])
    <3>1. minted + 1 \in 0 .. MaxSessions
      BY <2>2, BoundsAssumption DEF TypeInv, TypeOK
    <3>2. [job[p] EXCEPT !.pc = "write"] \in Job
          /\ [job[p] EXCEPT !.pc = "write"].cmd = job[p].cmd
      BY <1>1 DEF Job, Label
    <3>3. \A jj \in Job, s \in 0 .. MaxSessions :
             [jj EXCEPT !.got = s] \in Job /\ [jj EXCEPT !.got = s].cmd = jj.cmd
      BY DEF Job
    <3>4. LET j == [job[p] EXCEPT !.pc = "write", !.got = minted + 1]
          IN  j \in Job /\ j.cmd = job[p].cmd
      BY <3>1, <3>2, <3>3, Zenon
    <3> QED
      BY <2>2, <3>4 DEF SameCommand
  <2> QED
    BY <1>8, <2>1, <2>2 DEF SpawnCapture
<1>9. CASE SpawnWindow(p) \/ SpawnAwait(p) \/ SpawnWrite(p) \/ SpawnRecord(p)
  BY <1>2, <1>3, <1>9 DEF SpawnWindow, SpawnAwait, SpawnWrite, SpawnRecord
<1> QED
  BY <1>4, <1>5, <1>6, <1>7, <1>8, <1>9 DEF Revive, Spawn

LEMMA SettledStep ==
    ASSUME ~IsBoss, TypeInv, Settled, [Next]_vars
    PROVE  Settled'
<1>a. /\ job \in [Proc -> Job] /\ "sup" \in Proc
      /\ \A p \in Op : p \in Proc /\ p # "sup"
  BY ProcessAssumption DEF TypeInv, TypeOK, Proc
<1>1. CASE UNCHANGED vars \/ WindowDies \/ Heartbeat
  BY <1>1 DEF WindowDies, Heartbeat, vars, history, Settled, own
<1>2. CASE SupStart
  <2>1. job' = [job EXCEPT !["sup"] =
                   [NoJob EXCEPT !.cmd = "reconcile", !.pc = "decide", !.own = rec]]
    BY <1>2 DEF SupStart, Become
  <2>2. LET j == [NoJob EXCEPT !.cmd = "reconcile", !.pc = "decide", !.own = rec]
        IN  j.cmd = "reconcile" /\ j.pc = "decide" /\ j.own = rec
    BY DEF NoJob
  <2>3. /\ job'["sup"].cmd = "reconcile" /\ job'["sup"].pc = "decide"
        /\ job'["sup"].own = rec /\ \A p \in Op : job'[p] = job[p]
    BY <1>a, <2>1, <2>2
  <2> QED
    BY <1>2, <2>3 DEF SupStart, Settled, own, history
<1>3. CASE \/ ReconcileSkip \/ ReconcileEarly \/ ReconcileHeal \/ ReconcileBlock
           \/ ReconcileLaunch \/ ReconcileFail \/ SupDone
  <2>1. \A p \in Op : job'[p] = job[p]
    BY <1>a, <1>3 DEF ReconcileSkip, ReconcileEarly, ReconcileHeal, ReconcileBlock,
       ReconcileLaunch, ReconcileFail, SupDone, Goto, Become
  <2>2. job'["sup"].cmd # "boss"
    <3>1. CASE ReconcileLaunch
      <4>1. LET j == [job["sup"] EXCEPT !.pc = IF own.session = 0 THEN "target" ELSE "load",
                                        !.fresh = own.session = 0]
            IN  j.cmd = job["sup"].cmd
        BY <1>a DEF Job
      <4> QED
        BY <1>a, <3>1, <4>1 DEF ReconcileLaunch, Become, Settled
    <3>2. CASE Goto("sup", "done") \/ Goto("sup", "idle")
      BY <1>a, <3>2, GotoSame, SameCommandKeeps DEF Settled, Label
    <3> QED
      BY <1>3, <3>1, <3>2 DEF ReconcileSkip, ReconcileEarly, ReconcileHeal, ReconcileBlock,
         ReconcileFail, SupDone
  <2>3. CASE ~stopAlone
    BY <1>3, <2>2, <2>3 DEF ReconcileSkip, ReconcileEarly, ReconcileHeal, ReconcileBlock,
       ReconcileLaunch, ReconcileFail, SupDone, Settled, history
  <2>4. CASE stopAlone
    <3>1. ReconcileSkip \/ SupDone
      BY <1>3, <2>4 DEF ReconcileEarly, ReconcileHeal, ReconcileBlock,
         ReconcileLaunch, ReconcileFail, Settled, At
    <3>2. UNCHANGED <<rec, history>> /\ (Goto("sup", "done") \/ Goto("sup", "idle"))
      BY <3>1 DEF ReconcileSkip, SupDone
    <3>3. job'["sup"].pc \in {"idle", "done"}
      BY <1>a, <3>2 DEF Goto, Become, NoJob, Job
    <3> QED
      BY <2>1, <2>2, <3>2, <3>3 DEF Settled, history
  <2> QED
    BY <2>3, <2>4 DEF TypeInv, TypeOK
<1>4. CASE BossBootstrap
  BY <1>4 DEF BossBootstrap, Settled
<1>5. ASSUME NEW p \in Proc, Revive(p) \/ Spawn(p)
      PROVE  Settled'
  BY <1>5, NothingUnderWay, LaunchSame, SameCommandKeeps DEF Settled
<1>6. ASSUME NEW p \in Op, Operate(p)
      PROVE  Settled'
  <2>1. job'["sup"] = job["sup"]
    BY <1>a, <1>6 DEF Operate, BeginKill, BeginRevive, BeginSwitch, Begin, KillMark, KillWindow,
       KillFinal, SwitchMark, SwitchRestore, Timeout, Goto, Become
  <2>2. CASE BeginRevive(p) \/ BeginSwitch(p)
    BY <2>1, <2>2 DEF BeginRevive, BeginSwitch, Settled
  <2>3. CASE BeginKill(p)
    <3>1. [NoJob EXCEPT !.cmd = "kill", !.pc = "kill_mark", !.own = rec].pc = "kill_mark"
      BY DEF NoJob
    <3>2. /\ job'[p].pc = "kill_mark" /\ \A q \in Op \ {p} : job'[q] = job[q]
          /\ UNCHANGED <<rec, history>>
      BY <1>a, <2>3, <3>1 DEF BeginKill, Begin, Become
    <3> QED
      BY <2>1, <3>2 DEF Settled, own, history
  <2>4. CASE SwitchMark(p) \/ SwitchRestore(p)
    BY <2>1, <2>4 DEF SwitchMark, SwitchRestore, Settled, At, history
  <2>5. ASSUME NEW l \in {"idle", "kill_window", "kill_final"}, Goto(p, l)
        PROVE  /\ job'[p].pc = l
               /\ \A q \in Op \ {p} : job'[q] = job[q]
    BY <1>a, <2>5 DEF Goto, Become, NoJob, Job
  <2>6. CASE KillMark(p)
    <3>1. rec'.retired
      <4>1. job[p].own \in Row
        BY <1>a DEF Job
      <4> QED
        BY <2>6, <4>1 DEF KillMark, Retired, Row
    <3>2. stopAlone' => stopAlone \/ \A q \in Proc \ {p} : job[q].pc = "idle"
      BY <2>6 DEF KillMark, At
    <3> QED
      BY <1>a, <2>1, <2>5, <2>6, <3>1, <3>2 DEF KillMark, Settled, own
  <2>7. CASE KillFinal(p)
    <3>1. rec'.retired
      <4>1. job[p].own \in Row
        BY <1>a DEF Job
      <4> QED
        BY <2>7, <4>1 DEF KillFinal, Retired, Row
    <3> QED
      BY <1>a, <2>1, <2>5, <2>7, <3>1 DEF KillFinal, Settled, own
  <2>8. CASE KillWindow(p)
    <3>1. UNCHANGED <<rec, history>> /\ job[p].pc \in {"kill_window", "switch_window"}
      BY <2>8 DEF KillWindow
    <3>2. CASE job[p].pc = "kill_window"
      BY <2>1, <2>5, <2>8, <3>1, <3>2 DEF KillWindow, Settled, own, At, history
    <3>3. CASE job[p].pc = "switch_window"
      BY <2>1, <3>1, <3>3 DEF Settled, history
    <3> QED
      BY <3>1, <3>2, <3>3
  <2>9. CASE Timeout(p)
    BY <2>1, <2>5, <2>9 DEF Timeout, Settled, own, history
  <2> QED
    BY <1>6, <2>2, <2>3, <2>4, <2>6, <2>7, <2>8, <2>9 DEF Operate
<1> QED
  BY <1>1, <1>2, <1>3, <1>4, <1>5, <1>6 DEF Next, Reconcile

LEMMA SettledInit == Init => Settled
<1> SUFFICES ASSUME Init PROVE Settled
  OBVIOUS
<1>1. job["sup"] = NoJob /\ ~stopAlone
  BY DEF Init, Proc
<1> QED
  BY <1>1 DEF Settled, NoJob

LEMMA OnlyWorkers == ASSUME "Boss" \notin Agents, TypeInv PROVE ~IsBoss
BY DEF TypeInv, TypeOK, IsBoss

\* A worker's deliberate stop, recorded while no other command was under way,
\* is never undone: not by the supervisor, nor by further stops, however many
\* operators, commands, timeouts and window losses there are.
THEOREM StopHolds ==
    ASSUME "Boss" \notin Agents PROVE Spec => []DeliberateStopHolds
<1>1. Init => TypeInv
  BY InitTypeInv
<1>2. TypeInv /\ Settled /\ [Next]_vars => TypeInv' /\ Settled'
  BY OnlyWorkers, TypeInvStep, SettledStep
<1>3. Settled => DeliberateStopHolds
  BY DEF Settled, DeliberateStopHolds
<1> QED
  BY <1>1, <1>2, <1>3, SettledInit, PTL DEF Spec

\* After such a stop no step opens a window for the agent.
THEOREM NothingReopens ==
    ASSUME "Boss" \notin Agents PROVE Spec => StoppedStaysStopped
<1>1. ASSUME TypeInv, Settled, [Next]_vars, stopAsked, stopAlone, stopAlone'
      PROVE  windows' <= windows
  <2>1. windows \in 0 .. MaxWindows
    BY <1>1 DEF TypeInv, TypeOK
  <2>2. CASE \E p \in Proc : Revive(p) \/ Spawn(p)
    BY <1>1, <2>2, NothingUnderWay
  <2>3. CASE \E p \in Op : Operate(p)
    BY <2>1, <2>3, BoundsAssumption DEF Operate, BeginKill, BeginRevive, BeginSwitch, Begin,
       KillMark, KillWindow, KillFinal, SwitchMark, SwitchRestore, Timeout, Found
  <2>4. CASE SupStart \/ Reconcile \/ ReconcileEarly \/ WindowDies \/ Heartbeat \/ UNCHANGED vars
    BY <2>1, <2>4, BoundsAssumption DEF SupStart, Reconcile, ReconcileEarly, ReconcileSkip,
       ReconcileHeal, ReconcileBlock, ReconcileLaunch, ReconcileFail, BossBootstrap, SupDone,
       WindowDies, Heartbeat, vars
  <2> QED
    BY <1>1, <2>2, <2>3, <2>4 DEF Next
<1>2. TypeInv /\ Settled /\ [Next]_vars =>
        [stopAsked /\ stopAlone /\ stopAlone' => windows' <= windows]_vars
  BY <1>1
<1>3. TypeInv /\ Settled /\ [Next]_vars => TypeInv' /\ Settled'
  BY OnlyWorkers, TypeInvStep, SettledStep
<1> QED
  BY <1>2, <1>3, InitTypeInv, SettledInit, PTL DEF Spec, StoppedStaysStopped

-----------------------------------------------------------------------------
(***************************************************************************)
(* A worker left to the supervisor.  Between two turns the row counts      *)
(* every launch; during a launch the attempt is in the copies the launch   *)
(* may write back (Counted), whichever of them it writes last, and they    *)
(* name the session that was recorded.                                     *)
(***************************************************************************)
Calm == job["sup"].pc \in {"idle", "decide", "done"}

Counted(row) ==
    /\ row.recovery = "recovering" /\ row.attempts = own.attempts + 1
    /\ row.session = own.session

\* Where the supervisor is, and how often it has launched the agent.
Turn ==
    /\ job["sup"].pc # "idle" => job["sup"].cmd = "reconcile"
    /\ At("sup", "decide") => own = rec
    /\ tries <= IF Calm THEN rec.attempts ELSE own.attempts + 1

\* A blocked row is blocked for a reason that stays.
BlockedForReason ==
    rec.recovery = "blocked" =>
        /\ Calm
        /\ \/ rec.attempts >= RecoveryMax
           \/ rec.session = 0 /\ (~starting \/ rec.attempts >= BootstrapMax)

FreshLaunch ==
    ~Calm /\ job["sup"].fresh =>
        /\ own.session = 0
        /\ job["sup"].pc \in {"target", "previous", "window", "wait", "write", "record", "fail"}
        /\ ~At("sup", "record") => Counted(rec)
        /\ job["sup"].pc \in {"window", "wait", "write", "record"} => Counted(job["sup"].prev)
        /\ At("sup", "record") => rec = Spawned(job["sup"])

ResumeLaunch ==
    ~Calm /\ ~job["sup"].fresh =>
        /\ own.session # 0 /\ rec.session = own.session
        /\ job["sup"].pc \notin {"load", "fail"} => Counted(job["sup"].held)
        /\ At("sup", "load") => Counted(rec)

Exact == Turn /\ BlockedForReason /\ FreshLaunch /\ ResumeLaunch

ExactIfWorker == ~IsBoss => Exact

FewTries == ~IsBoss => tries <= RecoveryMax

Keeps ==
    /\ rec.recovery = "blocked" /\ ~Found => rec'.recovery = "blocked"
    /\ rec.session # 0 => rec'.session = rec.session

\* A step of the supervisor to another label leaves its variables alone.
LEMMA GotoFields ==
    ASSUME TypeInv, NEW l \in Label \ {"idle"}, Goto("sup", l)
    PROVE  /\ job'["sup"].pc = l /\ job'["sup"].cmd = job["sup"].cmd
           /\ job'["sup"].own = job["sup"].own /\ job'["sup"].held = job["sup"].held
           /\ job'["sup"].prev = job["sup"].prev /\ job'["sup"].fresh = job["sup"].fresh
           /\ job'["sup"].made = job["sup"].made /\ job'["sup"].got = job["sup"].got
<1>1. job["sup"] \in Job /\ job' = [job EXCEPT !["sup"] = [job["sup"] EXCEPT !.pc = l]]
  BY DEF Goto, Become, TypeInv, TypeOK, Proc
<1>2. job'["sup"] = [job["sup"] EXCEPT !.pc = l]
  BY <1>1 DEF TypeInv, TypeOK, Proc
<1> QED
  BY <1>1, <1>2 DEF Job

\* What the types say of the row and of the supervisor's copies.
LEMMA RowFields ==
    ASSUME TypeInv
    PROVE  /\ job["sup"] \in Job /\ rec \in Row /\ own \in Row
           /\ job["sup"].held \in Row /\ job["sup"].prev \in Row
           /\ RecoveryMax \in Nat \ {0} /\ BootstrapMax \in 1 .. RecoveryMax /\ tries \in Nat
           /\ \A row \in Row : row.attempts \in 0 .. RecoveryMax
<1>1. job["sup"] \in Job /\ rec \in Row /\ tries \in Nat
  BY DEF TypeInv, TypeOK, Proc
<1> QED
  BY <1>1, BoundsAssumption DEF Job, Row, own

LEMMA ReconcileExact ==
    ASSUME TypeInv, Exact,
           \/ ReconcileSkip \/ ReconcileEarly \/ ReconcileHeal \/ ReconcileBlock
           \/ ReconcileFail
    PROVE  Exact' /\ Keeps
<1>1. /\ Goto("sup", "done") /\ UNCHANGED starting
      /\ job["sup"].pc \in {"decide", "fail"}
  BY DEF ReconcileSkip, ReconcileEarly, ReconcileHeal, ReconcileBlock, ReconcileFail, At
<1>2. job'["sup"].pc = "done" /\ job'["sup"].cmd = "reconcile"
  BY <1>1, GotoFields DEF Label, Exact, Turn
<1>3. ASSUME tries' <= rec'.attempts,
             rec'.recovery = "blocked" =>
                 \/ rec'.attempts >= RecoveryMax
                 \/ rec'.session = 0 /\ (~starting \/ rec'.attempts >= BootstrapMax)
      PROVE  Exact'
  BY <1>1, <1>2, <1>3 DEF Exact, Turn, BlockedForReason, FreshLaunch, ResumeLaunch, Calm, At
<1>4. CASE ReconcileSkip \/ ReconcileEarly
  <2>1. UNCHANGED <<rec, tries>> /\ job["sup"].pc = "decide"
    BY <1>4 DEF ReconcileSkip, ReconcileEarly, history, At
  <2>2. tries <= rec.attempts
    BY <2>1 DEF Exact, Turn, Calm
  <2> QED
    BY <1>3, <2>1, <2>2 DEF Exact, BlockedForReason, Keeps
<1>5. CASE ReconcileHeal
  <2>1. /\ own = rec /\ Found /\ tries' = 0
        /\ rec' = [own EXCEPT !.recovery = "healthy", !.attempts = 0]
    BY <1>5 DEF ReconcileHeal, Exact, Turn, At
  <2>2. rec'.recovery = "healthy" /\ rec'.attempts = 0 /\ rec'.session = rec.session
    BY <2>1, RowFields DEF Row
  <2> QED
    BY <1>3, <2>1, <2>2 DEF Keeps
<1>6. CASE ReconcileBlock
  <2>1. /\ own = rec /\ GiveUp /\ tries' = tries /\ tries <= rec.attempts
        /\ rec' = [own EXCEPT !.recovery = "blocked"]
    BY <1>6 DEF ReconcileBlock, Exact, Turn, Calm, At, history
  <2>2. /\ rec'.recovery = "blocked" /\ rec'.attempts = rec.attempts
        /\ rec'.session = rec.session
    BY <2>1, RowFields DEF Row
  <2> QED
    BY <1>3, <2>1, <2>2 DEF Keeps, GiveUp
<1>7. CASE ReconcileFail
  <2> DEFINE next == own.attempts + 1
             limit == IF own.session = 0 THEN BootstrapMax ELSE RecoveryMax
             how == IF next >= limit THEN "blocked" ELSE "cooldown"
  <2>1. /\ job["sup"].pc = "fail" /\ tries' = tries
        /\ rec' = [own EXCEPT !.attempts = next, !.recovery = how]
    BY <1>7 DEF ReconcileFail, At, history
  <2>2. /\ rec'.attempts = next /\ rec'.recovery = how /\ rec'.session = own.session
    BY <2>1, RowFields DEF Row
  <2>3. /\ tries <= next /\ rec.session = own.session /\ rec.recovery # "blocked"
    BY <2>1 DEF Exact, Turn, BlockedForReason, FreshLaunch, ResumeLaunch, Calm, At, Counted
  <2>4. how = "blocked" => next >= limit
    OBVIOUS
  <2> HIDE DEF next, how
  <2> QED
    BY <1>3, <2>1, <2>2, <2>3, <2>4 DEF Keeps
<1> QED
  BY <1>4, <1>5, <1>6, <1>7

LEMMA LaunchExact ==
    ASSUME TypeInv, Exact, ReconcileLaunch
    PROVE  Exact' /\ Keeps
<1>1. /\ job["sup"].pc = "decide" /\ job["sup"].cmd = "reconcile" /\ own = rec
      /\ tries <= rec.attempts /\ tries' = tries + 1
      /\ ~GiveUp /\ rec' = [own EXCEPT !.recovery = "recovering", !.attempts = @ + 1]
      /\ UNCHANGED starting
  BY DEF ReconcileLaunch, Exact, Turn, Calm, At
<1>2. /\ rec'.recovery = "recovering" /\ rec'.attempts = own.attempts + 1
      /\ rec'.session = own.session
  BY <1>1, RowFields DEF Row
<1>3. /\ job'["sup"].cmd = "reconcile" /\ job'["sup"].own = own
      /\ job'["sup"].pc = IF own.session = 0 THEN "target" ELSE "load"
      /\ job'["sup"].fresh = (own.session = 0)
  <2> DEFINE j == [job["sup"] EXCEPT !.pc = IF own.session = 0 THEN "target" ELSE "load",
                                     !.fresh = own.session = 0]
  <2>1. /\ j.cmd = "reconcile" /\ j.own = own /\ j.fresh = (own.session = 0)
        /\ j.pc = IF own.session = 0 THEN "target" ELSE "load"
    BY <1>1, RowFields DEF Job, own
  <2>2. job' = [job EXCEPT !["sup"] = j]
    BY DEF ReconcileLaunch, Become
  <2> HIDE DEF j
  <2>3. job'["sup"] = j
    BY <2>2 DEF TypeInv, TypeOK, Proc
  <2> QED
    BY <2>1, <2>3
<1>4. rec.recovery # "blocked"
  BY <1>1, RowFields DEF Exact, BlockedForReason, GiveUp
<1>5. own' = own
  BY <1>3 DEF own
<1>6. tries + 1 <= own.attempts + 1
  BY <1>1, RowFields
<1>7. Turn'
  BY <1>1, <1>3, <1>5, <1>6 DEF Turn, Calm, At
<1>8. BlockedForReason'
  BY <1>2 DEF BlockedForReason
<1>9. FreshLaunch'
  BY <1>2, <1>3, <1>5 DEF FreshLaunch, Counted, At
<1>10. ResumeLaunch'
  BY <1>2, <1>3, <1>5 DEF ResumeLaunch, Counted, At
<1> QED
  BY <1>1, <1>2, <1>4, <1>7, <1>8, <1>9, <1>10 DEF Exact, Keeps

\* The row spawn writes at the end.
LEMMA SpawnedFields ==
    ASSUME NEW j \in Job
    PROVE  /\ j.fresh => /\ Spawned(j).recovery = j.prev.recovery
                         /\ Spawned(j).attempts = j.prev.attempts
           /\ ~j.fresh => /\ Spawned(j).recovery = "healthy"
                          /\ Spawned(j).session = j.held.session
<1>1. j.prev \in Row /\ j.held \in Row /\ j.fresh \in BOOLEAN
  BY DEF Job
<1>2. CASE j.fresh
  BY <1>1, <1>2 DEF Spawned, Row
<1>3. CASE ~j.fresh
  BY <1>1, <1>3 DEF Spawned, NoRow
<1> QED
  BY <1>2, <1>3

\* A step of a launch that does not end it.
LEMMA OnwardExact ==
    ASSUME Exact, ~Calm, job'["sup"].pc \notin {"idle", "decide", "done"},
           job'["sup"].cmd = job["sup"].cmd, own' = own, tries' = tries,
           rec'.recovery # "blocked", rec.session # 0 => rec'.session = rec.session,
           FreshLaunch', ResumeLaunch'
    PROVE  Exact' /\ Keeps
<1>1. Turn'
  BY DEF Exact, Turn, Calm, At
<1>2. BlockedForReason'
  BY DEF BlockedForReason
<1> QED
  BY <1>1, <1>2 DEF Exact, BlockedForReason, Keeps

LEMMA ReviveExact ==
    ASSUME TypeInv, Exact, Revive("sup")
    PROVE  Exact' /\ Keeps
<1>1. /\ job["sup"].pc \in {"load", "mark", "check", "restore"} /\ ~Calm
      /\ job["sup"].cmd = "reconcile" /\ UNCHANGED starting
  BY DEF Revive, ReviveLoad, ReviveMark, ReviveCheck, ReviveRestore, At, Calm, Exact, Turn
<1>2. /\ ~job["sup"].fresh /\ own.session # 0 /\ rec.session = own.session
      /\ rec.recovery # "blocked" /\ tries <= own.attempts + 1
      /\ At("sup", "load") => Counted(rec)
      /\ ~At("sup", "load") => Counted(job["sup"].held)
  BY <1>1 DEF Exact, Turn, BlockedForReason, FreshLaunch, ResumeLaunch, At
<1>3. AfterFailure("sup") = "fail" /\ AfterSuccess("sup") = "done"
  BY <1>1 DEF AfterFailure, AfterSuccess
<1>4. CASE ReviveLoad("sup")
  <2>1. UNCHANGED <<rec, tries>> /\ At("sup", "load")
    BY <1>4 DEF ReviveLoad, history
  <2>2. CASE Goto("sup", "fail")
    <3>1. /\ job'["sup"].pc = "fail" /\ job'["sup"].cmd = job["sup"].cmd
          /\ own' = own /\ ~job'["sup"].fresh
      BY <1>2, <2>2, GotoFields DEF own, Label
    <3>2. FreshLaunch' /\ ResumeLaunch'
      BY <1>2, <2>1, <3>1 DEF FreshLaunch, ResumeLaunch, At
    <3> QED
      BY <1>1, <1>2, <2>1, <3>1, <3>2, OnwardExact
  <2>3. CASE Become("sup", [job["sup"] EXCEPT !.pc = "mark", !.held = rec])
    <3>1. job'["sup"] = [job["sup"] EXCEPT !.pc = "mark", !.held = rec]
      BY <2>3 DEF Become, TypeInv, TypeOK, Proc
    <3>2. /\ job'["sup"].pc = "mark" /\ job'["sup"].cmd = job["sup"].cmd
          /\ own' = own /\ ~job'["sup"].fresh /\ job'["sup"].held = rec
      BY <1>2, <3>1, RowFields DEF own, Job
    <3>3. FreshLaunch' /\ ResumeLaunch'
      BY <1>2, <2>1, <3>2 DEF FreshLaunch, ResumeLaunch, At, Counted
    <3> QED
      BY <1>1, <1>2, <2>1, <3>2, <3>3, OnwardExact
  <2> QED
    BY <1>3, <1>4, <2>2, <2>3 DEF ReviveLoad
<1>5. CASE ReviveMark("sup")
  <2>1. /\ rec' = [job["sup"].held EXCEPT !.recovery = "recovering"] /\ UNCHANGED tries
        /\ Goto("sup", "target") /\ Counted(job["sup"].held)
    BY <1>2, <1>5 DEF ReviveMark, history, At
  <2>2. /\ job'["sup"].pc = "target" /\ job'["sup"].cmd = job["sup"].cmd
        /\ own' = own /\ ~job'["sup"].fresh /\ job'["sup"].held = job["sup"].held
    BY <1>2, <2>1, GotoFields DEF own, Label
  <2>3. rec'.recovery = "recovering" /\ rec'.session = own.session
    BY <2>1, RowFields DEF Row, Counted
  <2>4. FreshLaunch' /\ ResumeLaunch'
    BY <1>2, <2>1, <2>2, <2>3 DEF FreshLaunch, ResumeLaunch, At, Counted
  <2> QED
    BY <1>1, <1>2, <2>1, <2>2, <2>3, <2>4, OnwardExact
<1>6. CASE ReviveCheck("sup")
  <2>1. UNCHANGED rec /\ At("sup", "check")
    BY <1>6 DEF ReviveCheck
  <2>2. CASE Goto("sup", "done") /\ tries' = 0
    <3>1. job'["sup"].pc = "done" /\ job'["sup"].cmd = "reconcile"
      BY <1>1, <2>2, GotoFields DEF Label
    <3> QED
      BY <1>2, <2>1, <2>2, <3>1, RowFields
         DEF Exact, Turn, BlockedForReason, FreshLaunch, ResumeLaunch, Calm, At, Keeps
  <2>3. CASE Goto("sup", "restore") /\ tries' = tries
    <3>1. /\ job'["sup"].pc = "restore" /\ job'["sup"].cmd = job["sup"].cmd
          /\ own' = own /\ ~job'["sup"].fresh /\ job'["sup"].held = job["sup"].held
      BY <1>2, <2>3, GotoFields DEF own, Label
    <3>2. FreshLaunch' /\ ResumeLaunch'
      BY <1>2, <2>1, <3>1 DEF FreshLaunch, ResumeLaunch, At, Counted
    <3> QED
      BY <1>1, <1>2, <2>1, <2>3, <3>1, <3>2, OnwardExact
  <2> QED
    BY <1>3, <1>6, <2>2, <2>3 DEF ReviveCheck
<1>7. CASE ReviveRestore("sup")
  <2>1. rec' = job["sup"].held /\ UNCHANGED tries /\ Goto("sup", "fail") /\ Counted(rec')
    BY <1>2, <1>3, <1>7 DEF ReviveRestore, history, At
  <2>2. /\ job'["sup"].pc = "fail" /\ job'["sup"].cmd = job["sup"].cmd
        /\ own' = own /\ ~job'["sup"].fresh
    BY <1>2, <2>1, GotoFields DEF own, Label
  <2>3. rec'.recovery = "recovering" /\ rec'.session = own.session
    BY <1>2, <1>7, <2>1 DEF Counted
  <2>4. FreshLaunch' /\ ResumeLaunch'
    BY <1>2, <2>2, <2>3 DEF FreshLaunch, ResumeLaunch, At
  <2> QED
    BY <1>1, <1>2, <2>1, <2>2, <2>3, <2>4, OnwardExact
<1> QED
  BY <1>4, <1>5, <1>6, <1>7 DEF Revive

\* The steps of spawn before it writes the row: the copies stay as they are,
\* but for the row it reads as `previous'.
LEMMA SpawningExact ==
    ASSUME TypeInv, Exact,
           \/ SpawnTarget("sup") \/ SpawnPrevious("sup") \/ SpawnWindow("sup")
           \/ SpawnCapture("sup") \/ SpawnAwait("sup")
    PROVE  Exact' /\ Keeps
<1> DEFINE s == job["sup"]
           t == job'["sup"]
<1>1. /\ s.pc \in {"target", "previous", "window", "wait"} /\ ~Calm
      /\ s.cmd = "reconcile" /\ UNCHANGED <<rec, starting, tries>>
  BY DEF SpawnTarget, SpawnPrevious, SpawnWindow, SpawnCapture, SpawnAwait, At, Calm,
         Exact, Turn, history
<1>2. /\ s.fresh => Counted(rec) /\ own.session = 0
      /\ s.fresh /\ s.pc \in {"window", "wait"} => Counted(s.prev)
      /\ ~s.fresh => /\ own.session # 0 /\ rec.session = own.session
                     /\ Counted(s.held)
      /\ rec.recovery # "blocked"
  BY <1>1 DEF Exact, BlockedForReason, FreshLaunch, ResumeLaunch, At
<1>3. AfterFailure("sup") = "fail"
  BY <1>1 DEF AfterFailure
<1>4. s \in Job /\ "sup" \in Proc /\ job \in [Proc -> Job]
  BY DEF TypeInv, TypeOK, Proc
<1>5. ASSUME t.cmd = s.cmd, t.own = s.own, t.held = s.held, t.fresh = s.fresh,
             \/ s.fresh /\ t.pc \in {"previous", "fail"}
             \/ s.fresh /\ t.pc = "window" /\ t.prev = rec
             \/ /\ s.fresh /\ t.pc \in {"wait", "write"} /\ s.pc \in {"window", "wait"}
                /\ t.prev = s.prev
             \/ ~s.fresh /\ t.pc \in {"restore", "previous", "window", "wait", "write"}
      PROVE  Exact' /\ Keeps
  <2>1. own' = own /\ t.pc \notin {"idle", "decide", "done"}
    BY <1>5 DEF own
  <2>2. FreshLaunch'
    <3> SUFFICES ASSUME t.fresh PROVE FreshLaunch'
      BY DEF FreshLaunch
    <3>1. own.session = 0 /\ Counted(rec)' /\ t.pc \notin {"record", "load", "mark", "check", "restore"}
      BY <1>1, <1>2, <1>5, <2>1 DEF Counted
    <3>2. t.pc \in {"window", "wait", "write"} =>
             t.prev.recovery = "recovering" /\ t.prev.session = own.session
                /\ t.prev.attempts = own.attempts + 1
      <4>1. t.pc \in {"window", "wait", "write"} => t.prev = rec \/
               (t.prev = s.prev /\ s.pc \in {"window", "wait"} /\ s.fresh)
        BY <1>5
      <4>2. s.fresh
        BY <1>5
      <4> QED
        BY <1>2, <4>1, <4>2 DEF Counted
    <3>3. t.pc # "record" /\ t.pc \in {"target", "previous", "window", "wait", "write", "fail"}
      BY <1>5
    <3> QED
      BY <2>1, <3>1, <3>2, <3>3 DEF FreshLaunch, At, Counted
  <2>3. ResumeLaunch'
    BY <1>1, <1>2, <1>5, <2>1 DEF ResumeLaunch, At, Counted
  <2>4. t.cmd = s.cmd /\ rec'.recovery # "blocked" /\ rec' = rec /\ tries' = tries
    BY <1>1, <1>2, <1>5
  <2> QED
    BY <1>1, <2>1, <2>2, <2>3, <2>4, OnwardExact
<1>6. ASSUME NEW l \in {"wait", "write", "restore", "fail"}, Goto("sup", l)
      PROVE  /\ t.cmd = s.cmd /\ t.own = s.own /\ t.held = s.held /\ t.fresh = s.fresh
             /\ t.pc = l /\ t.prev = s.prev
  BY <1>6, GotoFields DEF Label
<1> HIDE DEF s, t
<1>7. CASE SpawnTarget("sup")
  <2>1. CASE Become("sup", [job["sup"] EXCEPT !.pc = "previous", !.made = ~Found])
    <3>1. t = [s EXCEPT !.pc = "previous", !.made = ~Found]
      BY <1>4, <2>1 DEF Become, s, t
    <3> QED
      BY <1>4, <1>5, <3>1 DEF Job
  <2>2. CASE Goto("sup", IF s.fresh THEN "fail" ELSE "restore")
    BY <1>4, <1>5, <1>6, <2>2 DEF Job
  <2> QED
    BY <1>3, <1>7, <2>1, <2>2 DEF SpawnTarget, s
<1>8. CASE SpawnPrevious("sup")
  <2>1. t = [s EXCEPT !.pc = "window", !.prev = rec]
    BY <1>4, <1>8 DEF SpawnPrevious, Become, s, t
  <2> QED
    BY <1>4, <1>5, <2>1 DEF Job
<1>9. CASE SpawnWindow("sup")
  <2>1. PICK l \in {"write", "wait", "restore", "fail"} :
          /\ Goto("sup", l)
          /\ l = "fail" => s.fresh
          /\ l = "restore" => ~s.fresh
    BY <1>3, <1>9 DEF SpawnWindow, s
  <2>2. s.pc = "window"
    BY <1>9 DEF SpawnWindow, At, s
  <2> QED
    BY <1>4, <1>5, <1>6, <2>1, <2>2 DEF Job
<1>10. CASE SpawnCapture("sup")
  <2>1. s.pc = "wait" /\ s.fresh
    BY <1>10 DEF SpawnCapture, At, s
  <2>2. CASE Goto("sup", "write")
    BY <1>5, <1>6, <2>1, <2>2
  <2>3. CASE Become("sup", [job["sup"] EXCEPT !.pc = "write", !.got = minted + 1])
    <3>1. t = [s EXCEPT !.pc = "write", !.got = minted + 1]
      BY <1>4, <2>3 DEF Become, s, t
    <3> QED
      BY <1>4, <1>5, <2>1, <3>1 DEF Job
  <2> QED
    BY <1>10, <2>2, <2>3 DEF SpawnCapture
<1>11. CASE SpawnAwait("sup")
  <2>1. ~s.fresh /\ (Goto("sup", "write") \/ Goto("sup", "restore"))
    BY <1>11 DEF SpawnAwait, s
  <2> QED
    BY <1>5, <1>6, <2>1
<1> QED
  BY <1>7, <1>8, <1>9, <1>10, <1>11

LEMMA SpawnedExact ==
    ASSUME TypeInv, Exact, SpawnWrite("sup") \/ SpawnRecord("sup")
    PROVE  Exact' /\ Keeps
<1> DEFINE s == job["sup"]
           t == job'["sup"]
<1>1. /\ s.pc \in {"write", "record"} /\ ~Calm /\ s.cmd = "reconcile" /\ s \in Job
      /\ rec' = Spawned(s)
  BY RowFields DEF SpawnWrite, SpawnRecord, At, Calm, Exact, Turn
<1>2. /\ s.fresh => /\ Counted(s.prev) /\ own.session = 0
                    /\ IF s.pc = "record" THEN rec = Spawned(s) ELSE rec.session = 0
      /\ ~s.fresh => /\ own.session # 0 /\ rec.session = own.session
                     /\ Counted(s.held)
      /\ rec.recovery # "blocked" /\ tries <= own.attempts + 1
  BY <1>1 DEF Exact, Turn, BlockedForReason, FreshLaunch, ResumeLaunch, At, Counted
<1>3. /\ s.fresh => rec'.recovery = "recovering" /\ rec'.attempts = own.attempts + 1
      /\ ~s.fresh => rec'.recovery = "healthy" /\ rec'.session = own.session
  BY <1>1, <1>2, SpawnedFields DEF Counted
<1>4. rec'.recovery # "blocked" /\ (rec.session # 0 => rec'.session = rec.session)
  BY <1>1, <1>2, <1>3, RowFields DEF Job
<1>5. ASSUME NEW l \in {"record", "check", "done"}, Goto("sup", l)
      PROVE  /\ t.cmd = s.cmd /\ own' = own /\ t.held = s.held /\ t.fresh = s.fresh
             /\ t.pc = l /\ t.prev = s.prev /\ Spawned(t) = Spawned(s)
  <2>1. /\ t.pc = l /\ t.cmd = s.cmd /\ t.own = s.own /\ t.held = s.held
        /\ t.prev = s.prev /\ t.fresh = s.fresh /\ t.made = s.made /\ t.got = s.got
    BY <1>5, GotoFields DEF Label
  <2> QED
    BY <2>1 DEF Spawned, own
<1> HIDE DEF s, t
<1>6. CASE SpawnWrite("sup")
  <2>1. Goto("sup", "record") /\ tries' = tries
    BY <1>6 DEF SpawnWrite, history
  <2>2. /\ t.cmd = s.cmd /\ own' = own /\ t.held = s.held /\ t.fresh = s.fresh
        /\ t.pc = "record" /\ t.prev = s.prev /\ rec' = Spawned(t)
    BY <1>1, <1>5, <2>1
  <2>3. FreshLaunch'
    BY <1>2, <2>2 DEF FreshLaunch, Counted, At, t, Spawned
  <2>4. ResumeLaunch'
    BY <1>2, <1>3, <2>2 DEF ResumeLaunch, Counted, At, t
  <2> QED
    BY <1>1, <1>4, <2>1, <2>2, <2>3, <2>4, OnwardExact DEF s, t
<1>7. CASE SpawnRecord("sup") /\ ~s.fresh
  <2>1. Goto("sup", "check") /\ (tries' = 0 \/ tries' = tries)
    BY <1>7 DEF SpawnRecord, s
  <2>2. /\ t.cmd = s.cmd /\ own' = own /\ t.held = s.held /\ ~t.fresh
        /\ t.pc = "check"
    BY <1>5, <1>7, <2>1
  <2>3. FreshLaunch' /\ ResumeLaunch'
    BY <1>2, <1>3, <1>7, <2>2 DEF FreshLaunch, ResumeLaunch, Counted, At, t
  <2>4. Turn'
    <3>1. tries' <= own.attempts + 1
      BY <1>2, <2>1, RowFields
    <3> QED
      BY <1>1, <2>2, <3>1 DEF Turn, Calm, At, t
  <2>5. BlockedForReason'
    BY <1>4 DEF BlockedForReason
  <2> QED
    BY <1>2, <1>4, <2>3, <2>4, <2>5 DEF Exact, Keeps
<1>8. CASE SpawnRecord("sup") /\ s.fresh
  <2>1. Goto("sup", "done") /\ (tries' = 0 \/ tries' = tries)
    BY <1>8 DEF SpawnRecord, AfterSuccess, s
  <2>2. t.cmd = "reconcile" /\ t.pc = "done"
    BY <1>1, <1>5, <2>1
  <2>3. tries' <= rec'.attempts
    BY <1>2, <1>3, <1>8, <2>1, RowFields
  <2> QED
    BY <1>2, <1>4, <2>2, <2>3
       DEF Exact, Turn, BlockedForReason, FreshLaunch, ResumeLaunch, Calm, At, Keeps, t
<1> QED
  BY <1>6, <1>7, <1>8

LEMMA ExactStep ==
    ASSUME ~IsBoss, Op = {}, TypeInv, Exact, [Next]_vars
    PROVE  Exact' /\ Keeps
<1>a. "sup" \in Proc /\ job \in [Proc -> Job]
  BY DEF TypeInv, TypeOK, Proc
<1>1. CASE UNCHANGED vars \/ WindowDies
  <2>1. UNCHANGED <<rec, job, tries, starting>>
    BY <1>1 DEF WindowDies, vars, history
  <2>2. Turn' /\ BlockedForReason' /\ FreshLaunch' /\ ResumeLaunch'
    BY <2>1 DEF Exact, Turn, BlockedForReason, FreshLaunch, ResumeLaunch, Calm, Counted, At,
       own, Spawned
  <2> QED
    BY <2>1, <2>2 DEF Exact, Keeps
<1>2. CASE Heartbeat
  <2>1. UNCHANGED <<rec, job, tries>> /\ starting' = FALSE
    BY <1>2 DEF Heartbeat, history
  <2>2. Turn' /\ FreshLaunch' /\ ResumeLaunch'
    BY <2>1 DEF Exact, Turn, FreshLaunch, ResumeLaunch, Calm, Counted, At, own, Spawned
  <2>3. BlockedForReason'
    BY <2>1 DEF Exact, BlockedForReason, Calm
  <2> QED
    BY <2>1, <2>2, <2>3 DEF Exact, Keeps
<1>3. CASE SupStart
  <2> DEFINE j == [NoJob EXCEPT !.cmd = "reconcile", !.pc = "decide", !.own = rec]
  <2>1. job' = [job EXCEPT !["sup"] = j] /\ UNCHANGED <<rec, starting, tries>> /\ Calm
    BY <1>3 DEF SupStart, Become, history, Calm, At
  <2>2. j.cmd = "reconcile" /\ j.pc = "decide" /\ j.own = rec
    BY DEF NoJob
  <2> HIDE DEF j
  <2>3. job'["sup"].cmd = "reconcile" /\ job'["sup"].pc = "decide" /\ job'["sup"].own = rec
    BY <1>a, <2>1, <2>2
  <2> QED
    BY <2>1, <2>3 DEF Exact, Turn, BlockedForReason, FreshLaunch, ResumeLaunch, Calm, At,
       own, Keeps
<1>4. CASE BossBootstrap
  BY <1>4 DEF BossBootstrap, Exact, Turn, At
<1>5. CASE SupDone
  <2>1. /\ job'["sup"] = NoJob /\ UNCHANGED <<rec, starting, tries>> /\ Calm
    BY <1>a, <1>5 DEF SupDone, Goto, Become, history, Calm, At
  <2> QED
    BY <2>1 DEF NoJob, Exact, Turn, BlockedForReason, FreshLaunch, ResumeLaunch, Calm, At,
       Keeps
<1>6. CASE \/ ReconcileSkip \/ ReconcileEarly \/ ReconcileHeal \/ ReconcileBlock
           \/ ReconcileFail
  BY <1>6, ReconcileExact
<1>7. CASE ReconcileLaunch
  BY <1>7, LaunchExact
<1>8. CASE Revive("sup")
  BY <1>8, ReviveExact
<1>9. CASE Spawn("sup")
  BY <1>9, SpawningExact, SpawnedExact DEF Spawn
<1> QED
  BY <1>1, <1>2, <1>3, <1>4, <1>5, <1>6, <1>7, <1>8, <1>9 DEF Next, Reconcile, Proc

\* No step turns a worker into the Boss.
LEMMA AgentStays == ASSUME [Next]_vars PROVE IsBoss' = IsBoss
<1>1. CASE SupStart \/ Reconcile \/ ReconcileEarly \/ WindowDies \/ Heartbeat \/ UNCHANGED vars
  BY <1>1 DEF SupStart, Reconcile, ReconcileEarly, ReconcileSkip, ReconcileHeal,
     ReconcileBlock, ReconcileLaunch, ReconcileFail, BossBootstrap, SupDone, WindowDies,
     Heartbeat, vars, bounds, IsBoss
<1>2. CASE \E p \in Proc : Revive(p) \/ Spawn(p)
  BY <1>2 DEF Revive, ReviveLoad, ReviveMark, ReviveCheck, ReviveRestore, Spawn,
     SpawnTarget, SpawnPrevious, SpawnWindow, SpawnCapture, SpawnAwait, SpawnWrite,
     SpawnRecord, bounds, IsBoss
<1>3. CASE \E p \in Op : Operate(p)
  BY <1>3 DEF Operate, BeginKill, BeginRevive, BeginSwitch, Begin, KillMark, KillWindow,
     KillFinal, SwitchMark, SwitchRestore, Timeout, bounds, IsBoss
<1> QED
  BY <1>1, <1>2, <1>3 DEF Next

LEMMA ExactInit == Init => Exact
<1> SUFFICES ASSUME Init PROVE Exact
  OBVIOUS
<1>1. job["sup"] = NoJob /\ tries = 0 /\ rec.attempts = 0 /\ rec.recovery = "healthy"
  BY DEF Init, Proc, NoRow
<1> QED
  BY <1>1 DEF NoJob, Exact, Turn, BlockedForReason, FreshLaunch, ResumeLaunch, Calm, At

\* A lost worker that only the supervisor handles is launched at most
\* RECOVERY_MAX times before a launch succeeds, stays blocked once it is given
\* up, and is never given another session than the one recorded: for every
\* limit, every number of sessions and windows and every loss.
THEOREM RecoveryIsExactAlways ==
    ASSUME Op = {} PROVE Spec => RecoveryIsExact
<1>1. TypeInv /\ ExactIfWorker /\ [Next]_vars =>
        TypeInv' /\ ExactIfWorker' /\ (~IsBoss => Keeps)
  BY TypeInvStep, ExactStep, AgentStays DEF ExactIfWorker
<1>2. ASSUME TypeInv, Exact PROVE tries <= RecoveryMax
  <2>1. CASE Calm
    BY <1>2, <2>1, RowFields DEF Exact, Turn
  <2>2. CASE ~Calm
    <3>1. Launched
      BY <1>2, <2>2 DEF Launched, Exact, Turn, Calm
    <3> QED
      BY <1>2, <2>2, <3>1, RowFields DEF Exact, Turn, TypeInv, JobInv
  <2> QED
    BY <2>1, <2>2
<1>3. TypeInv /\ ExactIfWorker => FewTries
  BY <1>2 DEF FewTries, ExactIfWorker
<1>4. Spec => [](TypeInv /\ ExactIfWorker)
  <2>1. Init => TypeInv /\ ExactIfWorker
    BY InitTypeInv, ExactInit DEF ExactIfWorker
  <2> QED
    BY <1>1, <2>1, PTL DEF Spec
<1>5. TypeInv /\ ExactIfWorker /\ [Next]_vars => FewTries'
  BY <1>1, <1>3, PTL
<1>6. TypeInv /\ ExactIfWorker /\ [Next]_vars =>
        [~IsBoss =>
            /\ tries' <= RecoveryMax
            /\ rec.recovery = "blocked" /\ ~Found => rec'.recovery = "blocked"
            /\ rec.session # 0 => rec'.session = rec.session]_vars
  BY <1>1, <1>5, AgentStays DEF Keeps, FewTries
<1> QED
  BY <1>4, <1>6, PTL DEF Spec, RecoveryIsExact
=============================================================================
